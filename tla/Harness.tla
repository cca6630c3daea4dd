------------------------------- MODULE Harness -------------------------------
(***************************************************************************)
(* The actor that owns one child: crates/subagents/src/harness.rs, with    *)
(* the registry handlers it calls (runtime/mod.rs, state.rs, messaging.rs).*)
(* "hpc" is where the actor is; in "select" it takes the first of: a       *)
(* command, an urgent delivery, a deferred one, the end of its turn or,    *)
(* with no turn and queued messages, a change of the capacity.             *)
(***************************************************************************)
EXTENDS SubagentState

Goto(a, point) == hpc' = [hpc EXCEPT ![a] = point]

(* fault: nobody answers                                                   *)
FaultyReply(c, a) == UNCHANGED waits

(* The command of call c is answered.                                      *)
Reply(c, a) ==
  waits' = IF c = Nobody THEN waits ELSE [waits EXCEPT ![c] = @ \ {a}]

Settle(m)  == record' = [record EXCEPT ![m] = "settled"]   \* mark_terminal
RollBack(m) == record' = [record EXCEPT ![m] = "removed"]
Admit(m)   == answer' = [answer EXCEPT ![m] = "ok"]
Refuse(m)  == answer' = [answer EXCEPT ![m] = "error"] /\ RollBack(m)
Give(m)    == given' = [given EXCEPT ![m] = @ + 1]

(* begin_delegation; a message that delegates nothing changes nothing.     *)
BeginDelegation(a, m) ==
  IF message[m].delegate
  THEN undo' = [undo EXCEPT ![a] = task[a]] /\ task' = [task EXCEPT ![a] = m]
  ELSE undo' = [undo EXCEPT ![a] = NoChange] /\ UNCHANGED task

(* fault: the task of a delivery that failed is not restored               *)
FaultyRollbackDelegation(a) ==
  UNCHANGED task /\ undo' = [undo EXCEPT ![a] = NoChange]

RollbackDelegation(a) ==
  /\ task' = IF undo[a] = NoChange THEN task
             ELSE [task EXCEPT ![a] = undo[a]]
  /\ undo' = [undo EXCEPT ![a] = NoChange]

(* harness_turn_started                                                    *)
OpenTurn(a) ==
  /\ status' = [status EXCEPT ![a] = "running"]
  /\ slot' = [slot EXCEPT ![a] = "running"]

(* What a start of a turn does to the rest, for a delivery that begins it. *)
Prompting(a, reason, m) ==
  /\ OpenTurn(a)
  /\ Goto(a, "prompting")
  /\ why' = [why EXCEPT ![a] = reason]
  /\ job' = [job EXCEPT ![a] = m]
  /\ holds' = holds \cup {a}

IsCommand(a, kinds) ==
  /\ hpc[a] = "select" /\ commands[a] # << >>
  /\ Head(commands[a]).kind \in kinds

NoCommand(a) == hpc[a] = "select" /\ commands[a] = << >>
TurnOver(a)  == turn[a] \in Outcomes
-----------------------------------------------------------------------------
(* Start: start_turn up to agent.prompt; it brings its TurnCapacity along. *)
TakeStart(a) ==
  LET c == Head(commands[a]).from IN
  /\ IsCommand(a, {"start"})
  /\ commands' = [commands EXCEPT ![a] = Tail(@)]
  /\ IF turn[a] = "none" /\ CanStartTurn(a)
     THEN /\ Prompting(a, "start", None)
          /\ asker' = [asker EXCEPT ![a] = c]
          /\ UNCHANGED <<capacityVars, waits>>
     ELSE /\ DropCapacity(1)
          /\ Reply(c, a)
          /\ UNCHANGED <<turnVars, hpc, why, job, asker, holds>>
  /\ UNCHANGED <<task, ownerVars, treeVars, undo, turn, queued, mailbox,
                 libraryVars, messageVars, cpc, by, ids, sent, lock,
                 historyVars>>

(* agent.prompt succeeds: the turn runs, and what asked for it is told     *)
(* (the Start command; message_admitted; message_delivered).               *)
PromptAccepted(a) ==
  /\ hpc[a] = "prompting" /\ a \in alive
  /\ Goto(a, "select")
  /\ turn' = [turn EXCEPT ![a] = "live"]
  /\ why' = [why EXCEPT ![a] = "none"]
  /\ job' = [job EXCEPT ![a] = None]
  /\ undo' = [undo EXCEPT ![a] = NoChange]
  /\ asker' = [asker EXCEPT ![a] = Nobody]
  /\ IF why[a] = "start"
     THEN Reply(asker[a], a) /\ UNCHANGED <<record, given, answer>>
     ELSE /\ Settle(job[a]) /\ Give(job[a])
          /\ IF why[a] = "deliver" THEN Admit(job[a]) ELSE UNCHANGED answer
          /\ UNCHANGED waits
  /\ UNCHANGED <<sessionVars, capacityVars, holds, queued, channelVars,
                 libraryVars, message, commit, cpc, by, ids, sent, lock,
                 historyVars>>

(* agent.prompt fails: harness_turn_start_failed, then the capacity goes,  *)
(* then what asked for the turn fails (reject; message_failed).            *)
PromptFailed(a) ==
  /\ hpc[a] = "prompting"
  /\ a \in alive => "failure" \in Disturbances
  /\ EndTurn(a, "failed")
  /\ DropCapacity(1) /\ holds' = holds \ {a}
  /\ RollbackDelegation(a)
  /\ Goto(a, IF why[a] = "pending" THEN "pending" ELSE "select")
  /\ why' = [why EXCEPT ![a] = "none"]
  /\ job' = [job EXCEPT ![a] = None]
  /\ asker' = [asker EXCEPT ![a] = Nobody]
  /\ \/ why[a] = "start" /\ Reply(asker[a], a) /\ UNCHANGED <<record, answer>>
     \/ why[a] = "deliver" /\ Refuse(job[a]) /\ UNCHANGED waits
     \/ why[a] = "pending" /\ Settle(job[a]) /\ UNCHANGED <<answer, waits>>
  /\ UNCHANGED <<ownerVars, treeVars, turn, queued, channelVars, libraryVars,
                 message, commit, given, cpc, by, ids, sent, lock,
                 historyVars>>
-----------------------------------------------------------------------------
(* accept_delivery takes a message and waits for its sender to commit it.  *)
TakeDelivery(a) ==
  /\ NoCommand(a) /\ mailbox[a] # EmptyBox
  /\ job' = [job EXCEPT ![a] = NextOf(mailbox[a])]
  /\ mailbox' = [mailbox EXCEPT ![a] = Without(@)]
  /\ Goto(a, "accept")
  /\ UNCHANGED <<sessionVars, capacityVars, why, undo, asker, turn, holds,
                 queued, commands, libraryVars, messageVars, callVars,
                 historyVars>>

(* fault: a delivery does not wait for its commit                          *)
FaultyAccepting(a, m) == hpc[a] = "accept" /\ job[a] = m

Accepting(a, m) == hpc[a] = "accept" /\ job[a] = m /\ commit[m] = "yes"

(* The sender went away before it committed: the message is forgotten.     *)
Abandoned(a) ==
  /\ hpc[a] = "accept" /\ commit[job[a]] = "dropped"
  /\ Goto(a, "select") /\ job' = [job EXCEPT ![a] = None]
  /\ UNCHANGED <<sessionVars, capacityVars, why, undo, asker, turn, holds,
                 queued, channelVars, libraryVars, messageVars, callVars,
                 historyVars>>

Steerable(a, m) ==
  message[m].urgent /\ turn[a] # "none" /\ slot[a] = "running"

(* An urgent message steers the turn: begin_turn_steer, begin_delegation.  *)
Steer(a, m) ==
  /\ Accepting(a, m) /\ Steerable(a, m)
  /\ slot' = [slot EXCEPT ![a] = "steering"]
  /\ BeginDelegation(a, m)
  /\ Goto(a, "steering")
  /\ UNCHANGED <<status, ownerVars, treeVars, capacityVars, why, job, asker,
                 turn, holds, queued, channelVars, libraryVars, messageVars,
                 callVars, historyVars>>

(* finish_turn_steer: a turn that ended meanwhile stays as it is.          *)
FinishSteer(a) ==
  slot' = IF slot[a] = "steering" THEN [slot EXCEPT ![a] = "running"] ELSE slot

(* The child's session admits the prompt.                                  *)
SteerAdmitted(a) ==
  /\ hpc[a] = "steering" /\ a \in alive /\ turn[a] = "live"
  /\ FinishSteer(a)
  /\ Settle(job[a]) /\ Admit(job[a]) /\ Give(job[a])
  /\ Goto(a, "select")
  /\ job' = [job EXCEPT ![a] = None]
  /\ undo' = [undo EXCEPT ![a] = NoChange]
  /\ UNCHANGED <<status, task, ownerVars, treeVars, capacityVars, why, asker,
                 turn, holds, queued, channelVars, libraryVars, message,
                 commit, callVars, historyVars>>

(* queue_delivery: behind the turn, or refused when the queue is full.     *)
QueueDelivery(a, m) ==
  /\ Goto(a, "select") /\ job' = [job EXCEPT ![a] = None]
  /\ IF HasRoom(queued[a], message[m].urgent)
     THEN /\ queued' = [queued EXCEPT ![a] = Put(@, m, message[m].urgent)]
          /\ Admit(m) /\ UNCHANGED record
     ELSE Refuse(m) /\ UNCHANGED queued

(* TurnNotSteerable, TurnStopped: the message is queued instead.           *)
SteerRefused(a) ==
  /\ hpc[a] = "steering"
  /\ turn[a] = "live" => "steer" \in Disturbances
  /\ FinishSteer(a) /\ RollbackDelegation(a) /\ QueueDelivery(a, job[a])
  /\ UNCHANGED <<status, ownerVars, treeVars, capacityVars, why, asker, turn,
                 holds, channelVars, libraryVars, message, commit, given,
                 callVars, historyVars>>

(* Any other error refuses the message.                                    *)
SteerFailed(a) ==
  /\ hpc[a] = "steering"
  /\ a \in alive => "steer" \in Disturbances
  /\ FinishSteer(a) /\ RollbackDelegation(a) /\ Refuse(job[a])
  /\ Goto(a, "select") /\ job' = [job EXCEPT ![a] = None]
  /\ UNCHANGED <<status, ownerVars, treeVars, capacityVars, why, asker, turn,
                 holds, queued, channelVars, libraryVars, message, commit,
                 given, callVars, historyVars>>

(* fault: a message overtakes those in the queue                           *)
FaultyCanDeliver(a) == turn[a] = "none" /\ CanReserve

CanDeliver(a) ==
  turn[a] = "none" /\ queued[a] = EmptyBox /\ CanReserve

(* An idle child begins a turn with the message, if it may.                *)
DeliverStart(a, m) ==
  /\ Accepting(a, m) /\ ~Steerable(a, m) /\ CanDeliver(a)
  /\ IF CanStartTurn(a)
     THEN /\ Prompting(a, "deliver", m) /\ BeginDelegation(a, m)
          /\ Acquire
          /\ UNCHANGED <<answer, record>>
     ELSE /\ Refuse(m)           \* the delegation is undone, and dropping
          /\ dirty' = Agents     \* the capacity raises the revision
          /\ UNCHANGED <<reserved, limit>>
          /\ Goto(a, "select") /\ job' = [job EXCEPT ![a] = None]
          /\ UNCHANGED <<turnVars, task, why, undo, holds>>
  /\ UNCHANGED <<ownerVars, treeVars, asker, turn, queued, channelVars,
                 libraryVars, message, commit, given, callVars, historyVars>>

DeliverQueue(a, m) ==
  /\ Accepting(a, m) /\ ~Steerable(a, m) /\ ~CanDeliver(a)
  /\ QueueDelivery(a, m)
  /\ UNCHANGED <<sessionVars, capacityVars, why, undo, asker, turn, holds,
                 channelVars, libraryVars, message, commit, given, callVars,
                 historyVars>>
-----------------------------------------------------------------------------
(* CapacityChanged: start_pending, with no turn and something queued.      *)
CapacityChanged(a) ==
  /\ NoCommand(a) /\ mailbox[a] = EmptyBox
  /\ turn[a] = "none" /\ queued[a] # EmptyBox
  /\ a \in dirty
  /\ dirty' = dirty \ {a}
  /\ Goto(a, "pending")
  /\ UNCHANGED <<sessionVars, reserved, limit, stepVars, turn, holds, queued,
                 channelVars, libraryVars, messageVars, callVars, historyVars>>

(* One round of its loop: the first queued message begins a turn or fails. *)
StartPending(a) ==
  LET m == NextOf(queued[a]) IN
  /\ hpc[a] = "pending"
  /\ queued[a] # EmptyBox /\ CanReserve
  /\ queued' = [queued EXCEPT ![a] = Without(@)]
  /\ IF CanStartTurn(a)
     THEN /\ Prompting(a, "pending", m) /\ BeginDelegation(a, m)
          /\ Acquire
          /\ UNCHANGED record
     ELSE /\ Settle(m)
          /\ dirty' = Agents /\ UNCHANGED <<reserved, limit>>
          /\ UNCHANGED <<turnVars, task, hpc, why, job, undo, holds>>
  /\ UNCHANGED <<ownerVars, treeVars, asker, turn, channelVars, libraryVars,
                 message, commit, answer, given, callVars, historyVars>>

StopPending(a) ==
  /\ hpc[a] = "pending"
  /\ queued[a] = EmptyBox \/ ~CanReserve
  /\ Goto(a, "select")
  /\ UNCHANGED <<sessionVars, capacityVars, stepVars, turn, holds, queued,
                 channelVars, libraryVars, messageVars, callVars, historyVars>>
-----------------------------------------------------------------------------
(* TurnFinished drops the active turn, and with it the capacity, before    *)
(* the result is published.                                                *)
TurnFinished(a) ==
  /\ NoCommand(a) /\ mailbox[a] = EmptyBox /\ TurnOver(a)
  /\ DropCapacity(1) /\ holds' = holds \ {a}
  /\ Goto(a, "publish")
  /\ UNCHANGED <<sessionVars, stepVars, turn, queued, channelVars,
                 libraryVars, messageVars, callVars, historyVars>>

(* harness_turn_finished and complete_session, for a turn still open.      *)
PublishResult(a) ==
  IF slot[a] = "idle" THEN UNCHANGED turnVars
  ELSE EndTurn(a, IF turn[a] = "cancelled" THEN "interrupted"
                  ELSE IF turn[a] = "ok" /\ slot[a] = "answered"
                  THEN "completed" ELSE "failed")

Publish(a) ==
  /\ hpc[a] = "publish"
  /\ PublishResult(a)
  /\ turn' = [turn EXCEPT ![a] = "none"]
  /\ Goto(a, "select")
  /\ UNCHANGED <<task, ownerVars, treeVars, capacityVars, stepVars, holds,
                 queued, channelVars, libraryVars, messageVars, callVars,
                 historyVars>>
-----------------------------------------------------------------------------
(* Interrupt and Close: reject_waiting_deliveries, the urgent channel and  *)
(* then the deferred one, each message once its sender decided its commit. *)
TakeStop(a) ==
  /\ IsCommand(a, {"interrupt", "close"})
  /\ commands' = [commands EXCEPT ![a] = Tail(@)]
  /\ why' = [why EXCEPT ![a] = Head(commands[a]).kind]
  /\ asker' = [asker EXCEPT ![a] = Head(commands[a]).from]
  /\ Goto(a, "reject_urgent")
  /\ UNCHANGED <<sessionVars, capacityVars, job, undo, turn, holds, queued,
                 mailbox, libraryVars, messageVars, callVars, historyVars>>

(* The channel that reject_waiting_deliveries is emptying.                 *)
Rejecting(a) == IF hpc[a] = "reject_urgent" THEN mailbox[a].urgent
                ELSE mailbox[a].deferred

RejectWaiting(a) ==
  LET m == Head(Rejecting(a)) IN
  /\ hpc[a] \in {"reject_urgent", "reject_deferred"}
  /\ Rejecting(a) # << >>
  /\ \/ commit[m] = "yes" /\ Refuse(m)
     \/ commit[m] = "dropped" /\ UNCHANGED <<answer, record>>
  /\ mailbox' = [mailbox EXCEPT ![a] =
                   IF hpc[a] = "reject_urgent"
                   THEN [urgent |-> Tail(@.urgent), deferred |-> @.deferred]
                   ELSE [urgent |-> @.urgent, deferred |-> Tail(@.deferred)]]
  /\ UNCHANGED <<sessionVars, capacityVars, harnessVars, commands,
                 libraryVars, message, commit, given, callVars, historyVars>>

UrgentRejected(a) ==
  /\ hpc[a] = "reject_urgent" /\ mailbox[a].urgent = << >>
  /\ Goto(a, "reject_deferred")
  /\ UNCHANGED <<sessionVars, capacityVars, stepVars, turn, holds, queued,
                 channelVars, libraryVars, messageVars, callVars, historyVars>>

(* fault: the queue is dropped, and nobody learns of it                    *)
FaultyFailPending(a) ==
  queued' = [queued EXCEPT ![a] = EmptyBox] /\ UNCHANGED record

(* fail_pending: the queued messages fail.                                 *)
FailPending(a) ==
  /\ queued' = [queued EXCEPT ![a] = EmptyBox]
  /\ record' = [m \in Messages |->
                  IF m \in InBox(queued[a]) THEN "settled" ELSE record[m]]

(* Then stop_active, which with no turn answers at once, or close.         *)
AllRejected(a) ==
  LET answers == why[a] = "interrupt" /\ turn[a] = "none" IN
  /\ hpc[a] = "reject_deferred" /\ mailbox[a].deferred = << >>
  /\ FailPending(a)
  /\ Goto(a, IF why[a] = "close" THEN "shutdown"
             ELSE IF turn[a] = "none" THEN "select" ELSE "stopping")
  /\ IF answers
     THEN /\ Reply(asker[a], a)
          /\ why' = [why EXCEPT ![a] = "none"]
          /\ asker' = [asker EXCEPT ![a] = Nobody]
     ELSE UNCHANGED <<waits, why, asker>>
  /\ UNCHANGED <<sessionVars, capacityVars, job, undo, turn, holds,
                 channelVars, libraryVars, message, commit, answer, given,
                 cpc, by, ids, sent, lock, historyVars>>

(* close: agent.shutdown() ends the driver and, with it, its turn.         *)
Shutdown(a) ==
  /\ hpc[a] = "shutdown"
  /\ alive' = alive \ {a}
  /\ \E result \in Outcomes :
       turn' = IF turn[a] = "live" THEN [turn EXCEPT ![a] = result] ELSE turn
  /\ Goto(a, IF turn[a] = "none" THEN "closing" ELSE "stopping")
  /\ UNCHANGED <<sessionVars, capacityVars, stepVars, holds, queued,
                 channelVars, events, messageVars, callVars, historyVars>>

(* finish_active: the stopped turn's result is published ...               *)
FinishActive(a) ==
  /\ hpc[a] = "stopping" /\ TurnOver(a)
  /\ PublishResult(a)
  /\ turn' = [turn EXCEPT ![a] = "none"]
  /\ Goto(a, "release")
  /\ UNCHANGED <<task, ownerVars, treeVars, capacityVars, stepVars, holds,
                 queued, channelVars, libraryVars, messageVars, callVars,
                 historyVars>>

(* ... and then its capacity is dropped.                                   *)
Release(a) ==
  /\ hpc[a] = "release"
  /\ DropCapacity(1) /\ holds' = holds \ {a}
  /\ IF why[a] = "close"
     THEN Goto(a, "closing") /\ UNCHANGED <<waits, why, asker>>
     ELSE /\ Goto(a, "select") /\ Reply(asker[a], a)
          /\ why' = [why EXCEPT ![a] = "none"]
          /\ asker' = [asker EXCEPT ![a] = Nobody]
  /\ UNCHANGED <<sessionVars, job, undo, turn, queued, channelVars,
                 libraryVars, messageVars, cpc, by, ids, sent, lock,
                 historyVars>>
-----------------------------------------------------------------------------
(* harness_closed                                                          *)
MarkClosed(a) ==
  IF status[a] = "closed" THEN UNCHANGED turnVars
  ELSE /\ status' = [status EXCEPT ![a] = "closed"]
       /\ slot' = [slot EXCEPT ![a] = "idle"]

Commanding(c, a) == \E i \in DOMAIN commands[a] : commands[a][i].from = c

(* fault: a capacity on its way in a Start command is lost with it         *)
FaultyStarts(as) == {}

Starts(as) == {c \in Calls : \E a \in as : \E i \in DOMAIN commands[a] :
                 commands[a][i] = [kind |-> "start", from |-> c]}

(* Actors end with everything they own: those who wait for an answer learn *)
(* that the harness stopped, and the capacities in its hands are dropped.  *)
CleanUp(as) ==
  LET lost == UNION {InBox(mailbox[a]) \cup ({job[a]} \ {None}) : a \in as}
      Reset(f, value) == [a \in Agents |-> IF a \in as THEN value ELSE f[a]]
  IN  /\ hpc' = Reset(hpc, "gone")
      /\ waits' = [c \in Calls |->
                     waits[c] \ {a \in as : asker[a] = c \/ Commanding(c, a)}]
      /\ answer' = [m \in Messages |-> IF m \in lost /\ answer[m] = "none"
                                       THEN "dropped" ELSE answer[m]]
      /\ DropCapacity(Cardinality(Starts(as)) + Cardinality(holds \cap as))
      /\ holds' = holds \ as
      /\ commands' = Reset(commands, << >>)
      /\ mailbox' = Reset(mailbox, EmptyBox)
      /\ queued' = Reset(queued, EmptyBox)
      /\ turn' = Reset(turn, "none")
      /\ why' = Reset(why, "none")
      /\ job' = Reset(job, None)
      /\ undo' = Reset(undo, NoChange)
      /\ asker' = Reset(asker, Nobody)

(* The end of close(): harness_closed, the answer, and the task returns.   *)
HarnessClosed(a) ==
  /\ hpc[a] = "closing"
  /\ MarkClosed(a)
  /\ CleanUp({a})
  /\ UNCHANGED <<task, ownerVars, treeVars, libraryVars, message, commit,
                 record, given, cpc, by, ids, sent, lock, historyVars>>

HarnessStep(a) ==
  \/ TakeStart(a) \/ PromptAccepted(a) \/ PromptFailed(a)
  \/ TakeDelivery(a) \/ Abandoned(a)
  \/ \E m \in Messages : Steer(a, m) \/ DeliverStart(a, m) \/ DeliverQueue(a, m)
  \/ SteerAdmitted(a) \/ SteerRefused(a) \/ SteerFailed(a)
  \/ CapacityChanged(a) \/ StartPending(a) \/ StopPending(a)
  \/ TurnFinished(a) \/ Publish(a)
  \/ TakeStop(a) \/ RejectWaiting(a) \/ UrgentRejected(a) \/ AllRejected(a)
  \/ Shutdown(a) \/ FinishActive(a) \/ Release(a) \/ HarnessClosed(a)
==============================================================================
