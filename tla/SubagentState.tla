---------------------------- MODULE SubagentState ----------------------------
(***************************************************************************)
(* The state of one subagent runtime (crates/subagents/src): the registry  *)
(* of child sessions behind one lock, the shared turn capacity, one        *)
(* harness task and one event task per child, the channels between them,   *)
(* and the tool calls in flight.  Harness, Lifecycle and Messaging add the *)
(* actions; Subagents composes them.                                       *)
(*                                                                         *)
(* An action is one critical section of the registry lock, one exchange on *)
(* a channel or one answer of the agent library; steps that follow each    *)
(* other without another task being able to tell are one action.           *)
(***************************************************************************)
EXTENDS Naturals, Sequences, FiniteSets, AgentStatus

CONSTANTS
  MaxAgents,                 \* bound on the ids drawn
  MaxMessages,               \* bound on the messages enqueued
  Calls,                     \* tool calls, and calls of the host
  Plan,                      \* Plan[c]: the operations c may be
  Limits,                    \* the concurrency limits that are ever set
  DeferredCapacity,          \* DEFERRED_CAPACITY, of the channel and the queue
  UrgentCapacity,            \* URGENT_CAPACITY, likewise
  Disturbances,              \* what may happen beside the calls
  Nobody                     \* no call

Operations == {"spawn", "send", "interrupt", "close", "close_all",
               "cancel_all"}

(* A turn or a prompt fails; the child's session refuses or fails a steer; *)
(* a driver dies; a deadline passes; a caller is cancelled; a child        *)
(* submits a result; the limit changes.                                    *)
AllDisturbances == {"failure", "steer", "death", "timeout", "drop", "submit",
                    "limit"}

ASSUME SubagentAssumption ==
  /\ MaxAgents \in Nat \ {0} /\ MaxMessages \in Nat
  /\ Plan \in [Calls -> SUBSET Operations]
  /\ Limits \subseteq Nat /\ Limits # {}
  /\ Disturbances \subseteq AllDisturbances
  /\ DeferredCapacity \in Nat \ {0} /\ UrgentCapacity \in Nat \ {0}
  /\ Nobody \notin Calls
  \* A call has at most one command in a harness's channel, whose capacity
  \* is 8, and so has the event task: commands.send never waits.
  /\ IsFiniteSet(Calls) /\ Cardinality(Calls) < 8

Root     == 0
Agents   == 1 .. MaxAgents
Messages == 1 .. MaxMessages
None     == 0

VARIABLES
  \* the registry's sessions
  status,      \* ChildSession.status, "absent" before the insert
  parent,      \* ChildSession.descriptor.parent
  slot,        \* ChildSession.turn, without its tokens (see ChildTurn)
  task,        \* ChildSession.descriptor.task: None, or the delegate message
  handle,      \* the children with ChildSession.harness = Some
  joinable,    \* the children whose two tasks nobody took to join them
  nextId,      \* TaskTree.next_id
  \* the shared capacity
  reserved,    \* CapacityState.active
  limit,       \* CapacityState.limit
  dirty,       \* harnesses that have not seen the latest capacity revision
  \* the harnesses
  hpc,         \* where the harness is
  why,         \* what the step under way is for
  job,         \* the message being delivered, or None
  undo,        \* DelegationChange.previous_task, or NoChange
  asker,       \* whom to answer, or Nobody
  turn,        \* ActiveTurn.result: "none", "live", or how the turn ended
  holds,       \* harnesses that own a TurnCapacity
  queued,      \* pending_urgent and pending_deferred
  commands,    \* the command channel
  mailbox,     \* the urgent and the deferred channel
  \* the agent library
  alive,       \* children whose driver runs
  events,      \* the event task
  \* the messages
  message,     \* its recipient, priority and purpose
  commit,      \* the oneshot that releases the delivery
  answer,      \* the oneshot that reports its disposition
  record,      \* its entry in MessageThreads
  given,       \* history: how often its prompt reached the child
  \* the calls
  cpc,         \* where the call is
  by,          \* the session that made it
  ids,         \* the agents it concerns
  waits,       \* the harnesses or tasks it waits for
  sent,        \* the message it sends
  lock,        \* the holder of message_lock, or Nobody
  \* history
  covered,     \* agents some close request has marked
  shut         \* agents some close has reported closed

turnVars     == <<status, slot>>
treeVars     == <<parent, nextId>>
ownerVars    == <<handle, joinable>>
sessionVars  == <<turnVars, task, ownerVars, treeVars>>
capacityVars == <<reserved, limit, dirty>>
stepVars     == <<why, job, undo, asker>>
harnessVars  == <<hpc, stepVars, turn, holds, queued>>
channelVars  == <<commands, mailbox>>
libraryVars  == <<alive, events>>
messageVars  == <<message, commit, answer, record, given>>
callVars     == <<cpc, by, ids, waits, sent, lock>>
historyVars  == <<covered, shut>>
vars == <<sessionVars, capacityVars, harnessVars, channelVars, libraryVars,
          messageVars, callVars, historyVars>>

HarnessPoints == {"absent", "select", "accept", "steering", "prompting",
                  "pending", "publish", "reject_urgent", "reject_deferred",
                  "shutdown", "stopping", "release", "closing", "gone"}
Reasons    == {"none", "start", "deliver", "pending", "interrupt", "close"}
SlotStates == {"idle", "running", "answered", "steering"}
Outcomes   == {"ok", "cancelled", "error"}
NoChange   == MaxMessages + 1
CallPoints == {"idle", "done", "spawn_id", "spawn_insert", "spawn_start",
               "spawn_wait", "send_commit", "send_wait", "interrupt_send",
               "interrupt_wait", "close_send", "close_wait", "close_finish",
               "close_join", "close_late"}
Stops      == {"interrupt", "close", "close_all", "cancel_all"}

Boxes    == [urgent : Seq(Messages), deferred : Seq(Messages)]
EmptyBox == [urgent |-> << >>, deferred |-> << >>]
Envelope == [to : Agents, urgent : BOOLEAN, delegate : BOOLEAN]
Command  == [kind : {"start", "interrupt", "close"}, from : Calls \cup {Nobody}]

Born == {a \in Agents : status[a] # "absent"}

(* subtree_postorder, as a set: the stop and close commands of a subtree   *)
(* are sent together.  TaskTree checks that the walk finds this set.       *)
Subtree(a) ==
  {d \in Born : \A S \in SUBSET Born :
     (a \in S /\ \A n \in Born : parent[n] \in S => n \in S) => d \in S}

(* TaskTree::authorize                                                     *)
Authorized(session, a) ==
  /\ a \in Born
  /\ session # Root => a \in Subtree(session) \ {session}

(* Values of a box: urgent first, in order of arrival.                     *)
InBox(box) == {box.urgent[i] : i \in DOMAIN box.urgent} \cup
              {box.deferred[i] : i \in DOMAIN box.deferred}
NextOf(box) == IF box.urgent # << >> THEN Head(box.urgent) ELSE Head(box.deferred)
Without(box) == IF box.urgent # << >>
                THEN [urgent |-> Tail(box.urgent), deferred |-> box.deferred]
                ELSE [urgent |-> << >>, deferred |-> Tail(box.deferred)]
Put(box, m, urgent) ==
  IF urgent THEN [urgent |-> Append(box.urgent, m), deferred |-> box.deferred]
            ELSE [urgent |-> box.urgent, deferred |-> Append(box.deferred, m)]
HasRoom(box, urgent) == IF urgent THEN Len(box.urgent) < UrgentCapacity
                                  ELSE Len(box.deferred) < DeferredCapacity

-----------------------------------------------------------------------------
(* capacity.rs.  TurnCapacity is released by dropping it, which raises the *)
(* revision that every harness watches.                                    *)
CanReserve == reserved < limit

Acquire == reserved' = reserved + 1 /\ UNCHANGED <<limit, dirty>>

(* fault: dropping a reservation does not tell the harnesses               *)
FaultyDropCapacity(n) == reserved' = reserved - n /\ UNCHANGED <<limit, dirty>>

DropCapacity(n) ==
  /\ reserved' = reserved - n
  /\ dirty' = IF n > 0 THEN Agents ELSE dirty
  /\ UNCHANGED limit

SetLimit(n) ==
  /\ "limit" \in Disturbances
  /\ limit' = n
  /\ dirty' = Agents
  /\ UNCHANGED <<reserved, sessionVars, harnessVars, channelVars, libraryVars,
                 messageVars, callVars, historyVars>>

(* can_start_turn and TurnSlot::start                                      *)
CanStartTurn(a) == status[a] \in Startable /\ slot[a] = "idle"

(* set_status at the end of a turn: a stopped child stays stopped.         *)
EndTurn(a, st) ==
  /\ slot' = [slot EXCEPT ![a] = "idle"]
  /\ status' = [status EXCEPT ![a] = IF @ \in Stopped THEN @ ELSE st]

Init ==
  /\ status = [a \in Agents |-> "absent"]
  /\ parent = [a \in Agents |-> Root]
  /\ slot = [a \in Agents |-> "idle"]
  /\ task = [a \in Agents |-> None]
  /\ handle = {} /\ joinable = {} /\ nextId = 0
  /\ reserved = 0 /\ limit \in Limits /\ dirty = {}
  /\ hpc = [a \in Agents |-> "absent"]
  /\ why = [a \in Agents |-> "none"]
  /\ job = [a \in Agents |-> None]
  /\ undo = [a \in Agents |-> NoChange]
  /\ asker = [a \in Agents |-> Nobody]
  /\ turn = [a \in Agents |-> "none"]
  /\ holds = {}
  /\ queued = [a \in Agents |-> EmptyBox]
  /\ commands = [a \in Agents |-> << >>]
  /\ mailbox = [a \in Agents |-> EmptyBox]
  /\ alive = {} /\ events = [a \in Agents |-> "absent"]
  /\ message = [m \in Messages |-> [to |-> 1, urgent |-> FALSE, delegate |-> FALSE]]
  /\ commit = [m \in Messages |-> "unsent"]
  /\ answer = [m \in Messages |-> "none"]
  /\ record = [m \in Messages |-> "none"]
  /\ given = [m \in Messages |-> 0]
  /\ cpc = [c \in Calls |-> "idle"]
  /\ by = [c \in Calls |-> Root]
  /\ ids = [c \in Calls |-> {}]
  /\ waits = [c \in Calls |-> {}]
  /\ sent = [c \in Calls |-> None]
  /\ lock = Nobody
  /\ covered = {} /\ shut = {}

SessionTypes ==
  /\ status \in [Agents -> Statuses \cup {"absent"}]
  /\ parent \in [Agents -> {Root} \cup Agents]
  /\ slot \in [Agents -> SlotStates]
  /\ task \in [Agents -> {None} \cup Messages]
  /\ handle \subseteq Agents /\ joinable \subseteq Agents
  /\ nextId \in 0 .. MaxAgents
  /\ alive \subseteq Agents
  /\ events \in [Agents -> {"absent", "open", "asking", "ended"}]

HarnessTypes ==
  /\ limit \in Limits /\ dirty \subseteq Agents
  /\ hpc \in [Agents -> HarnessPoints]
  /\ why \in [Agents -> Reasons]
  /\ job \in [Agents -> {None} \cup Messages]
  /\ undo \in [Agents -> {None, NoChange} \cup Messages]
  /\ asker \in [Agents -> Calls \cup {Nobody}]
  /\ turn \in [Agents -> {"none", "live"} \cup Outcomes]
  /\ holds \subseteq Agents

ChannelTypes ==
  /\ queued \in [Agents -> Boxes]
  /\ commands \in [Agents -> Seq(Command)]
  /\ mailbox \in [Agents -> Boxes]

MessageTypes ==
  /\ message \in [Messages -> Envelope]
  /\ commit \in [Messages -> {"unsent", "wait", "yes", "dropped"}]
  /\ answer \in [Messages -> {"none", "ok", "error", "dropped"}]
  /\ record \in [Messages -> {"none", "pending", "settled", "removed"}]
  /\ given \in [Messages -> Nat]

CallTypes ==
  /\ cpc \in [Calls -> CallPoints]
  /\ by \in [Calls -> {Root} \cup Agents]
  /\ ids \in [Calls -> SUBSET Agents]
  /\ waits \in [Calls -> SUBSET Agents]
  /\ sent \in [Calls -> {None} \cup Messages]
  /\ lock \in Calls \cup {Nobody}
  /\ covered \subseteq Agents /\ shut \subseteq Agents

TypeOK ==
  /\ SessionTypes /\ HarnessTypes /\ ChannelTypes /\ MessageTypes /\ CallTypes
  /\ reserved \in Nat
==============================================================================
