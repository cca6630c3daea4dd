------------------------------- MODULE Roster -------------------------------
(***************************************************************************)
(* What a front-end knows of the children: SubagentRoster of roster.rs,    *)
(* folded from the updates that the runtime sends.  A handler takes its    *)
(* update from the registry under the lock and sends it after the unlock,  *)
(* so the updates of different tasks may be sent in another order than the *)
(* one in which the registry changed.  The channel itself keeps the order: *)
(* an update is applied here when it is sent.                              *)
(***************************************************************************)
EXTENDS AgentStatus

CONSTANT Agents

VARIABLES
  status,                    \* ChildSession.status, "absent" before insert
  roster,                    \* SubagentNode.status, "unknown" before Added
  unsent,                    \* unsent[a][t]: the update that task t has not
                             \* sent yet, or "none"
  launched,                  \* the children whose first turn was requested
  open,                      \* the children with an open turn in TurnSlot
  gone,                      \* the children whose harness has closed
  closing,                   \* the children that a close call works on
  early                      \* history: the children that were closed before
                             \* they were announced

ownVars == <<launched, open, gone, closing, early>>
vars == <<status, roster, unsent, ownVars>>

Tasks == {"spawner", "harness", "closer", "events"}

(* Statuses and Added, the updates that concern the roster.                *)
Updates == Statuses \cup {"added"}

TypeOK ==
  /\ status \in [Agents -> Statuses \cup {"absent"}]
  /\ roster \in [Agents -> Statuses \cup {"unknown"}]
  /\ unsent \in [Agents -> [Tasks -> Updates \cup {"none"}]]
  /\ launched \subseteq Agents /\ open \subseteq Agents /\ gone \subseteq Agents
  /\ closing \subseteq Agents /\ early \subseteq Agents

Init ==
  /\ status = [a \in Agents |-> "absent"]
  /\ roster = [a \in Agents |-> "unknown"]
  /\ unsent = [a \in Agents |-> [t \in Tasks |-> "none"]]
  /\ launched = {} /\ open = {} /\ gone = {} /\ closing = {} /\ early = {}
-----------------------------------------------------------------------------
(* fault: an agent that is described again is shown as a new one           *)
FaultyApplied(shown, update) ==
  IF update = "added" THEN "running"
  ELSE IF shown = "unknown" THEN shown ELSE update

(* SubagentRoster::apply, as to the status of the child: a new one is      *)
(* running, one that is described again (a delegation) keeps its status.   *)
Applied(shown, update) ==
  IF update = "added" THEN IF shown = "unknown" THEN "running" ELSE shown
  ELSE IF shown = "unknown" THEN shown ELSE update

Free(a, t) == unsent[a][t] = "none"

(* Task t of child a changes the status under the lock.                    *)
Becomes(a, t, st) ==
  /\ Free(a, t)
  /\ status' = [status EXCEPT ![a] = st]
  /\ unsent' = [unsent EXCEPT ![a][t] = st]

(* send: the task goes on only after it has sent its update.               *)
Send(a, t) ==
  /\ ~Free(a, t)
  /\ roster' = [roster EXCEPT ![a] = Applied(@, unsent[a][t])]
  /\ unsent' = [unsent EXCEPT ![a][t] = "none"]
  /\ UNCHANGED <<status, ownVars>>

(* SpawnAgent::execute: insert, then Added, then the first turn.           *)
Insert(a) ==
  /\ status[a] = "absent"
  /\ status' = [status EXCEPT ![a] = "pending"]
  /\ unsent' = [unsent EXCEPT ![a]["spawner"] = "added"]
  /\ UNCHANGED <<roster, ownVars>>

Launch(a) ==
  /\ status[a] # "absent" /\ Free(a, "spawner") /\ a \notin gone
  /\ launched' = launched \cup {a}
  /\ UNCHANGED <<status, roster, unsent, open, gone, closing, early>>

(* begin_message_delivery, rollback_message_delivery: Added once more.     *)
Described(a) ==
  /\ a \in launched \ gone /\ status[a] # "pending" /\ Free(a, "harness")
  /\ unsent' = [unsent EXCEPT ![a]["harness"] = "added"]
  /\ UNCHANGED <<status, roster, ownVars>>

(* harness_turn_started                                                    *)
TurnStarted(a) ==
  /\ a \in launched \ (gone \cup open)
  /\ status[a] \in Startable
  /\ Becomes(a, "harness", "running")
  /\ open' = open \cup {a}
  /\ UNCHANGED <<roster, launched, gone, closing, early>>

(* harness_turn_finished and harness_turn_start_failed: what is sent is    *)
(* the status of a child that is being closed, or how its turn ended.      *)
TurnFinished(a, st) ==
  /\ a \in open
  /\ Becomes(a, "harness", IF status[a] \in Stopped THEN status[a] ELSE st)
  /\ open' = open \ {a}
  /\ UNCHANGED <<roster, launched, gone, closing, early>>

WhileUnknown(a) == IF roster[a] = "unknown" THEN early \cup {a} ELSE early

(* request_close and, once the harness has answered and the turn is over,  *)
(* finish_close.  The deadline does not pass in this module.               *)
RequestClose(a) ==
  /\ status[a] # "absent" /\ a \notin closing
  /\ Becomes(a, "closer", "closing")
  /\ closing' = closing \cup {a}
  /\ early' = WhileUnknown(a)
  /\ UNCHANGED <<roster, launched, open, gone>>

FinishClose(a) ==
  /\ a \in (closing \cap gone) \ open /\ Free(a, "harness")
  /\ Becomes(a, "closer", "closed")
  /\ closing' = closing \ {a}
  /\ UNCHANGED <<roster, launched, open, gone, early>>

(* harness_closed: the end of the harness, which a close asked for or the  *)
(* event task of an announced child whose driver ended.  It is silent for  *)
(* a child that is closed already.                                         *)
HarnessClosed(a) ==
  /\ status[a] \in Stopped \/ Free(a, "spawner")
  /\ status[a] # "absent" /\ Free(a, "harness") /\ a \notin open \cup gone
  /\ gone' = gone \cup {a}
  /\ IF status[a] = "closed" THEN UNCHANGED <<status, unsent>>
     ELSE Becomes(a, "harness", "closed")
  /\ early' = WhileUnknown(a)
  /\ UNCHANGED <<roster, launched, open, closing>>

(* runtime_closed, for a child that is being closed: the same handler in   *)
(* the event task, which runs only after the child was announced.          *)
EventsClosed(a) ==
  /\ status[a] = "closing" /\ Free(a, "spawner")
  /\ Becomes(a, "events", "closed")
  /\ open' = open \ {a}
  /\ UNCHANGED <<roster, launched, gone, closing, early>>

Next == \E a \in Agents :
  \/ \E t \in Tasks : Send(a, t)
  \/ Insert(a) \/ Launch(a) \/ Described(a) \/ TurnStarted(a)
  \/ \E st \in {"completed", "interrupted", "failed"} : TurnFinished(a, st)
  \/ RequestClose(a) \/ FinishClose(a) \/ HarnessClosed(a) \/ EventsClosed(a)

Spec == Init /\ [][Next]_vars
-----------------------------------------------------------------------------
Quiet(a) == \A t \in Tasks : Free(a, t)

(* Once everything is sent, a child that no close works on is shown as it  *)
(* is, unless it was closed before it was announced; and a child that      *)
(* waits for its first turn is shown as running.                           *)
RosterCatchesUp ==
  \A a \in Agents \ (early \cup closing) :
    Quiet(a) /\ status[a] # "absent" =>
      roster[a] = IF status[a] = "pending" THEN "running" ELSE status[a]

==============================================================================
