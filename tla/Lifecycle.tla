------------------------------ MODULE Lifecycle ------------------------------
(***************************************************************************)
(* The calls that create and stop children, and the tasks beside the       *)
(* harnesses: tools.rs (spawn_agent), runtime/mod.rs, runtime/state.rs and *)
(* runtime/lifecycle.rs.  A call is a future: "cpc" is where it waits, and *)
(* its caller may drop it there, which drops everything it holds.          *)
(***************************************************************************)
EXTENDS Harness

CallAt(c, point) == cpc' = [cpc EXCEPT ![c] = point]

(* A session calls its tools during its turn; the root session is the host.*)
MayCall(session) == session # Root => turn[session] = "live"

(* A call begins; Plan limits what it may be.                              *)
Begins(c, session, operation) ==
  /\ cpc[c] = "idle" /\ operation \in Plan[c] /\ MayCall(session)
  /\ by' = [by EXCEPT ![c] = session]

(* Every harness that the call commanded has answered, or is gone.         *)
Answered(c) == waits[c] = {}

OnlyCalls == <<sessionVars, capacityVars, harnessVars, channelVars,
               libraryVars, messageVars, historyVars>>
-----------------------------------------------------------------------------
(* spawn_agent: a turn is reserved, or the call fails.                     *)
SpawnReserveTurn(c, session) ==
  /\ Begins(c, session, "spawn") /\ CanReserve
  /\ Acquire
  /\ CallAt(c, "spawn_id")
  /\ UNCHANGED <<sessionVars, harnessVars, channelVars, libraryVars,
                 messageVars, ids, waits, sent, lock, historyVars>>

ParentStopped(session) == session # Root /\ status[session] \in Stopped

(* reserve_for: an id is drawn for a child of the calling session.         *)
SpawnReserveId(c) ==
  /\ cpc[c] = "spawn_id"
  /\ IF ParentStopped(by[c])
     THEN DropCapacity(1) /\ CallAt(c, "done") /\ UNCHANGED <<nextId, ids>>
     ELSE /\ nextId < MaxAgents                               \* bound
          /\ nextId' = nextId + 1
          /\ ids' = [ids EXCEPT ![c] = {nextId + 1}]
          /\ CallAt(c, "spawn_insert")
          /\ UNCHANGED capacityVars
  /\ UNCHANGED <<turnVars, task, ownerVars, parent, harnessVars, channelVars,
                 libraryVars, messageVars, by, waits, sent, lock, historyVars>>

(* fault: insert trusts the check that reserve_for made                    *)
FaultyInsertRefused(session) == FALSE

(* RegistryState::insert looks at the parent again.                        *)
InsertRefused(session) == ParentStopped(session)

(* spawn_agent (the policy and the factory) fails, or Registry::insert     *)
(* with the harness's task and the event task.                             *)
SpawnFails(c) ==
  /\ cpc[c] = "spawn_insert"
  /\ InsertRefused(by[c]) \/ "failure" \in Disturbances
  /\ DropCapacity(1) /\ CallAt(c, "done")
  /\ UNCHANGED <<sessionVars, harnessVars, channelVars, libraryVars,
                 messageVars, by, ids, waits, sent, lock, historyVars>>

SpawnInsert(c, a) ==
  /\ cpc[c] = "spawn_insert" /\ ids[c] = {a} /\ ~InsertRefused(by[c])
  /\ status' = [status EXCEPT ![a] = "pending"]
  /\ parent' = [parent EXCEPT ![a] = by[c]]
  /\ handle' = handle \cup {a} /\ joinable' = joinable \cup {a}
  /\ Goto(a, "select")
  /\ dirty' = dirty \ {a}
  /\ alive' = alive \cup {a}
  /\ events' = [events EXCEPT ![a] = "open"]
  /\ CallAt(c, "spawn_start")
  /\ UNCHANGED <<slot, task, nextId, reserved, limit, stepVars, turn, holds,
                 queued, channelVars, messageVars, by, ids, waits, sent, lock,
                 historyVars>>

(* launch_initial_turn: the Start command carries the capacity along.      *)
SpawnLaunch(c, a) ==
  /\ cpc[c] = "spawn_start" /\ ids[c] = {a}
  /\ IF a \in handle /\ hpc[a] # "gone"
     THEN /\ commands' = [commands EXCEPT ![a] =
                            Append(@, [kind |-> "start", from |-> c])]
          /\ waits' = [waits EXCEPT ![c] = {a}]
          /\ CallAt(c, "spawn_wait")
          /\ UNCHANGED capacityVars
     ELSE DropCapacity(1) /\ CallAt(c, "done") /\ UNCHANGED <<commands, waits>>
  /\ UNCHANGED <<sessionVars, harnessVars, mailbox, libraryVars, messageVars,
                 by, ids, sent, lock, historyVars>>

SpawnReturns(c) ==
  /\ cpc[c] = "spawn_wait" /\ Answered(c)
  /\ CallAt(c, "done")
  /\ UNCHANGED <<OnlyCalls, by, ids, waits, sent, lock>>
-----------------------------------------------------------------------------
(* interrupt, close, close_all and cancel_all first mark what they stop.   *)
(* request_interrupt_all is for the whole tree, so is request_close_all;   *)
(* the host makes these two calls.                                         *)
StopRequest(c, session, operation, target) ==
  /\ operation \in Stops /\ Begins(c, session, operation)
  /\ lock = Nobody /\ lock' = c
  /\ \/ /\ operation \in {"interrupt", "close"}
        /\ Authorized(session, target) /\ target # Root
        /\ ids' = [ids EXCEPT ![c] = Subtree(target)]
     \/ /\ operation \in {"close_all", "cancel_all"}
        /\ session = Root /\ target = Root
        /\ ids' = [ids EXCEPT ![c] = Born]
  /\ waits' = [waits EXCEPT ![c] = ids'[c] \cap handle]
  /\ IF operation \in {"close", "close_all"}
     THEN /\ status' = [a \in Agents |-> IF a \in ids'[c] THEN "closing"
                                                        ELSE status[a]]
          /\ covered' = covered \cup ids'[c]
          /\ CallAt(c, "close_send")
     ELSE /\ UNCHANGED <<status, covered>>
          /\ CallAt(c, "interrupt_send")
  /\ UNCHANGED <<slot, task, ownerVars, treeVars, capacityVars, harnessVars,
                 channelVars, libraryVars, messageVars, sent, shut>>

(* close_harnesses, interrupt_harnesses: one command to each harness, all  *)
(* at once; one that is gone answers with an error.                        *)
StopSend(c) ==
  LET kind == IF cpc[c] = "close_send" THEN "close" ELSE "interrupt"
      to   == {a \in waits[c] : hpc[a] # "gone"}
  IN  /\ cpc[c] \in {"close_send", "interrupt_send"}
      /\ commands' = [a \in Agents |->
                        IF a \in to
                        THEN Append(commands[a], [kind |-> kind, from |-> c])
                        ELSE commands[a]]
      /\ waits' = [waits EXCEPT ![c] = to]
      /\ CallAt(c, IF kind = "close" THEN "close_wait" ELSE "interrupt_wait")
      /\ UNCHANGED <<sessionVars, capacityVars, harnessVars, mailbox,
                     libraryVars, messageVars, by, ids, sent, lock,
                     historyVars>>

(* all_inactive                                                            *)
AllInactive(as) == \A a \in as : slot[a] = "idle"

Returns(c) == CallAt(c, "done") /\ lock' = Nobody

(* The commands are answered, and wait_until_inactive sees no open turn.   *)
InterruptReturns(c) ==
  /\ cpc[c] = "interrupt_wait" /\ Answered(c) /\ AllInactive(ids[c])
  /\ Returns(c)
  /\ UNCHANGED <<OnlyCalls, by, ids, waits, sent>>

CloseInactive(c) ==
  /\ cpc[c] = "close_wait" /\ Answered(c) /\ AllInactive(ids[c])
  /\ CallAt(c, "close_finish")
  /\ UNCHANGED <<OnlyCalls, by, ids, waits, sent, lock>>

(* AGENT_STOP_TIMEOUT passes before they are.  A close whose turns are all *)
(* inactive still finishes, although not all harnesses answered.           *)
StopTimesOut(c) ==
  /\ "timeout" \in Disturbances
  /\ cpc[c] \in {"close_wait", "interrupt_wait"}
  /\ waits' = [waits EXCEPT ![c] = {}]
  /\ IF cpc[c] = "close_wait" /\ AllInactive(ids[c])
     THEN CallAt(c, "close_late") /\ UNCHANGED lock
     ELSE Returns(c)
  /\ UNCHANGED <<OnlyCalls, by, ids, sent>>

(* finish_close: the subtree is closed, its tasks are taken to join them;  *)
(* an open turn would be an error, StillRunning.                           *)
FinishClose(c) ==
  /\ cpc[c] = "close_finish"
  /\ IF AllInactive(ids[c])
     THEN /\ status' = [a \in Agents |-> IF a \in ids[c] THEN "closed"
                                                       ELSE status[a]]
          /\ handle' = handle \ ids[c]
          /\ joinable' = joinable \ ids[c]
          /\ waits' = [waits EXCEPT ![c] = joinable \cap ids[c]]
          /\ CallAt(c, "close_join")
          /\ UNCHANGED lock
     ELSE Returns(c) /\ UNCHANGED <<status, ownerVars, waits>>
  /\ UNCHANGED <<slot, task, treeVars, capacityVars, harnessVars,
                 channelVars, libraryVars, messageVars, by, ids, sent,
                 historyVars>>

(* wait_for_tasks, the harnesses' and then the event tasks'.               *)
CloseReturns(c) ==
  /\ cpc[c] = "close_join"
  /\ \A a \in waits[c] : hpc[a] = "gone" /\ events[a] = "ended"
  /\ Returns(c)
  /\ shut' = shut \cup ids[c]
  /\ UNCHANGED <<sessionVars, capacityVars, harnessVars, channelVars,
                 libraryVars, messageVars, by, ids, waits, sent, covered>>

(* The deadline passes before the event tasks end: they are aborted.       *)
JoinTimesOut(c) ==
  /\ "timeout" \in Disturbances
  /\ cpc[c] = "close_join"
  /\ Returns(c)
  /\ events' = [a \in Agents |-> IF a \in waits[c] THEN "ended" ELSE events[a]]
  /\ UNCHANGED <<sessionVars, capacityVars, harnessVars, channelVars, alive,
                 messageVars, by, ids, waits, sent, historyVars>>

(* fault: a harness that has not ended is left alone                       *)
FaultyUnfinished(as) == {}

Unfinished(as) == {a \in as : hpc[a] # "gone"}

(* finish_close after the deadline: the harnesses that have not ended are  *)
(* aborted at once or, with none left, the event tasks.  A driver ends     *)
(* when the Agent in its harness is dropped.                               *)
FinishLate(c) ==
  LET tasks   == joinable \cap ids[c]
      running == Unfinished(tasks)
      open    == {a \in tasks : events[a] # "ended"}
  IN  /\ cpc[c] = "close_late" /\ AllInactive(ids[c])
      /\ status' = [a \in Agents |-> IF a \in ids[c] THEN "closed" ELSE status[a]]
      /\ handle' = handle \ ids[c] /\ joinable' = joinable \ ids[c]
      /\ CleanUp(running) /\ alive' = alive \ running
      /\ events' = [a \in Agents |-> IF running = {} /\ a \in open THEN "ended"
                                                               ELSE events[a]]
      /\ shut' = IF running \cup open = {} THEN shut \cup ids[c] ELSE shut
      /\ Returns(c)
      /\ UNCHANGED <<slot, task, treeVars, message, commit, record, given, by,
                     ids, sent, covered>>
-----------------------------------------------------------------------------
(* A call's future is dropped: the caller's turn is over, or a caller of   *)
(* the host gives up.  close and interrupt go from their first critical    *)
(* section to the commands without a point where they could be dropped.    *)
Holding == {"spawn_id", "spawn_insert", "spawn_start"}

CallDropped(c) ==
  /\ cpc[c] \notin {"idle", "done", "close_send", "interrupt_send"}
  /\ IF by[c] = Root THEN "drop" \in Disturbances ELSE turn[by[c]] # "live"
  /\ CallAt(c, "done")
  /\ lock' = IF lock = c THEN Nobody ELSE lock
  /\ IF cpc[c] \in Holding THEN DropCapacity(1) ELSE UNCHANGED capacityVars
  /\ commit' = IF cpc[c] = "send_commit"
               THEN [commit EXCEPT ![sent[c]] = "dropped"] ELSE commit
  /\ UNCHANGED <<sessionVars, harnessVars, channelVars, libraryVars, message,
                 answer, record, given, by, ids, waits, sent, historyVars>>
-----------------------------------------------------------------------------
(* external: the agent library runs the turn of a child.  A turn ends well *)
(* only after the tool calls it made; a cancelled one does not wait.       *)
TurnEnds(a, result) ==
  /\ turn[a] = "live"
  /\ \/ /\ result = "ok" /\ a \in alive
        /\ \A c \in Calls : by[c] = a => cpc[c] \in {"idle", "done"}
     \/ result = "error" /\ (a \in alive => "failure" \in Disturbances)
     \/ result = "cancelled" /\ hpc[a] = "stopping"
  /\ turn' = [turn EXCEPT ![a] = result]
  /\ UNCHANGED <<sessionVars, capacityVars, hpc, stepVars, holds, queued,
                 channelVars, libraryVars, messageVars, callVars, historyVars>>

(* submit_result, for the prompt the turn works on (see ChildTurn).        *)
Submit(a) ==
  /\ "submit" \in Disturbances
  /\ turn[a] = "live" /\ slot[a] = "running"
  /\ slot' = [slot EXCEPT ![a] = "answered"]
  /\ UNCHANGED <<status, task, ownerVars, treeVars, capacityVars, harnessVars,
                 channelVars, libraryVars, messageVars, callVars, historyVars>>

(* external: the driver of a child ends by itself.                         *)
DriverDies(a) ==
  /\ "death" \in Disturbances
  /\ a \in alive
  /\ alive' = alive \ {a}
  /\ UNCHANGED <<sessionVars, capacityVars, harnessVars, channelVars, events,
                 messageVars, callVars, historyVars>>

(* forward_events sees the end of the events: runtime_closed closes a      *)
(* child that nobody is closing, and marks any other one closed.           *)
EventsEnd(a) ==
  LET asks == status[a] \notin Stopped /\ a \in handle /\ hpc[a] # "gone" IN
  /\ events[a] = "open" /\ a \notin alive
  /\ events' = [events EXCEPT ![a] = IF asks THEN "asking" ELSE "ended"]
  /\ IF asks
     THEN /\ commands' = [commands EXCEPT ![a] =
                            Append(@, [kind |-> "close", from |-> Nobody])]
          /\ UNCHANGED turnVars
     ELSE MarkClosed(a) /\ UNCHANGED commands
  /\ UNCHANGED <<task, ownerVars, treeVars, capacityVars, harnessVars,
                 mailbox, alive, messageVars, callVars, historyVars>>

EventsDone(a) ==
  /\ events[a] = "asking" /\ hpc[a] = "gone"
  /\ events' = [events EXCEPT ![a] = "ended"]
  /\ UNCHANGED <<sessionVars, capacityVars, harnessVars, channelVars, alive,
                 messageVars, callVars, historyVars>>
==============================================================================
