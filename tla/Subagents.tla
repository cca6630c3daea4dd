------------------------------ MODULE Subagents ------------------------------
(***************************************************************************)
(* The subagent runtime: harnesses, calls, and the tasks and turns of the  *)
(* agent library around them, with the properties of the whole.            *)
(***************************************************************************)
EXTENDS Messaging

Sessions == {Root} \cup Agents

CallStep(c) ==
  \/ SpawnReserveId(c) \/ SpawnFails(c) \/ SpawnReturns(c)
  \/ \E a \in Agents : SpawnInsert(c, a) \/ SpawnLaunch(c, a)
  \/ StopSend(c) \/ InterruptReturns(c) \/ CloseInactive(c) \/ FinishClose(c)
  \/ CloseReturns(c) \/ FinishLate(c)
  \/ SendCommit(c) \/ SendReturns(c)

CallBegins(c, session) ==
  \/ SpawnReserveTurn(c, session)
  \/ \E operation \in Stops, target \in Sessions :
       StopRequest(c, session, operation, target)
  \/ \E a \in Agents, urgent, delegate \in BOOLEAN :
       SendPrepare(c, session, a, urgent, delegate)

LibraryStep(a) ==
  \/ \E result \in Outcomes : TurnEnds(a, result)
  \/ EventsEnd(a) \/ EventsDone(a)

Disturbance ==
  \/ \E c \in Calls : StopTimesOut(c) \/ JoinTimesOut(c)
  \/ \E a \in Agents : Submit(a) \/ DriverDies(a)
  \/ \E n \in Limits : SetLimit(n)

Next ==
  \/ \E c \in Calls : CallStep(c) \/ CallDropped(c)
  \/ \E c \in Calls, session \in Sessions : CallBegins(c, session)
  \/ \E a \in Agents : HarnessStep(a) \/ LibraryStep(a)
  \/ Disturbance

Spec == Init /\ [][Next]_vars
-----------------------------------------------------------------------------
(* Capacity is neither lost nor made up: what is reserved is what the      *)
(* harnesses with a turn, the spawns that have not launched and the Start  *)
(* commands on their way hold, and no turn runs without it.                *)
(* (capacity.rs; every path of spawn_agent, start_turn and finish_active)  *)
CapacityConserved ==
  /\ reserved = Cardinality(holds)
               + Cardinality({c \in Calls : cpc[c] \in Holding})
               + Cardinality({c \in Calls : \E a \in Agents :
                   \E i \in DOMAIN commands[a] :
                     commands[a][i] = [kind |-> "start", from |-> c]})
  /\ \A a \in Agents : turn[a] = "live" => a \in holds

(* A child with no turn and queued messages learns of a capacity that is   *)
(* free: it has not seen the latest revision yet.  (next_event, changed)   *)
NoLostWakeup ==
  \A a \in Agents :
    hpc[a] = "select" /\ turn[a] = "none" /\ queued[a] # EmptyBox /\ CanReserve
      => a \in dirty

(* Once a close has marked a child, every descendant it has or will ever   *)
(* get is being closed or is closed, although spawns are in progress while *)
(* it does (state.rs:245-276 looks at the parent a second time).           *)
CloseCoversSubtree ==
  \A a \in covered : \A d \in Subtree(a) : status[d] \in Stopped

(* A close that says so has left nothing at work: the child's harness and  *)
(* driver have ended, its turn is over and its capacity is back            *)
(* (stop_and_close; tools.rs:523), whatever became of earlier closes; and  *)
(* no close ever finds a turn open when it finishes (StillRunning).        *)
ClosedMeansQuiet ==
  /\ \A a \in shut : /\ status[a] \in Stopped /\ slot[a] = "idle"
                      /\ hpc[a] = "gone" /\ a \notin alive
                      /\ turn[a] = "none" /\ a \notin holds
  /\ \A c \in Calls : cpc[c] \in {"close_finish", "close_late"}
                      => AllInactive(ids[c])

-----------------------------------------------------------------------------
(* A message whose delivery is pending is in the hands of its recipient's  *)
(* harness: none is forgotten with its place in the history, which nothing *)
(* else would ever free.  A harness that ends in order leaves only those   *)
(* that it never accepted, for their senders to take back; one that is     *)
(* aborted after a deadline (finish_close) loses what it holds.            *)
PendingIsHeld ==
  \A m \in Messages : record[m] = "pending" =>
    LET a == message[m].to IN
    \/ m \in InBox(mailbox[a]) \cup InBox(queued[a]) \cup {job[a]}
    \/ hpc[a] = "gone" /\ (answer[m] = "dropped" \/ "timeout" \in Disturbances)

(* A message reaches the child's conversation at most once, never before   *)
(* it is committed, and never when its sender was told that it failed      *)
(* (accept_delivery, start_pending, release).                              *)
DeliveredOnce ==
  \A m \in Messages :
    /\ given[m] <= 1
    /\ given[m] = 1 => commit[m] = "yes" /\ answer[m] \in {"none", "ok"}

(* Deferred messages reach a child in the order in which they were sent: a *)
(* later one is given only when the earlier one was given or has failed.   *)
DeferredInOrder ==
  \A m, n \in Messages :
    /\ m < n /\ message[m].to = message[n].to
    /\ ~message[m].urgent /\ ~message[n].urgent
    /\ given[n] = 1
    => given[m] = 1 \/ record[m] # "pending"

(* A child's task is its first one, or the one of a delegation it was      *)
(* given or is being given: a delivery that fails leaves no trace in it.   *)
(* (begin_delegation, rollback_delegation; a harness that is aborted after *)
(* a deadline does not roll back, and its child stays closed)              *)
TaskWasGiven ==
  \A a \in Agents : task[a] # None =>
    /\ message[task[a]].to = a /\ message[task[a]].delegate
    /\ \/ given[task[a]] = 1 \/ job[a] = task[a]
       \/ hpc[a] = "gone" /\ "timeout" \in Disturbances
-----------------------------------------------------------------------------
(* What the scheduling of the tasks justifies: the actors, the event tasks *)
(* and the calls take their steps; the turn of a child ends, well or not.  *)
Fairness ==
  /\ \A a \in Agents : WF_vars(HarnessStep(a)) /\ WF_vars(LibraryStep(a))
  /\ \A c \in Calls : WF_vars(CallStep(c)) /\ WF_vars(CallDropped(c))

FairSpec == Spec /\ Fairness

(* Every call returns although no deadline passes: senders, stops and      *)
(* spawns of several sessions never wait for each other in a circle.       *)
CallsReturn ==
  \A c \in Calls : cpc[c] # "idle" ~> cpc[c] = "done"
==============================================================================
