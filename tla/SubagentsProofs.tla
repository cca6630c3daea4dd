--------------------------- MODULE SubagentsProofs ---------------------------
(***************************************************************************)
(* The turns, closes and capacities of the subagent runtime, for any       *)
(* number of children, calls and messages, whatever the plan of the calls  *)
(* and the limits: what TLC checks on small instances holds of all.        *)
(*                                                                         *)
(* "IInv" is the inductive invariant.  It says what each point of a        *)
(* harness implies for its turn, its driver and its channels (TurnAt,      *)
(* WhyAt, AliveAt, AbsentAt), where the call of every command is           *)
(* (CommandInv, OnceInv), what spawns and closes own (SpawnInv, HandleInv, *)
(* CoverInv, CloseInv), and that capacity is counted where it is           *)
(* (CapacityInv, WakeInv).  One lemma "...Kept" shows each part kept by    *)
(* every step of Next, action by action.                                   *)
(***************************************************************************)
EXTENDS Subagents, FiniteSetTheorems, SequenceTheorems, TLAPS

-----------------------------------------------------------------------------
(* Boxes and channels: what goes in and comes out of them.                 *)
LEMMA EmptyBoxIs ==
  EmptyBox \in Boxes /\ InBox(EmptyBox) = {}
BY EmptySeq DEF EmptyBox, Boxes, InBox

LEMMA HeadAndTail ==
  ASSUME NEW S, NEW s \in Seq(S), s # << >>
  PROVE  Head(s) \in S /\ Tail(s) \in Seq(S)
BY HeadTailProperties

LEMMA BoxPut ==
  ASSUME NEW box \in Boxes, NEW m \in Messages, NEW urgent \in BOOLEAN
  PROVE  Put(box, m, urgent) \in Boxes
BY AppendProperties DEF Put, Boxes

LEMMA BoxTake ==
  ASSUME NEW box \in Boxes, box # EmptyBox
  PROVE  NextOf(box) \in Messages /\ Without(box) \in Boxes
<1>1. CASE box.urgent # << >>
  BY <1>1, HeadAndTail DEF Boxes, NextOf, Without
<1>2. CASE box.urgent = << >>
  <2>1. box.deferred # << >>
    BY <1>2 DEF Boxes, EmptyBox
  <2> QED
    BY <1>2, <2>1, HeadAndTail, EmptySeq DEF Boxes, NextOf, Without
<1> QED BY <1>1, <1>2

LEMMA CommandTake ==
  ASSUME ChannelTypes, NEW a \in Agents, commands[a] # << >>
  PROVE  /\ Head(commands[a]).kind \in {"start", "interrupt", "close"}
         /\ Head(commands[a]).from \in Calls \cup {Nobody}
         /\ Tail(commands[a]) \in Seq(Command)
<1>1. commands[a] \in Seq(Command)
  BY DEF ChannelTypes
<1>2. Head(commands[a]) \in Command /\ Tail(commands[a]) \in Seq(Command)
  BY <1>1, HeadAndTail
<1> QED BY <1>2 DEF Command

LEMMA QueueTake ==
  ASSUME ChannelTypes, NEW a \in Agents, queued[a] # EmptyBox
  PROVE  NextOf(queued[a]) \in Messages /\ Without(queued[a]) \in Boxes
<1>1. queued[a] \in Boxes
  BY DEF ChannelTypes
<1> QED BY <1>1, BoxTake

LEMMA MailTake ==
  ASSUME ChannelTypes, NEW a \in Agents, mailbox[a] # EmptyBox
  PROVE  NextOf(mailbox[a]) \in Messages /\ Without(mailbox[a]) \in Boxes
<1>1. mailbox[a] \in Boxes
  BY DEF ChannelTypes
<1> QED BY <1>1, BoxTake

LEMMA QueuePut ==
  ASSUME ChannelTypes, MessageTypes, NEW a \in Agents, NEW m \in Messages
  PROVE  Put(queued[a], m, message[m].urgent) \in Boxes
<1>1. queued[a] \in Boxes /\ message[m].urgent \in BOOLEAN
  BY DEF ChannelTypes, MessageTypes, Envelope
<1> QED BY <1>1, BoxPut

LEMMA CommandPut ==
  ASSUME ChannelTypes, NEW a \in Agents, NEW kind \in {"start", "interrupt", "close"},
         NEW from \in Calls \cup {Nobody}
  PROVE  Append(commands[a], [kind |-> kind, from |-> from]) \in Seq(Command)
<1>1. commands[a] \in Seq(Command) /\ [kind |-> kind, from |-> from] \in Command
  BY DEF ChannelTypes, Command
<1> QED BY <1>1, AppendProperties

-----------------------------------------------------------------------------
Locking == {"send_commit", "send_wait", "close_send", "close_wait",
            "close_finish", "close_join", "close_late", "interrupt_send",
            "interrupt_wait"}

(* message_lock is held by the call that sends or stops.                   *)
LockInv ==
  \A c \in Calls :
    /\ cpc[c] \in Locking => lock = c
    /\ cpc[c] \in {"send_commit", "send_wait"} =>
         /\ sent[c] \in Messages
         /\ commit[sent[c]] = (IF cpc[c] = "send_commit" THEN "wait" ELSE "yes")
         /\ \A m \in Messages : m > sent[c] => commit[m] = "unsent"

(* Messages are drawn in the order of their ids.                           *)
DrawnInv ==
  \E k \in 0 .. MaxMessages : \A m \in Messages : commit[m] = "unsent" <=> m > k

(* A delivery under way has its message.                                   *)
JobInv ==
  \A a \in Agents :
    hpc[a] \in {"accept", "steering"} \/ (hpc[a] = "prompting" /\ why[a] # "start")
      => job[a] \in Messages

TypeInv ==
  /\ SessionTypes /\ HarnessTypes /\ ChannelTypes /\ MessageTypes /\ CallTypes
  /\ JobInv /\ LockInv /\ DrawnInv

LEMMA NextMessageIs ==
  ASSUME NEW k \in 0 .. MaxMessages, \A m \in Messages : commit[m] = "unsent" <=> m > k,
         \E n \in Messages : commit[n] = "unsent"
  PROVE  NextMessage = k + 1 /\ k + 1 \in Messages
<1>1. k + 1 \in Messages /\ commit[k + 1] = "unsent"
  BY SubagentAssumption DEF Messages
<1>2. \A n \in 1 .. (k + 1) - 1 : commit[n] # "unsent"
  BY SubagentAssumption DEF Messages
<1>3. \A m \in Messages :
        commit[m] = "unsent" /\ (\A n \in 1 .. m - 1 : commit[n] # "unsent") => m = k + 1
  BY <1>1, SubagentAssumption DEF Messages
<1> QED BY <1>1, <1>2, <1>3 DEF NextMessage

LEMMA DrawsMessage ==
  ASSUME DrawnInv, \E n \in Messages : commit[n] = "unsent"
  PROVE  NextMessage \in Messages
BY NextMessageIs DEF DrawnInv

LEMMA SubtreeIsBorn == \A a : Subtree(a) \subseteq Born
BY DEF Subtree

LEMMA SubtreeIsClosed ==
  /\ \A a : \A d \in Born : parent[d] \in Subtree(a) => d \in Subtree(a)
  /\ \A d \in Born : parent[d] \in Born => d \in Born
BY DEF Subtree

LEMMA SessionTypesKept ==
  ASSUME TypeInv, Next
  PROVE  SessionTypes'
<1>1. ASSUME NEW a \in Agents, HarnessStep(a) PROVE SessionTypes'
  <2>1. CASE TakeStart(a)
    BY <2>1
    DEF SessionTypes, TypeInv, Statuses, SlotStates, Root, None, TakeStart,
       turnVars, treeVars, ownerVars, libraryVars, CanStartTurn, Prompting,
       IsCommand, Startable, OpenTurn
  <2>2. CASE PromptFailed(a)
    BY <2>2
    DEF SessionTypes, TypeInv, Statuses, SlotStates, Root, None, HarnessTypes,
       PromptFailed, treeVars, ownerVars, libraryVars, EndTurn,
       RollbackDelegation, Stopped, NoChange
  <2>3. ASSUME NEW m \in Messages, Steer(a, m) PROVE SessionTypes'
    BY <2>3
    DEF SessionTypes, TypeInv, Statuses, SlotStates, Root, None, Steer,
       treeVars, ownerVars, libraryVars, BeginDelegation, Accepting,
       Steerable, NoChange
  <2>4. ASSUME NEW m \in Messages, DeliverStart(a, m) PROVE SessionTypes'
    BY <2>4
    DEF SessionTypes, TypeInv, Statuses, SlotStates, Root, None, DeliverStart,
       turnVars, treeVars, ownerVars, libraryVars, CanStartTurn,
       BeginDelegation, Prompting, Accepting, Steerable, CanDeliver,
       Startable, NoChange, OpenTurn, EmptyBox, CanReserve
  <2>5. CASE SteerAdmitted(a)
    BY <2>5
    DEF SessionTypes, TypeInv, Statuses, SlotStates, Root, None,
       SteerAdmitted, treeVars, ownerVars, libraryVars, NoChange, FinishSteer
  <2>6. CASE SteerRefused(a)
    BY <2>6
    DEF SessionTypes, TypeInv, Statuses, SlotStates, Root, None, HarnessTypes,
       SteerRefused, treeVars, ownerVars, libraryVars, RollbackDelegation,
       FinishSteer, NoChange
  <2>7. CASE SteerFailed(a)
    BY <2>7
    DEF SessionTypes, TypeInv, Statuses, SlotStates, Root, None, HarnessTypes,
       SteerFailed, treeVars, ownerVars, libraryVars, RollbackDelegation,
       FinishSteer, NoChange
  <2>8. CASE StartPending(a)
    BY ZenonT(40), <2>8, QueueTake
    DEF SessionTypes, TypeInv, Statuses, SlotStates, Root, None, ChannelTypes,
       StartPending, turnVars, treeVars, ownerVars, libraryVars, EmptyBox,
       CanReserve, CanStartTurn, BeginDelegation, Prompting, Startable,
       NoChange, OpenTurn
  <2>9. CASE Publish(a)
    BY <2>9
    DEF SessionTypes, TypeInv, Statuses, SlotStates, Root, None, Publish,
       treeVars, ownerVars, libraryVars, PublishResult, turnVars, EndTurn,
       Stopped
  <2>10. CASE Shutdown(a)
    BY <2>10
    DEF SessionTypes, TypeInv, Statuses, SlotStates, Root, None, Shutdown,
       sessionVars, ownerVars, treeVars, turnVars
  <2>11. CASE FinishActive(a)
    BY <2>11
    DEF SessionTypes, TypeInv, Statuses, SlotStates, Root, None, FinishActive,
       treeVars, ownerVars, libraryVars, TurnOver, PublishResult, turnVars,
       EndTurn, Stopped
  <2>12. CASE HarnessClosed(a)
    BY <2>12
    DEF SessionTypes, TypeInv, Statuses, SlotStates, Root, None,
       HarnessClosed, treeVars, ownerVars, libraryVars, MarkClosed, turnVars
  <2>13. ASSUME PromptAccepted(a) \/ TakeDelivery(a) \/ Abandoned(a) \/ (\E m \in
              Messages : DeliverQueue(a, m)) \/ CapacityChanged(a) \/ StopPending(a)
              \/ TurnFinished(a) \/ TakeStop(a) \/ RejectWaiting(a) \/
              UrgentRejected(a) \/ AllRejected(a) \/ Release(a)
       PROVE  SessionTypes'
    <3>1. UNCHANGED <<status, parent, slot, task, handle, joinable, nextId, alive,
           events>>
      BY <2>13
      DEF PromptAccepted, sessionVars, libraryVars, ownerVars, treeVars,
         turnVars, TakeDelivery, Abandoned, DeliverQueue, CapacityChanged,
         StopPending, TurnFinished, TakeStop, RejectWaiting, UrgentRejected,
         AllRejected, Release
    <3> QED BY <3>1  DEF SessionTypes, TypeInv, Statuses, SlotStates, Root, None
  <2> QED BY <1>1, <2>1, <2>2, <2>3, <2>4, <2>5, <2>6, <2>7, <2>8, <2>9,
   <2>10, <2>11, <2>12, <2>13 DEF HarnessStep
<1>2. ASSUME NEW a \in Agents, LibraryStep(a) PROVE SessionTypes'
  <2>1. CASE EventsEnd(a)
    BY <2>1
    DEF SessionTypes, TypeInv, Statuses, SlotStates, Root, None, EventsEnd,
       Stopped, turnVars, treeVars, ownerVars, MarkClosed
  <2>2. CASE EventsDone(a)
    BY <2>2
    DEF SessionTypes, TypeInv, Statuses, SlotStates, Root, None, EventsDone,
       sessionVars, ownerVars, treeVars, turnVars
  <2>3. ASSUME (\E result \in Outcomes : TurnEnds(a, result))
       PROVE  SessionTypes'
    <3>1. UNCHANGED <<status, parent, slot, task, handle, joinable, nextId, alive,
           events>>
      BY <2>3
      DEF TurnEnds, sessionVars, libraryVars, ownerVars, treeVars, turnVars
    <3> QED BY <3>1  DEF SessionTypes, TypeInv, Statuses, SlotStates, Root, None
  <2> QED BY <1>2, <2>1, <2>2, <2>3 DEF LibraryStep
<1>3. ASSUME NEW c \in Calls, CallStep(c) \/ CallDropped(c) PROVE SessionTypes'
  <2>1. CASE SpawnReserveId(c)
    BY <2>1, SubagentAssumption
    DEF SessionTypes, TypeInv, Statuses, SlotStates, Root, None,
       SpawnReserveId, turnVars, ownerVars, libraryVars, ParentStopped,
       Stopped
  <2>2. ASSUME NEW a \in Agents, SpawnInsert(c, a) PROVE SessionTypes'
    BY <2>2
    DEF SessionTypes, TypeInv, Statuses, SlotStates, Root, None, CallTypes,
       SpawnInsert, InsertRefused, ParentStopped, Stopped
  <2>3. CASE FinishClose(c)
    BY <2>3
    DEF SessionTypes, TypeInv, Statuses, SlotStates, Root, None, FinishClose,
       treeVars, ownerVars, libraryVars, AllInactive
  <2>4. CASE FinishLate(c)
    BY <2>4
    DEF SessionTypes, TypeInv, Statuses, SlotStates, Root, None, FinishLate,
       treeVars, AllInactive, Unfinished
  <2>5. ASSUME SpawnFails(c) \/ SpawnReturns(c) \/ (\E a \in Agents : SpawnLaunch(c,
              a)) \/ StopSend(c) \/ InterruptReturns(c) \/ CloseInactive(c) \/
              CloseReturns(c) \/ SendCommit(c) \/ SendReturns(c) \/ CallDropped(c)
       PROVE  SessionTypes'
    <3>1. UNCHANGED <<status, parent, slot, task, handle, joinable, nextId, alive,
           events>>
      BY <2>5
      DEF SpawnFails, sessionVars, libraryVars, ownerVars, treeVars, turnVars,
         SpawnReturns, OnlyCalls, SpawnLaunch, StopSend, InterruptReturns,
         CloseInactive, CloseReturns, SendCommit, SendReturns, CallDropped
    <3> QED BY <3>1  DEF SessionTypes, TypeInv, Statuses, SlotStates, Root, None
  <2> QED BY <1>3, <2>1, <2>2, <2>3, <2>4, <2>5 DEF CallStep
<1>4. ASSUME NEW c \in Calls, NEW session \in Sessions, CallBegins(c, session) PROVE SessionTypes'
  <2>1. ASSUME NEW operation \in Stops, NEW target \in Sessions, StopRequest(c, session, operation, target) PROVE SessionTypes'
    BY <2>1
    DEF SessionTypes, TypeInv, Statuses, SlotStates, Root, None, StopRequest,
       treeVars, ownerVars, libraryVars, Stops, Begins, MayCall
  <2>2. ASSUME SpawnReserveTurn(c, session) \/ (\E a \in Agents, urgent \in BOOLEAN,
              delegate \in BOOLEAN : SendPrepare(c, session, a, urgent, delegate))
       PROVE  SessionTypes'
    <3>1. UNCHANGED <<status, parent, slot, task, handle, joinable, nextId, alive,
           events>>
      BY <2>2
      DEF SpawnReserveTurn, sessionVars, libraryVars, ownerVars, treeVars,
         turnVars, SendPrepare
    <3> QED BY <3>1  DEF SessionTypes, TypeInv, Statuses, SlotStates, Root, None
  <2> QED BY <1>4, <2>1, <2>2 DEF CallBegins
<1>5. ASSUME Disturbance PROVE SessionTypes'
  <2>1. ASSUME NEW c \in Calls, JoinTimesOut(c) PROVE SessionTypes'
    BY <2>1
    DEF SessionTypes, TypeInv, Statuses, SlotStates, Root, None, JoinTimesOut,
       sessionVars, ownerVars, treeVars, turnVars
  <2>2. ASSUME NEW a \in Agents, Submit(a) PROVE SessionTypes'
    BY <2>2
    DEF SessionTypes, TypeInv, Statuses, SlotStates, Root, None, Submit,
       treeVars, ownerVars, libraryVars
  <2>3. ASSUME NEW a \in Agents, DriverDies(a) PROVE SessionTypes'
    BY <2>3
    DEF SessionTypes, TypeInv, Statuses, SlotStates, Root, None, DriverDies,
       sessionVars, ownerVars, treeVars, turnVars
  <2>4. ASSUME (\E c \in Calls : StopTimesOut(c)) \/ (\E n \in Limits : SetLimit(n))
       PROVE  SessionTypes'
    <3>1. UNCHANGED <<status, parent, slot, task, handle, joinable, nextId, alive,
           events>>
      BY <2>4
      DEF StopTimesOut, OnlyCalls, libraryVars, sessionVars, ownerVars,
         treeVars, turnVars, SetLimit
    <3> QED BY <3>1  DEF SessionTypes, TypeInv, Statuses, SlotStates, Root, None
  <2> QED BY <1>5, <2>1, <2>2, <2>3, <2>4 DEF Disturbance
<1> QED BY <1>1, <1>2, <1>3, <1>4, <1>5 DEF Next

LEMMA HarnessTypesKept ==
  ASSUME TypeInv, Next
  PROVE  HarnessTypes'
<1>1. ASSUME NEW a \in Agents, HarnessStep(a) PROVE HarnessTypes'
  <2>1. CASE TakeStart(a)
    <3>1. Head(commands[a]).from \in Calls \cup {Nobody}
      BY <2>1, CommandTake DEF TypeInv, TakeStart, IsCommand
    <3> QED
      BY <2>1, <3>1
      DEF HarnessTypes, TypeInv, HarnessPoints, Reasons, None, TakeStart, Prompting,
          Goto, DropCapacity, capacityVars
  <2>2. CASE PromptAccepted(a)
    BY <2>2
    DEF HarnessTypes, TypeInv, HarnessPoints, Reasons, Outcomes, NoChange,
       None, PromptAccepted, capacityVars, Goto
  <2>3. CASE PromptFailed(a)
    BY <2>3
    DEF HarnessTypes, TypeInv, HarnessPoints, Reasons, Outcomes, NoChange,
       None, PromptFailed, DropCapacity, Goto, RollbackDelegation
  <2>4. CASE TakeDelivery(a)
    BY <2>4, MailTake
    DEF HarnessTypes, TypeInv, HarnessPoints, Reasons, Outcomes, NoChange,
       None, ChannelTypes, TakeDelivery, capacityVars, EmptyBox, Goto,
       NoCommand
  <2>5. CASE Abandoned(a)
    BY <2>5
    DEF HarnessTypes, TypeInv, HarnessPoints, Reasons, Outcomes, NoChange,
       None, Abandoned, capacityVars, Goto
  <2>6. ASSUME NEW m \in Messages, Steer(a, m) PROVE HarnessTypes'
    BY <2>6
    DEF HarnessTypes, TypeInv, HarnessPoints, Reasons, Outcomes, NoChange,
       None, SessionTypes, Steer, capacityVars, Goto, BeginDelegation,
       Accepting, Steerable
  <2>7. ASSUME NEW m \in Messages, DeliverStart(a, m) PROVE HarnessTypes'
    BY <2>7
    DEF HarnessTypes, TypeInv, HarnessPoints, Reasons, Outcomes, NoChange,
       None, SessionTypes, DeliverStart, Acquire, CanStartTurn, Goto,
       BeginDelegation, Prompting, Accepting, Steerable, CanDeliver,
       Startable, EmptyBox, CanReserve
  <2>8. ASSUME NEW m \in Messages, DeliverQueue(a, m) PROVE HarnessTypes'
    BY <2>8
    DEF HarnessTypes, TypeInv, HarnessPoints, Reasons, Outcomes, NoChange,
       None, DeliverQueue, capacityVars, Accepting, Steerable, QueueDelivery,
       CanDeliver, Goto, EmptyBox, CanReserve
  <2>9. CASE SteerAdmitted(a)
    BY <2>9
    DEF HarnessTypes, TypeInv, HarnessPoints, Reasons, Outcomes, NoChange,
       None, SteerAdmitted, capacityVars, Goto
  <2>10. CASE SteerRefused(a)
    BY <2>10
    DEF HarnessTypes, TypeInv, HarnessPoints, Reasons, Outcomes, NoChange,
       None, SteerRefused, capacityVars, RollbackDelegation, QueueDelivery,
       Goto
  <2>11. CASE SteerFailed(a)
    BY <2>11
    DEF HarnessTypes, TypeInv, HarnessPoints, Reasons, Outcomes, NoChange,
       None, SteerFailed, capacityVars, Goto, RollbackDelegation
  <2>12. CASE CapacityChanged(a)
    BY <2>12
    DEF HarnessTypes, TypeInv, HarnessPoints, Reasons, Outcomes, NoChange,
       None, CapacityChanged, stepVars, EmptyBox, Goto, NoCommand
  <2>13. CASE StartPending(a)
    <3>1. NextOf(queued[a]) \in Messages
      BY <2>13, QueueTake DEF TypeInv, StartPending
    <3>2. undo' \in [Agents -> {None, NoChange} \cup Messages]
      BY <2>13, <3>1 DEF HarnessTypes, SessionTypes, TypeInv, StartPending, BeginDelegation, NoChange
    <3> QED
      BY <2>13, <3>1, <3>2
      DEF HarnessTypes, TypeInv, HarnessPoints, Reasons, StartPending, Prompting,
          Goto, Acquire
  <2>14. CASE StopPending(a)
    BY <2>14
    DEF HarnessTypes, TypeInv, HarnessPoints, Reasons, Outcomes, NoChange,
       None, StopPending, capacityVars, stepVars, EmptyBox, CanReserve, Goto
  <2>15. CASE TurnFinished(a)
    BY <2>15
    DEF HarnessTypes, TypeInv, HarnessPoints, Reasons, Outcomes, NoChange,
       None, TurnFinished, stepVars, EmptyBox, DropCapacity, Goto, NoCommand,
       TurnOver
  <2>16. CASE Publish(a)
    BY <2>16
    DEF HarnessTypes, TypeInv, HarnessPoints, Reasons, Outcomes, NoChange,
       None, Publish, capacityVars, stepVars, Goto
  <2>17. CASE TakeStop(a)
    BY <2>17, CommandTake
    DEF HarnessTypes, TypeInv, HarnessPoints, Reasons, Outcomes, NoChange,
       None, TakeStop, capacityVars, Goto, IsCommand
  <2>18. CASE UrgentRejected(a)
    BY <2>18
    DEF HarnessTypes, TypeInv, HarnessPoints, Reasons, Outcomes, NoChange,
       None, UrgentRejected, capacityVars, stepVars, Goto
  <2>19. CASE AllRejected(a)
    BY <2>19
    DEF HarnessTypes, TypeInv, HarnessPoints, Reasons, Outcomes, NoChange,
       None, AllRejected, capacityVars, Goto
  <2>20. CASE Shutdown(a)
    BY <2>20
    DEF HarnessTypes, TypeInv, HarnessPoints, Reasons, Outcomes, NoChange,
       None, Shutdown, capacityVars, stepVars, Goto
  <2>21. CASE FinishActive(a)
    BY <2>21
    DEF HarnessTypes, TypeInv, HarnessPoints, Reasons, Outcomes, NoChange,
       None, FinishActive, capacityVars, stepVars, Goto, TurnOver
  <2>22. CASE Release(a)
    BY <2>22
    DEF HarnessTypes, TypeInv, HarnessPoints, Reasons, Outcomes, NoChange,
       None, Release, DropCapacity, Goto
  <2>23. CASE HarnessClosed(a)
    BY <2>23
    DEF HarnessTypes, TypeInv, HarnessPoints, Reasons, Outcomes, NoChange,
       None, HarnessClosed, CleanUp, EmptyBox, DropCapacity
  <2>24. ASSUME RejectWaiting(a)
       PROVE  HarnessTypes'
    <3>1. UNCHANGED <<limit, dirty, hpc, why, job, undo, asker, turn, holds>>
      BY <2>24
      DEF RejectWaiting, capacityVars, harnessVars, stepVars
    <3> QED BY <3>1  DEF HarnessTypes, TypeInv, HarnessPoints, Reasons, Outcomes, NoChange,
         None
  <2> QED BY <1>1, <2>1, <2>2, <2>3, <2>4, <2>5, <2>6, <2>7, <2>8, <2>9,
   <2>10, <2>11, <2>12, <2>13, <2>14, <2>15, <2>16, <2>17, <2>18, <2>19,
   <2>20, <2>21, <2>22, <2>23, <2>24 DEF HarnessStep
<1>2. ASSUME NEW a \in Agents, LibraryStep(a) PROVE HarnessTypes'
  <2>1. ASSUME NEW result \in Outcomes, TurnEnds(a, result) PROVE HarnessTypes'
    BY <2>1
    DEF HarnessTypes, TypeInv, HarnessPoints, Reasons, Outcomes, NoChange,
       None, TurnEnds, capacityVars, stepVars
  <2>2. ASSUME EventsEnd(a) \/ EventsDone(a)
       PROVE  HarnessTypes'
    <3>1. UNCHANGED <<limit, dirty, hpc, why, job, undo, asker, turn, holds>>
      BY <2>2
      DEF EventsEnd, capacityVars, harnessVars, stepVars, EventsDone
    <3> QED BY <3>1  DEF HarnessTypes, TypeInv, HarnessPoints, Reasons, Outcomes, NoChange,
         None
  <2> QED BY <1>2, <2>1, <2>2 DEF LibraryStep
<1>3. ASSUME NEW c \in Calls, CallStep(c) \/ CallDropped(c) PROVE HarnessTypes'
  <2>1. CASE SpawnReserveId(c)
    BY <2>1
    DEF HarnessTypes, TypeInv, HarnessPoints, Reasons, Outcomes, NoChange,
       None, SpawnReserveId, capacityVars, harnessVars, DropCapacity,
       ParentStopped, stepVars, Stopped, Root
  <2>2. CASE SpawnFails(c)
    BY <2>2
    DEF HarnessTypes, TypeInv, HarnessPoints, Reasons, Outcomes, NoChange,
       None, SpawnFails, harnessVars, DropCapacity, InsertRefused, stepVars,
       ParentStopped, Stopped, Root
  <2>3. ASSUME NEW a \in Agents, SpawnInsert(c, a) PROVE HarnessTypes'
    BY <2>3
    DEF HarnessTypes, TypeInv, HarnessPoints, Reasons, Outcomes, NoChange,
       None, SpawnInsert, stepVars, Goto, InsertRefused, ParentStopped,
       Stopped, Root
  <2>4. ASSUME NEW a \in Agents, SpawnLaunch(c, a) PROVE HarnessTypes'
    BY <2>4
    DEF HarnessTypes, TypeInv, HarnessPoints, Reasons, Outcomes, NoChange,
       None, SpawnLaunch, capacityVars, harnessVars, DropCapacity, stepVars
  <2>5. CASE FinishLate(c)
    BY <2>5
    DEF HarnessTypes, TypeInv, HarnessPoints, Reasons, Outcomes, NoChange,
       None, FinishLate, CleanUp, AllInactive, Unfinished, EmptyBox,
       DropCapacity
  <2>6. CASE CallDropped(c)
    BY <2>6
    DEF HarnessTypes, TypeInv, HarnessPoints, Reasons, Outcomes, NoChange,
       None, CallDropped, Root, capacityVars, harnessVars, DropCapacity,
       Holding, stepVars
  <2>7. ASSUME SpawnReturns(c) \/ StopSend(c) \/ InterruptReturns(c) \/
              CloseInactive(c) \/ FinishClose(c) \/ CloseReturns(c) \/ SendCommit(c)
              \/ SendReturns(c)
       PROVE  HarnessTypes'
    <3>1. UNCHANGED <<limit, dirty, hpc, why, job, undo, asker, turn, holds>>
      BY <2>7
      DEF SpawnReturns, OnlyCalls, capacityVars, harnessVars, stepVars,
         StopSend, InterruptReturns, CloseInactive, FinishClose, CloseReturns,
         SendCommit, SendReturns
    <3> QED BY <3>1  DEF HarnessTypes, TypeInv, HarnessPoints, Reasons, Outcomes, NoChange,
         None
  <2> QED BY <1>3, <2>1, <2>2, <2>3, <2>4, <2>5, <2>6, <2>7 DEF CallStep
<1>4. ASSUME NEW c \in Calls, NEW session \in Sessions, CallBegins(c, session) PROVE HarnessTypes'
  <2>1. ASSUME SpawnReserveTurn(c, session) \/ (\E operation \in Stops, target \in
              Sessions : StopRequest(c, session, operation, target)) \/ (\E a \in
              Agents, urgent \in BOOLEAN, delegate \in BOOLEAN : SendPrepare(c,
              session, a, urgent, delegate))
       PROVE  HarnessTypes'
    <3>1. UNCHANGED <<limit, dirty, hpc, why, job, undo, asker, turn, holds>>
      BY <2>1
      DEF SpawnReserveTurn, harnessVars, Acquire, stepVars, StopRequest,
         capacityVars, SendPrepare
    <3> QED BY <3>1  DEF HarnessTypes, TypeInv, HarnessPoints, Reasons, Outcomes, NoChange,
         None
  <2> QED BY <1>4, <2>1 DEF CallBegins
<1>5. ASSUME Disturbance PROVE HarnessTypes'
  <2>1. ASSUME NEW n \in Limits, SetLimit(n) PROVE HarnessTypes'
    BY <2>1
    DEF HarnessTypes, TypeInv, HarnessPoints, Reasons, Outcomes, NoChange,
       None, SetLimit, harnessVars, stepVars
  <2>2. ASSUME (\E c \in Calls : StopTimesOut(c)) \/ (\E c \in Calls :
              JoinTimesOut(c)) \/ (\E a \in Agents : Submit(a)) \/ (\E a \in Agents
              : DriverDies(a))
       PROVE  HarnessTypes'
    <3>1. UNCHANGED <<limit, dirty, hpc, why, job, undo, asker, turn, holds>>
      BY <2>2
      DEF StopTimesOut, OnlyCalls, capacityVars, harnessVars, stepVars,
         JoinTimesOut, Submit, DriverDies
    <3> QED BY <3>1  DEF HarnessTypes, TypeInv, HarnessPoints, Reasons, Outcomes, NoChange,
         None
  <2> QED BY <1>5, <2>1, <2>2 DEF Disturbance
<1> QED BY <1>1, <1>2, <1>3, <1>4, <1>5 DEF Next

LEMMA ChannelTypesKept ==
  ASSUME TypeInv, Next
  PROVE  ChannelTypes'
<1>1. ASSUME NEW a \in Agents, HarnessStep(a) PROVE ChannelTypes'
  <2>1. CASE TakeStart(a)
    BY <2>1, CommandTake
    DEF ChannelTypes, TypeInv, TakeStart, None, CanStartTurn, IsCommand,
       Startable
  <2>2. CASE TakeDelivery(a)
    BY <2>2, MailTake
    DEF ChannelTypes, TypeInv, TakeDelivery, EmptyBox, NoCommand
  <2>3. ASSUME NEW m \in Messages, DeliverQueue(a, m) PROVE ChannelTypes'
    BY <2>3, QueuePut
    DEF ChannelTypes, TypeInv, DeliverQueue, channelVars, Accepting,
       Steerable, QueueDelivery, CanDeliver, None, EmptyBox, CanReserve
  <2>4. CASE SteerRefused(a)
    BY ZenonT(40), <2>4, QueuePut
    DEF ChannelTypes, TypeInv, HarnessTypes, JobInv, SteerRefused,
       channelVars, QueueDelivery, None
  <2>5. CASE StartPending(a)
    BY <2>5, QueueTake
    DEF ChannelTypes, TypeInv, StartPending, channelVars, EmptyBox,
       CanReserve, CanStartTurn, Startable
  <2>6. CASE TakeStop(a)
    BY <2>6, CommandTake
    DEF ChannelTypes, TypeInv, TakeStop, IsCommand
  <2>7. CASE RejectWaiting(a)
    BY <2>7, HeadAndTail
    DEF ChannelTypes, TypeInv, Boxes, RejectWaiting, harnessVars, Rejecting
  <2>8. CASE AllRejected(a)
    BY <2>8, EmptyBoxIs
    DEF ChannelTypes, TypeInv, AllRejected, channelVars, FailPending, EmptyBox
  <2>9. CASE HarnessClosed(a)
    BY <2>9, EmptyBoxIs, EmptySeq
    DEF ChannelTypes, TypeInv, HarnessClosed, CleanUp, None, NoChange,
       EmptyBox
  <2>10. ASSUME PromptAccepted(a) \/ PromptFailed(a) \/ Abandoned(a) \/ (\E m \in
              Messages : Steer(a, m)) \/ (\E m \in Messages : DeliverStart(a, m)) \/
              SteerAdmitted(a) \/ SteerFailed(a) \/ CapacityChanged(a) \/
              StopPending(a) \/ TurnFinished(a) \/ Publish(a) \/ UrgentRejected(a)
              \/ Shutdown(a) \/ FinishActive(a) \/ Release(a)
       PROVE  ChannelTypes'
    <3>1. UNCHANGED <<queued, commands, mailbox>>
      BY <2>10
      DEF PromptAccepted, channelVars, PromptFailed, Abandoned, Steer,
         DeliverStart, SteerAdmitted, SteerFailed, CapacityChanged,
         StopPending, TurnFinished, Publish, UrgentRejected, Shutdown,
         FinishActive, Release
    <3> QED BY <3>1  DEF ChannelTypes, TypeInv
  <2> QED BY <1>1, <2>1, <2>2, <2>3, <2>4, <2>5, <2>6, <2>7, <2>8, <2>9, <2>10 DEF HarnessStep
<1>2. ASSUME NEW a \in Agents, LibraryStep(a) PROVE ChannelTypes'
  <2>1. CASE EventsEnd(a)
    BY ZenonT(40), <2>1, CommandPut
    DEF ChannelTypes, TypeInv, EventsEnd, Stopped, harnessVars
  <2>2. ASSUME (\E result \in Outcomes : TurnEnds(a, result)) \/ EventsDone(a)
       PROVE  ChannelTypes'
    <3>1. UNCHANGED <<queued, commands, mailbox>>
      BY <2>2
      DEF TurnEnds, channelVars, EventsDone, harnessVars
    <3> QED BY <3>1  DEF ChannelTypes, TypeInv
  <2> QED BY <1>2, <2>1, <2>2 DEF LibraryStep
<1>3. ASSUME NEW c \in Calls, CallStep(c) \/ CallDropped(c) PROVE ChannelTypes'
  <2>1. ASSUME NEW a \in Agents, SpawnLaunch(c, a) PROVE ChannelTypes'
    <3>1. Append(commands[a], [kind |-> "start", from |-> c]) \in Seq(Command)
      BY CommandPut DEF TypeInv
    <3> QED
      BY <2>1, <3>1 DEF ChannelTypes, TypeInv, SpawnLaunch, harnessVars
  <2>2. CASE StopSend(c)
    BY <2>2, CommandPut
    DEF ChannelTypes, TypeInv, StopSend, harnessVars
  <2>3. CASE FinishLate(c)
    BY <2>3, EmptyBoxIs, EmptySeq
    DEF ChannelTypes, TypeInv, FinishLate, CleanUp, AllInactive, Unfinished,
       None, NoChange, EmptyBox
  <2>4. ASSUME SpawnReserveId(c) \/ SpawnFails(c) \/ SpawnReturns(c) \/ (\E a \in
              Agents : SpawnInsert(c, a)) \/ InterruptReturns(c) \/ CloseInactive(c)
              \/ FinishClose(c) \/ CloseReturns(c) \/ SendCommit(c) \/
              SendReturns(c) \/ CallDropped(c)
       PROVE  ChannelTypes'
    <3>1. UNCHANGED <<queued, commands, mailbox>>
      BY <2>4
      DEF SpawnReserveId, harnessVars, channelVars, SpawnFails, SpawnReturns,
         OnlyCalls, SpawnInsert, InterruptReturns, CloseInactive, FinishClose,
         CloseReturns, SendCommit, SendReturns, CallDropped
    <3> QED BY <3>1  DEF ChannelTypes, TypeInv
  <2> QED BY <1>3, <2>1, <2>2, <2>3, <2>4 DEF CallStep
<1>4. ASSUME NEW c \in Calls, NEW session \in Sessions, CallBegins(c, session) PROVE ChannelTypes'
  <2>1. ASSUME NEW a \in Agents, NEW urgent \in BOOLEAN, NEW delegate \in BOOLEAN, SendPrepare(c, session, a, urgent, delegate) PROVE ChannelTypes'
    BY <2>1, BoxPut, DrawsMessage
    DEF ChannelTypes, TypeInv, SendPrepare, harnessVars, Begins, MayReceive,
       MayCall, Stopped, Root
  <2>2. ASSUME SpawnReserveTurn(c, session) \/ (\E operation \in Stops, target \in
              Sessions : StopRequest(c, session, operation, target))
       PROVE  ChannelTypes'
    <3>1. UNCHANGED <<queued, commands, mailbox>>
      BY <2>2
      DEF SpawnReserveTurn, harnessVars, channelVars, StopRequest
    <3> QED BY <3>1  DEF ChannelTypes, TypeInv
  <2> QED BY <1>4, <2>1, <2>2 DEF CallBegins
<1>5. ASSUME Disturbance PROVE ChannelTypes'
  <2>1. ASSUME (\E c \in Calls : StopTimesOut(c)) \/ (\E c \in Calls :
              JoinTimesOut(c)) \/ (\E a \in Agents : Submit(a)) \/ (\E a \in Agents
              : DriverDies(a)) \/ (\E n \in Limits : SetLimit(n))
       PROVE  ChannelTypes'
    <3>1. UNCHANGED <<queued, commands, mailbox>>
      BY <2>1
      DEF StopTimesOut, OnlyCalls, channelVars, harnessVars, JoinTimesOut,
         Submit, DriverDies, SetLimit
    <3> QED BY <3>1  DEF ChannelTypes, TypeInv
  <2> QED BY <1>5, <2>1 DEF Disturbance
<1> QED BY <1>1, <1>2, <1>3, <1>4, <1>5 DEF Next

LEMMA MessageTypesKept ==
  ASSUME TypeInv, Next
  PROVE  MessageTypes'
<1>1. ASSUME NEW a \in Agents, HarnessStep(a) PROVE MessageTypes'
  <2>1. CASE PromptAccepted(a)
    BY <2>1
    DEF MessageTypes, TypeInv, JobInv, PromptAccepted, None, NoChange, Settle,
       Admit, Give
  <2>2. CASE PromptFailed(a)
    BY <2>2
    DEF MessageTypes, TypeInv, PromptFailed, None, Settle, Refuse, RollBack
  <2>3. ASSUME NEW m \in Messages, DeliverStart(a, m) PROVE MessageTypes'
    BY <2>3
    DEF MessageTypes, TypeInv, DeliverStart, None, CanStartTurn, Refuse,
       Accepting, Steerable, CanDeliver, Startable, RollBack, EmptyBox,
       CanReserve
  <2>4. ASSUME NEW m \in Messages, DeliverQueue(a, m) PROVE MessageTypes'
    BY <2>4
    DEF MessageTypes, TypeInv, DeliverQueue, Accepting, Steerable,
       QueueDelivery, CanDeliver, None, Admit, Refuse, EmptyBox, CanReserve,
       RollBack
  <2>5. CASE SteerAdmitted(a)
    BY <2>5
    DEF MessageTypes, TypeInv, JobInv, SteerAdmitted, None, NoChange, Settle,
       Admit, Give
  <2>6. CASE SteerRefused(a)
    BY <2>6
    DEF MessageTypes, TypeInv, SteerRefused, QueueDelivery, None, Admit,
       Refuse, RollBack
  <2>7. CASE SteerFailed(a)
    BY <2>7
    DEF MessageTypes, TypeInv, SteerFailed, None, Refuse, RollBack
  <2>8. CASE StartPending(a)
    BY <2>8
    DEF MessageTypes, TypeInv, StartPending, EmptyBox, CanReserve,
       CanStartTurn, Settle, Startable
  <2>9. CASE RejectWaiting(a)
    BY <2>9
    DEF MessageTypes, TypeInv, RejectWaiting, Refuse, Rejecting, RollBack
  <2>10. CASE AllRejected(a)
    BY <2>10
    DEF MessageTypes, TypeInv, AllRejected, FailPending, EmptyBox
  <2>11. CASE HarnessClosed(a)
    BY <2>11
    DEF MessageTypes, TypeInv, HarnessClosed, CleanUp, None, NoChange,
       EmptyBox
  <2>12. ASSUME TakeStart(a) \/ TakeDelivery(a) \/ Abandoned(a) \/ (\E m \in Messages
              : Steer(a, m)) \/ CapacityChanged(a) \/ StopPending(a) \/
              TurnFinished(a) \/ Publish(a) \/ TakeStop(a) \/ UrgentRejected(a) \/
              Shutdown(a) \/ FinishActive(a) \/ Release(a)
       PROVE  MessageTypes'
    <3>1. UNCHANGED <<message, commit, answer, record, given>>
      BY <2>12
      DEF TakeStart, messageVars, TakeDelivery, Abandoned, Steer,
         CapacityChanged, StopPending, TurnFinished, Publish, TakeStop,
         UrgentRejected, Shutdown, FinishActive, Release
    <3> QED BY <3>1  DEF MessageTypes, TypeInv
  <2> QED BY <1>1, <2>1, <2>2, <2>3, <2>4, <2>5, <2>6, <2>7, <2>8, <2>9,
   <2>10, <2>11, <2>12 DEF HarnessStep
<1>2. ASSUME NEW a \in Agents, LibraryStep(a) PROVE MessageTypes'
  <2>1. ASSUME (\E result \in Outcomes : TurnEnds(a, result)) \/ EventsEnd(a) \/
              EventsDone(a)
       PROVE  MessageTypes'
    <3>1. UNCHANGED <<message, commit, answer, record, given>>
      BY <2>1
      DEF TurnEnds, messageVars, EventsEnd, EventsDone
    <3> QED BY <3>1  DEF MessageTypes, TypeInv
  <2> QED BY <1>2, <2>1 DEF LibraryStep
<1>3. ASSUME NEW c \in Calls, CallStep(c) \/ CallDropped(c) PROVE MessageTypes'
  <2>1. CASE FinishLate(c)
    BY <2>1
    DEF MessageTypes, TypeInv, FinishLate, CleanUp, AllInactive, Unfinished,
       None, NoChange, EmptyBox
  <2>2. CASE SendCommit(c)
    BY <2>2
    DEF MessageTypes, TypeInv, SendCommit
  <2>3. CASE SendReturns(c)
    BY <2>3
    DEF MessageTypes, TypeInv, SendReturns, RollBack, Delivered
  <2>4. CASE CallDropped(c)
    BY <2>4
    DEF MessageTypes, TypeInv, CallDropped, Root, Holding
  <2>5. ASSUME SpawnReserveId(c) \/ SpawnFails(c) \/ SpawnReturns(c) \/ (\E a \in
              Agents : SpawnInsert(c, a)) \/ (\E a \in Agents : SpawnLaunch(c, a))
              \/ StopSend(c) \/ InterruptReturns(c) \/ CloseInactive(c) \/
              FinishClose(c) \/ CloseReturns(c)
       PROVE  MessageTypes'
    <3>1. UNCHANGED <<message, commit, answer, record, given>>
      BY <2>5
      DEF SpawnReserveId, messageVars, SpawnFails, SpawnReturns, OnlyCalls,
         SpawnInsert, SpawnLaunch, StopSend, InterruptReturns, CloseInactive,
         FinishClose, CloseReturns
    <3> QED BY <3>1  DEF MessageTypes, TypeInv
  <2> QED BY <1>3, <2>1, <2>2, <2>3, <2>4, <2>5 DEF CallStep
<1>4. ASSUME NEW c \in Calls, NEW session \in Sessions, CallBegins(c, session) PROVE MessageTypes'
  <2>1. ASSUME NEW a \in Agents, NEW urgent \in BOOLEAN, NEW delegate \in BOOLEAN, SendPrepare(c, session, a, urgent, delegate) PROVE MessageTypes'
    BY <2>1, DrawsMessage
    DEF MessageTypes, TypeInv, Envelope, Born, SendPrepare, Begins,
       MayReceive, MayCall, Stopped, Root
  <2>2. ASSUME SpawnReserveTurn(c, session) \/ (\E operation \in Stops, target \in
              Sessions : StopRequest(c, session, operation, target))
       PROVE  MessageTypes'
    <3>1. UNCHANGED <<message, commit, answer, record, given>>
      BY <2>2
      DEF SpawnReserveTurn, messageVars, StopRequest
    <3> QED BY <3>1  DEF MessageTypes, TypeInv
  <2> QED BY <1>4, <2>1, <2>2 DEF CallBegins
<1>5. ASSUME Disturbance PROVE MessageTypes'
  <2>1. ASSUME (\E c \in Calls : StopTimesOut(c)) \/ (\E c \in Calls :
              JoinTimesOut(c)) \/ (\E a \in Agents : Submit(a)) \/ (\E a \in Agents
              : DriverDies(a)) \/ (\E n \in Limits : SetLimit(n))
       PROVE  MessageTypes'
    <3>1. UNCHANGED <<message, commit, answer, record, given>>
      BY <2>1
      DEF StopTimesOut, OnlyCalls, messageVars, JoinTimesOut, Submit,
         DriverDies, SetLimit
    <3> QED BY <3>1  DEF MessageTypes, TypeInv
  <2> QED BY <1>5, <2>1 DEF Disturbance
<1> QED BY <1>1, <1>2, <1>3, <1>4, <1>5 DEF Next

LEMMA CallTypesKept ==
  ASSUME TypeInv, Next
  PROVE  CallTypes'
<1>1. ASSUME NEW a \in Agents, HarnessStep(a) PROVE CallTypes'
  <2>1. CASE TakeStart(a)
    BY <2>1
    DEF CallTypes, TypeInv, CallPoints, TakeStart, None, historyVars,
       CanStartTurn, Reply, IsCommand, Startable
  <2>2. CASE PromptAccepted(a)
    BY <2>2
    DEF CallTypes, TypeInv, CallPoints, PromptAccepted, None, historyVars,
       NoChange, Reply
  <2>3. CASE PromptFailed(a)
    BY <2>3
    DEF CallTypes, TypeInv, CallPoints, PromptFailed, None, historyVars, Reply
  <2>4. CASE AllRejected(a)
    BY <2>4
    DEF CallTypes, TypeInv, CallPoints, AllRejected, historyVars, Reply
  <2>5. CASE Release(a)
    BY <2>5
    DEF CallTypes, TypeInv, CallPoints, Release, historyVars, Reply
  <2>6. CASE HarnessClosed(a)
    BY <2>6
    DEF CallTypes, TypeInv, CallPoints, HarnessClosed, historyVars, CleanUp,
       None, NoChange, EmptyBox
  <2>7. ASSUME TakeDelivery(a) \/ Abandoned(a) \/ (\E m \in Messages : Steer(a, m))
              \/ (\E m \in Messages : DeliverStart(a, m)) \/ (\E m \in Messages :
              DeliverQueue(a, m)) \/ SteerAdmitted(a) \/ SteerRefused(a) \/
              SteerFailed(a) \/ CapacityChanged(a) \/ StartPending(a) \/
              StopPending(a) \/ TurnFinished(a) \/ Publish(a) \/ TakeStop(a) \/
              RejectWaiting(a) \/ UrgentRejected(a) \/ Shutdown(a) \/
              FinishActive(a)
       PROVE  CallTypes'
    <3>1. UNCHANGED <<cpc, by, ids, waits, sent, lock, covered, shut>>
      BY <2>7
      DEF TakeDelivery, callVars, historyVars, Abandoned, Steer, DeliverStart,
         DeliverQueue, SteerAdmitted, SteerRefused, SteerFailed,
         CapacityChanged, StartPending, StopPending, TurnFinished, Publish,
         TakeStop, RejectWaiting, UrgentRejected, Shutdown, FinishActive
    <3> QED BY <3>1  DEF CallTypes, TypeInv, CallPoints
  <2> QED BY <1>1, <2>1, <2>2, <2>3, <2>4, <2>5, <2>6, <2>7 DEF HarnessStep
<1>2. ASSUME NEW a \in Agents, LibraryStep(a) PROVE CallTypes'
  <2>1. ASSUME (\E result \in Outcomes : TurnEnds(a, result)) \/ EventsEnd(a) \/
              EventsDone(a)
       PROVE  CallTypes'
    <3>1. UNCHANGED <<cpc, by, ids, waits, sent, lock, covered, shut>>
      BY <2>1
      DEF TurnEnds, callVars, historyVars, EventsEnd, EventsDone
    <3> QED BY <3>1  DEF CallTypes, TypeInv, CallPoints
  <2> QED BY <1>2, <2>1 DEF LibraryStep
<1>3. ASSUME NEW c \in Calls, CallStep(c) \/ CallDropped(c) PROVE CallTypes'
  <2>1. CASE SpawnReserveId(c)
    <3>1. nextId < MaxAgents => {nextId + 1} \in SUBSET Agents
      BY SubagentAssumption DEF TypeInv, SessionTypes, Agents
    <3> QED
      BY <2>1, <3>1 DEF CallTypes, TypeInv, CallPoints, SpawnReserveId, historyVars, CallAt
  <2>2. CASE SpawnFails(c)
    BY <2>2
    DEF CallTypes, TypeInv, CallPoints, SpawnFails, historyVars, CallAt,
       InsertRefused, ParentStopped, Stopped, Root
  <2>3. CASE SpawnReturns(c)
    BY <2>3
    DEF CallTypes, TypeInv, CallPoints, SpawnReturns, CallAt, Answered,
       OnlyCalls, historyVars
  <2>4. ASSUME NEW a \in Agents, SpawnInsert(c, a) PROVE CallTypes'
    BY <2>4
    DEF CallTypes, TypeInv, CallPoints, SpawnInsert, historyVars, CallAt,
       InsertRefused, ParentStopped, Stopped, Root
  <2>5. ASSUME NEW a \in Agents, SpawnLaunch(c, a) PROVE CallTypes'
    BY <2>5
    DEF CallTypes, TypeInv, CallPoints, SpawnLaunch, historyVars, CallAt
  <2>6. CASE StopSend(c)
    BY <2>6
    DEF CallTypes, TypeInv, CallPoints, StopSend, historyVars, CallAt
  <2>7. CASE InterruptReturns(c)
    BY <2>7
    DEF CallTypes, TypeInv, CallPoints, InterruptReturns, Answered, OnlyCalls,
       AllInactive, Returns, historyVars, CallAt
  <2>8. CASE CloseInactive(c)
    BY <2>8
    DEF CallTypes, TypeInv, CallPoints, CloseInactive, CallAt, Answered,
       OnlyCalls, AllInactive, historyVars
  <2>9. CASE FinishClose(c)
    BY <2>9
    DEF CallTypes, TypeInv, CallPoints, SessionTypes, FinishClose,
       historyVars, CallAt, AllInactive, Returns
  <2>10. CASE CloseReturns(c)
    BY <2>10
    DEF CallTypes, TypeInv, CallPoints, CloseReturns, Returns, CallAt
  <2>11. CASE FinishLate(c)
    BY <2>11
    DEF CallTypes, TypeInv, CallPoints, FinishLate, CleanUp, AllInactive,
       Returns, Unfinished, None, NoChange, EmptyBox, CallAt
  <2>12. CASE SendCommit(c)
    BY <2>12
    DEF CallTypes, TypeInv, CallPoints, SendCommit, historyVars, CallAt
  <2>13. CASE SendReturns(c)
    BY <2>13
    DEF CallTypes, TypeInv, CallPoints, SendReturns, historyVars, Returns,
       Delivered, CallAt
  <2>14. CASE CallDropped(c)
    BY <2>14
    DEF CallTypes, TypeInv, CallPoints, CallDropped, Root, historyVars,
       CallAt, Holding
  <2> QED BY <1>3, <2>1, <2>2, <2>3, <2>4, <2>5, <2>6, <2>7, <2>8, <2>9,
   <2>10, <2>11, <2>12, <2>13, <2>14 DEF CallStep
<1>4. ASSUME NEW c \in Calls, NEW session \in Sessions, CallBegins(c, session) PROVE CallTypes'
  <2>1. CASE SpawnReserveTurn(c, session)
    BY <2>1
    DEF CallTypes, TypeInv, CallPoints, Sessions, SpawnReserveTurn,
       historyVars, CanReserve, CallAt, Begins, MayCall, Root
  <2>2. ASSUME NEW operation \in Stops, NEW target \in Sessions, StopRequest(c, session, operation, target) PROVE CallTypes'
    <3>1. session \in {Root} \cup Agents /\ Subtree(target) \subseteq Agents /\ Born \subseteq Agents
      BY SubtreeIsBorn DEF Sessions, Born
    <3>2. ids' \in [Calls -> SUBSET Agents]
      BY <2>2, <3>1 DEF TypeInv, CallTypes, StopRequest
    <3>3. waits' \in [Calls -> SUBSET Agents]
      BY <2>2, <3>2 DEF TypeInv, CallTypes, SessionTypes, StopRequest
    <3>4. by' \in [Calls -> {Root} \cup Agents]
      BY <2>2, <3>1 DEF TypeInv, CallTypes, StopRequest, Begins
    <3>5. cpc' \in [Calls -> CallPoints]
      BY <2>2 DEF TypeInv, CallTypes, CallPoints, StopRequest, CallAt
    <3>6. covered' \subseteq Agents
      BY <2>2, <3>2 DEF TypeInv, CallTypes, StopRequest
    <3> QED
      BY <2>2, <3>2, <3>3, <3>4, <3>5, <3>6 DEF TypeInv, CallTypes, StopRequest
  <2>3. ASSUME NEW a \in Agents, NEW urgent \in BOOLEAN, NEW delegate \in BOOLEAN, SendPrepare(c, session, a, urgent, delegate) PROVE CallTypes'
    <3>1. session \in {Root} \cup Agents /\ NextMessage \in Messages
      BY <2>3, DrawsMessage DEF Sessions, SendPrepare, TypeInv
    <3>2. by' \in [Calls -> {Root} \cup Agents]
      BY <2>3, <3>1 DEF TypeInv, CallTypes, SendPrepare, Begins
    <3>3. sent' \in [Calls -> {None} \cup Messages] /\ lock' \in Calls \cup {Nobody}
      BY <2>3, <3>1 DEF TypeInv, CallTypes, SendPrepare
    <3>4. cpc' \in [Calls -> CallPoints]
      BY <2>3 DEF TypeInv, CallTypes, CallPoints, SendPrepare, CallAt
    <3> QED
      BY <2>3, <3>2, <3>3, <3>4 DEF TypeInv, CallTypes, SendPrepare, historyVars
  <2> QED BY <1>4, <2>1, <2>2, <2>3 DEF CallBegins
<1>5. ASSUME Disturbance PROVE CallTypes'
  <2>1. ASSUME NEW c \in Calls, StopTimesOut(c) PROVE CallTypes'
    BY <2>1
    DEF CallTypes, TypeInv, CallPoints, StopTimesOut, CallAt, OnlyCalls,
       AllInactive, Returns, historyVars
  <2>2. ASSUME NEW c \in Calls, JoinTimesOut(c) PROVE CallTypes'
    BY <2>2
    DEF CallTypes, TypeInv, CallPoints, JoinTimesOut, historyVars, Returns,
       CallAt
  <2>3. ASSUME (\E a \in Agents : Submit(a)) \/ (\E a \in Agents : DriverDies(a)) \/
              (\E n \in Limits : SetLimit(n))
       PROVE  CallTypes'
    <3>1. UNCHANGED <<cpc, by, ids, waits, sent, lock, covered, shut>>
      BY <2>3
      DEF Submit, callVars, historyVars, DriverDies, SetLimit
    <3> QED BY <3>1  DEF CallTypes, TypeInv, CallPoints
  <2> QED BY <1>5, <2>1, <2>2, <2>3 DEF Disturbance
<1> QED BY <1>1, <1>2, <1>3, <1>4, <1>5 DEF Next

LEMMA JobInvKept ==
  ASSUME TypeInv, Next
  PROVE  JobInv'
<1>1. ASSUME NEW a \in Agents, HarnessStep(a) PROVE JobInv'
  <2>1. CASE TakeStart(a)
    BY <2>1
    DEF JobInv, TypeInv, HarnessTypes, TakeStart, None, CanStartTurn,
       Prompting, IsCommand, Startable, Goto
  <2>2. CASE PromptAccepted(a)
    BY <2>2
    DEF JobInv, TypeInv, HarnessTypes, PromptAccepted, None, NoChange, Goto
  <2>3. CASE PromptFailed(a)
    BY <2>3
    DEF JobInv, TypeInv, HarnessTypes, PromptFailed, None, Goto
  <2>4. CASE TakeDelivery(a)
    BY <2>4, MailTake
    DEF JobInv, TypeInv, HarnessTypes, TakeDelivery, EmptyBox, Goto, NoCommand
  <2>5. CASE Abandoned(a)
    BY <2>5
    DEF JobInv, TypeInv, HarnessTypes, Abandoned, None, Goto
  <2>6. ASSUME NEW m \in Messages, Steer(a, m) PROVE JobInv'
    BY <2>6
    DEF JobInv, TypeInv, HarnessTypes, Steer, Goto, Accepting, Steerable
  <2>7. ASSUME NEW m \in Messages, DeliverStart(a, m) PROVE JobInv'
    BY <2>7
    DEF JobInv, TypeInv, HarnessTypes, DeliverStart, None, CanStartTurn, Goto,
       Prompting, Accepting, Steerable, CanDeliver, Startable, EmptyBox,
       CanReserve
  <2>8. ASSUME NEW m \in Messages, DeliverQueue(a, m) PROVE JobInv'
    BY <2>8
    DEF JobInv, TypeInv, HarnessTypes, DeliverQueue, Accepting, Steerable,
       QueueDelivery, CanDeliver, None, Goto, EmptyBox, CanReserve
  <2>9. CASE SteerAdmitted(a)
    BY <2>9
    DEF JobInv, TypeInv, HarnessTypes, SteerAdmitted, None, NoChange, Goto
  <2>10. CASE SteerRefused(a)
    BY <2>10
    DEF JobInv, TypeInv, HarnessTypes, SteerRefused, QueueDelivery, None, Goto
  <2>11. CASE SteerFailed(a)
    BY <2>11
    DEF JobInv, TypeInv, HarnessTypes, SteerFailed, None, Goto
  <2>12. CASE CapacityChanged(a)
    BY <2>12
    DEF JobInv, TypeInv, HarnessTypes, CapacityChanged, stepVars, EmptyBox,
       Goto, NoCommand
  <2>13. CASE StartPending(a)
    BY <2>13, QueueTake
    DEF JobInv, TypeInv, HarnessTypes, StartPending, EmptyBox, CanReserve,
       CanStartTurn, Prompting, Startable, Goto
  <2>14. CASE StopPending(a)
    BY <2>14
    DEF JobInv, TypeInv, HarnessTypes, StopPending, stepVars, EmptyBox,
       CanReserve, Goto
  <2>15. CASE TurnFinished(a)
    BY <2>15
    DEF JobInv, TypeInv, HarnessTypes, TurnFinished, stepVars, EmptyBox, Goto,
       NoCommand, TurnOver
  <2>16. CASE Publish(a)
    BY <2>16
    DEF JobInv, TypeInv, HarnessTypes, Publish, stepVars, Goto
  <2>17. CASE TakeStop(a)
    BY <2>17
    DEF JobInv, TypeInv, HarnessTypes, TakeStop, Goto, IsCommand
  <2>18. CASE UrgentRejected(a)
    BY <2>18
    DEF JobInv, TypeInv, HarnessTypes, UrgentRejected, stepVars, Goto
  <2>19. CASE AllRejected(a)
    BY <2>19
    DEF JobInv, TypeInv, HarnessTypes, AllRejected, Goto
  <2>20. CASE Shutdown(a)
    BY <2>20
    DEF JobInv, TypeInv, HarnessTypes, Shutdown, stepVars, Goto
  <2>21. CASE FinishActive(a)
    BY <2>21
    DEF JobInv, TypeInv, HarnessTypes, FinishActive, stepVars, Goto, TurnOver
  <2>22. CASE Release(a)
    BY <2>22
    DEF JobInv, TypeInv, HarnessTypes, Release, Goto
  <2>23. CASE HarnessClosed(a)
    BY <2>23
    DEF JobInv, TypeInv, HarnessTypes, HarnessClosed, CleanUp, None, NoChange,
       EmptyBox
  <2>24. ASSUME RejectWaiting(a)
       PROVE  JobInv'
    <3>1. UNCHANGED <<hpc, why, job>>
      BY <2>24
      DEF RejectWaiting, harnessVars, stepVars
    <3> QED BY <3>1  DEF JobInv, TypeInv, HarnessTypes
  <2> QED BY <1>1, <2>1, <2>2, <2>3, <2>4, <2>5, <2>6, <2>7, <2>8, <2>9,
   <2>10, <2>11, <2>12, <2>13, <2>14, <2>15, <2>16, <2>17, <2>18, <2>19,
   <2>20, <2>21, <2>22, <2>23, <2>24 DEF HarnessStep
<1>2. ASSUME NEW a \in Agents, LibraryStep(a) PROVE JobInv'
  <2>1. ASSUME (\E result \in Outcomes : TurnEnds(a, result)) \/ EventsEnd(a) \/
              EventsDone(a)
       PROVE  JobInv'
    <3>1. UNCHANGED <<hpc, why, job>>
      BY <2>1
      DEF TurnEnds, stepVars, EventsEnd, harnessVars, EventsDone
    <3> QED BY <3>1  DEF JobInv, TypeInv, HarnessTypes
  <2> QED BY <1>2, <2>1 DEF LibraryStep
<1>3. ASSUME NEW c \in Calls, CallStep(c) \/ CallDropped(c) PROVE JobInv'
  <2>1. ASSUME NEW a \in Agents, SpawnInsert(c, a) PROVE JobInv'
    BY <2>1
    DEF JobInv, TypeInv, HarnessTypes, SpawnInsert, stepVars, Goto,
       InsertRefused, ParentStopped, Stopped, Root
  <2>2. CASE FinishLate(c)
    BY <2>2
    DEF JobInv, TypeInv, HarnessTypes, FinishLate, CleanUp, AllInactive,
       Unfinished, None, NoChange, EmptyBox
  <2>3. ASSUME SpawnReserveId(c) \/ SpawnFails(c) \/ SpawnReturns(c) \/ (\E a \in
              Agents : SpawnLaunch(c, a)) \/ StopSend(c) \/ InterruptReturns(c) \/
              CloseInactive(c) \/ FinishClose(c) \/ CloseReturns(c) \/ SendCommit(c)
              \/ SendReturns(c) \/ CallDropped(c)
       PROVE  JobInv'
    <3>1. UNCHANGED <<hpc, why, job>>
      BY <2>3
      DEF SpawnReserveId, harnessVars, stepVars, SpawnFails, SpawnReturns,
         OnlyCalls, SpawnLaunch, StopSend, InterruptReturns, CloseInactive,
         FinishClose, CloseReturns, SendCommit, SendReturns, CallDropped
    <3> QED BY <3>1  DEF JobInv, TypeInv, HarnessTypes
  <2> QED BY <1>3, <2>1, <2>2, <2>3 DEF CallStep
<1>4. ASSUME NEW c \in Calls, NEW session \in Sessions, CallBegins(c, session) PROVE JobInv'
  <2>1. ASSUME SpawnReserveTurn(c, session) \/ (\E operation \in Stops, target \in
              Sessions : StopRequest(c, session, operation, target)) \/ (\E a \in
              Agents, urgent \in BOOLEAN, delegate \in BOOLEAN : SendPrepare(c,
              session, a, urgent, delegate))
       PROVE  JobInv'
    <3>1. UNCHANGED <<hpc, why, job>>
      BY <2>1
      DEF SpawnReserveTurn, harnessVars, stepVars, StopRequest, SendPrepare
    <3> QED BY <3>1  DEF JobInv, TypeInv, HarnessTypes
  <2> QED BY <1>4, <2>1 DEF CallBegins
<1>5. ASSUME Disturbance PROVE JobInv'
  <2>1. ASSUME (\E c \in Calls : StopTimesOut(c)) \/ (\E c \in Calls :
              JoinTimesOut(c)) \/ (\E a \in Agents : Submit(a)) \/ (\E a \in Agents
              : DriverDies(a)) \/ (\E n \in Limits : SetLimit(n))
       PROVE  JobInv'
    <3>1. UNCHANGED <<hpc, why, job>>
      BY <2>1
      DEF StopTimesOut, OnlyCalls, harnessVars, stepVars, JoinTimesOut,
         Submit, DriverDies, SetLimit
    <3> QED BY <3>1  DEF JobInv, TypeInv, HarnessTypes
  <2> QED BY <1>5, <2>1 DEF Disturbance
<1> QED BY <1>1, <1>2, <1>3, <1>4, <1>5 DEF Next

LEMMA LockInvKept ==
  ASSUME TypeInv, Next
  PROVE  LockInv'
<1>1. ASSUME NEW a \in Agents, HarnessStep(a) PROVE LockInv'
  <2>1. ASSUME TakeStart(a) \/ PromptAccepted(a) \/ PromptFailed(a) \/
              TakeDelivery(a) \/ Abandoned(a) \/ (\E m \in Messages : Steer(a, m))
              \/ (\E m \in Messages : DeliverStart(a, m)) \/ (\E m \in Messages :
              DeliverQueue(a, m)) \/ SteerAdmitted(a) \/ SteerRefused(a) \/
              SteerFailed(a) \/ CapacityChanged(a) \/ StartPending(a) \/
              StopPending(a) \/ TurnFinished(a) \/ Publish(a) \/ TakeStop(a) \/
              RejectWaiting(a) \/ UrgentRejected(a) \/ AllRejected(a) \/ Shutdown(a)
              \/ FinishActive(a) \/ Release(a) \/ HarnessClosed(a)
       PROVE  LockInv'
    <3>1. UNCHANGED <<commit, cpc, sent, lock>>
      BY <2>1
      DEF TakeStart, messageVars, PromptAccepted, PromptFailed, TakeDelivery,
         callVars, Abandoned, Steer, DeliverStart, DeliverQueue,
         SteerAdmitted, SteerRefused, SteerFailed, CapacityChanged,
         StartPending, StopPending, TurnFinished, Publish, TakeStop,
         RejectWaiting, UrgentRejected, AllRejected, Shutdown, FinishActive,
         Release, HarnessClosed
    <3> QED BY <3>1  DEF LockInv, TypeInv, CallTypes, Locking
  <2> QED BY <1>1, <2>1 DEF HarnessStep
<1>2. ASSUME NEW a \in Agents, LibraryStep(a) PROVE LockInv'
  <2>1. ASSUME (\E result \in Outcomes : TurnEnds(a, result)) \/ EventsEnd(a) \/
              EventsDone(a)
       PROVE  LockInv'
    <3>1. UNCHANGED <<commit, cpc, sent, lock>>
      BY <2>1
      DEF TurnEnds, messageVars, callVars, EventsEnd, EventsDone
    <3> QED BY <3>1  DEF LockInv, TypeInv, CallTypes, Locking
  <2> QED BY <1>2, <2>1 DEF LibraryStep
<1>3. ASSUME NEW c \in Calls, CallStep(c) \/ CallDropped(c) PROVE LockInv'
  <2>1. CASE SpawnReserveId(c)
    BY <2>1
    DEF LockInv, TypeInv, CallTypes, Locking, SpawnReserveId, messageVars,
       CallAt, ParentStopped, Stopped, Root
  <2>2. CASE SpawnFails(c)
    BY <2>2
    DEF LockInv, TypeInv, CallTypes, Locking, SpawnFails, messageVars, CallAt,
       InsertRefused, ParentStopped, Stopped, Root
  <2>3. CASE SpawnReturns(c)
    BY <2>3
    DEF LockInv, TypeInv, CallTypes, Locking, SpawnReturns, CallAt, Answered,
       OnlyCalls, messageVars
  <2>4. ASSUME NEW a \in Agents, SpawnInsert(c, a) PROVE LockInv'
    BY <2>4
    DEF LockInv, TypeInv, CallTypes, Locking, SpawnInsert, messageVars,
       CallAt, InsertRefused, ParentStopped, Stopped, Root
  <2>5. ASSUME NEW a \in Agents, SpawnLaunch(c, a) PROVE LockInv'
    BY <2>5
    DEF LockInv, TypeInv, CallTypes, Locking, SpawnLaunch, messageVars, CallAt
  <2>6. CASE StopSend(c)
    BY <2>6
    DEF LockInv, TypeInv, CallTypes, Locking, StopSend, messageVars, CallAt
  <2>7. CASE InterruptReturns(c)
    BY <2>7
    DEF LockInv, TypeInv, CallTypes, Locking, InterruptReturns, Answered,
       OnlyCalls, AllInactive, Returns, messageVars, CallAt
  <2>8. CASE CloseInactive(c)
    BY <2>8
    DEF LockInv, TypeInv, CallTypes, Locking, CloseInactive, CallAt, Answered,
       OnlyCalls, AllInactive, messageVars
  <2>9. CASE FinishClose(c)
    BY <2>9
    DEF LockInv, TypeInv, CallTypes, Locking, FinishClose, messageVars,
       CallAt, AllInactive, Returns
  <2>10. CASE CloseReturns(c)
    BY <2>10
    DEF LockInv, TypeInv, CallTypes, Locking, CloseReturns, messageVars,
       Returns, CallAt
  <2>11. CASE FinishLate(c)
    BY <2>11
    DEF LockInv, TypeInv, CallTypes, Locking, FinishLate, AllInactive,
       Returns, Unfinished, CallAt
  <2>12. CASE SendCommit(c)
    BY <2>12
    DEF LockInv, TypeInv, CallTypes, Locking, MessageTypes, SendCommit, CallAt
  <2>13. CASE SendReturns(c)
    BY <2>13
    DEF LockInv, TypeInv, CallTypes, Locking, SendReturns, Returns, Delivered,
       CallAt
  <2>14. CASE CallDropped(c)
    BY <2>14
    DEF LockInv, TypeInv, CallTypes, Locking, MessageTypes, CallDropped, Root,
       CallAt, Holding
  <2> QED BY <1>3, <2>1, <2>2, <2>3, <2>4, <2>5, <2>6, <2>7, <2>8, <2>9,
   <2>10, <2>11, <2>12, <2>13, <2>14 DEF CallStep
<1>4. ASSUME NEW c \in Calls, NEW session \in Sessions, CallBegins(c, session) PROVE LockInv'
  <2>1. CASE SpawnReserveTurn(c, session)
    BY <2>1
    DEF LockInv, TypeInv, CallTypes, Locking, SpawnReserveTurn, messageVars,
       CanReserve, CallAt, Begins, MayCall, Root
  <2>2. ASSUME NEW operation \in Stops, NEW target \in Sessions, StopRequest(c, session, operation, target) PROVE LockInv'
    BY <2>2, SubagentAssumption
    DEF LockInv, TypeInv, CallTypes, Locking, StopRequest, Root, messageVars,
       Stops, CallAt, Begins, MayCall
  <2>3. ASSUME NEW a \in Agents, NEW urgent \in BOOLEAN, NEW delegate \in BOOLEAN, SendPrepare(c, session, a, urgent, delegate) PROVE LockInv'
    <3> DEFINE m == NextMessage
    <3>1. PICK k \in 0 .. MaxMessages : \A n \in Messages : commit[n] = "unsent" <=> n > k
      BY DEF TypeInv, DrawnInv
    <3>2. m = k + 1 /\ m \in Messages
      BY <2>3, <3>1, NextMessageIs DEF SendPrepare
    <3>3. \A d \in Calls : cpc[d] \notin Locking
      BY <2>3, SubagentAssumption DEF TypeInv, LockInv, SendPrepare
    <3>4. /\ lock' = c /\ sent' = [sent EXCEPT ![c] = m] /\ commit' = [commit EXCEPT ![m] = "wait"]
          /\ cpc' = [cpc EXCEPT ![c] = "send_commit"]
      BY <2>3 DEF SendPrepare, CallAt
    <3> HIDE DEF m
    <3>5. \A n \in Messages : n > m => commit'[n] = "unsent"
      BY <3>1, <3>2, <3>4 DEF TypeInv, MessageTypes, Messages
    <3>6. commit'[m] = "wait"
      BY <3>2, <3>4 DEF TypeInv, MessageTypes
    <3> QED
      BY <3>2, <3>3, <3>4, <3>5, <3>6 DEF LockInv, Locking, TypeInv, CallTypes
  <2> QED BY <1>4, <2>1, <2>2, <2>3 DEF CallBegins
<1>5. ASSUME Disturbance PROVE LockInv'
  <2>1. ASSUME NEW c \in Calls, StopTimesOut(c) PROVE LockInv'
    BY <2>1
    DEF LockInv, TypeInv, CallTypes, Locking, StopTimesOut, CallAt, OnlyCalls,
       AllInactive, Returns, messageVars
  <2>2. ASSUME NEW c \in Calls, JoinTimesOut(c) PROVE LockInv'
    BY <2>2
    DEF LockInv, TypeInv, CallTypes, Locking, JoinTimesOut, messageVars,
       Returns, CallAt
  <2>3. ASSUME (\E a \in Agents : Submit(a)) \/ (\E a \in Agents : DriverDies(a)) \/
              (\E n \in Limits : SetLimit(n))
       PROVE  LockInv'
    <3>1. UNCHANGED <<commit, cpc, sent, lock>>
      BY <2>3
      DEF Submit, messageVars, callVars, DriverDies, SetLimit
    <3> QED BY <3>1  DEF LockInv, TypeInv, CallTypes, Locking
  <2> QED BY <1>5, <2>1, <2>2, <2>3 DEF Disturbance
<1> QED BY <1>1, <1>2, <1>3, <1>4, <1>5 DEF Next

LEMMA DrawnInvKept ==
  ASSUME TypeInv, Next
  PROVE  DrawnInv'
<1>1. ASSUME NEW a \in Agents, HarnessStep(a) PROVE DrawnInv'
  <2>1. ASSUME TakeStart(a) \/ PromptAccepted(a) \/ PromptFailed(a) \/
              TakeDelivery(a) \/ Abandoned(a) \/ (\E m \in Messages : Steer(a, m))
              \/ (\E m \in Messages : DeliverStart(a, m)) \/ (\E m \in Messages :
              DeliverQueue(a, m)) \/ SteerAdmitted(a) \/ SteerRefused(a) \/
              SteerFailed(a) \/ CapacityChanged(a) \/ StartPending(a) \/
              StopPending(a) \/ TurnFinished(a) \/ Publish(a) \/ TakeStop(a) \/
              RejectWaiting(a) \/ UrgentRejected(a) \/ AllRejected(a) \/ Shutdown(a)
              \/ FinishActive(a) \/ Release(a) \/ HarnessClosed(a)
       PROVE  DrawnInv'
    <3>1. UNCHANGED <<commit>>
      BY <2>1
      DEF TakeStart, messageVars, PromptAccepted, PromptFailed, TakeDelivery,
         Abandoned, Steer, DeliverStart, DeliverQueue, SteerAdmitted,
         SteerRefused, SteerFailed, CapacityChanged, StartPending,
         StopPending, TurnFinished, Publish, TakeStop, RejectWaiting,
         UrgentRejected, AllRejected, Shutdown, FinishActive, Release,
         HarnessClosed
    <3> QED BY <3>1  DEF DrawnInv, TypeInv, LockInv, MessageTypes
  <2> QED BY <1>1, <2>1 DEF HarnessStep
<1>2. ASSUME NEW a \in Agents, LibraryStep(a) PROVE DrawnInv'
  <2>1. ASSUME (\E result \in Outcomes : TurnEnds(a, result)) \/ EventsEnd(a) \/
              EventsDone(a)
       PROVE  DrawnInv'
    <3>1. UNCHANGED <<commit>>
      BY <2>1
      DEF TurnEnds, messageVars, EventsEnd, EventsDone
    <3> QED BY <3>1  DEF DrawnInv, TypeInv, LockInv, MessageTypes
  <2> QED BY <1>2, <2>1 DEF LibraryStep
<1>3. ASSUME NEW c \in Calls, CallStep(c) \/ CallDropped(c) PROVE DrawnInv'
  <2>1. CASE SendCommit(c)
    BY <2>1
    DEF DrawnInv, TypeInv, LockInv, MessageTypes, SendCommit
  <2>2. CASE CallDropped(c)
    BY <2>2
    DEF DrawnInv, TypeInv, LockInv, MessageTypes, CallDropped, Root, Holding
  <2>3. ASSUME SpawnReserveId(c) \/ SpawnFails(c) \/ SpawnReturns(c) \/ (\E a \in
              Agents : SpawnInsert(c, a)) \/ (\E a \in Agents : SpawnLaunch(c, a))
              \/ StopSend(c) \/ InterruptReturns(c) \/ CloseInactive(c) \/
              FinishClose(c) \/ CloseReturns(c) \/ FinishLate(c) \/ SendReturns(c)
       PROVE  DrawnInv'
    <3>1. UNCHANGED <<commit>>
      BY <2>3
      DEF SpawnReserveId, messageVars, SpawnFails, SpawnReturns, OnlyCalls,
         SpawnInsert, SpawnLaunch, StopSend, InterruptReturns, CloseInactive,
         FinishClose, CloseReturns, FinishLate, SendReturns
    <3> QED BY <3>1  DEF DrawnInv, TypeInv, LockInv, MessageTypes
  <2> QED BY <1>3, <2>1, <2>2, <2>3 DEF CallStep
<1>4. ASSUME NEW c \in Calls, NEW session \in Sessions, CallBegins(c, session) PROVE DrawnInv'
  <2>1. ASSUME NEW a \in Agents, NEW urgent \in BOOLEAN, NEW delegate \in BOOLEAN, SendPrepare(c, session, a, urgent, delegate) PROVE DrawnInv'
    <3>1. PICK k \in 0 .. MaxMessages : \A n \in Messages : commit[n] = "unsent" <=> n > k
      BY DEF TypeInv, DrawnInv
    <3>2. NextMessage = k + 1 /\ k + 1 \in Messages
      BY <2>1, <3>1, NextMessageIs DEF SendPrepare
    <3>3. commit' = [commit EXCEPT ![k + 1] = "wait"]
      BY <2>1, <3>2 DEF SendPrepare
    <3>4. \A n \in Messages : commit'[n] = "unsent" <=> n > k + 1
      BY <3>1, <3>2, <3>3 DEF TypeInv, MessageTypes, Messages
    <3>5. k + 1 \in 0 .. MaxMessages
      BY <3>2, SubagentAssumption DEF Messages
    <3> QED
      BY <3>4, <3>5 DEF DrawnInv
  <2>2. ASSUME SpawnReserveTurn(c, session) \/ (\E operation \in Stops, target \in
              Sessions : StopRequest(c, session, operation, target))
       PROVE  DrawnInv'
    <3>1. UNCHANGED <<commit>>
      BY <2>2
      DEF SpawnReserveTurn, messageVars, StopRequest
    <3> QED BY <3>1  DEF DrawnInv, TypeInv, LockInv, MessageTypes
  <2> QED BY <1>4, <2>1, <2>2 DEF CallBegins
<1>5. ASSUME Disturbance PROVE DrawnInv'
  <2>1. ASSUME (\E c \in Calls : StopTimesOut(c)) \/ (\E c \in Calls :
              JoinTimesOut(c)) \/ (\E a \in Agents : Submit(a)) \/ (\E a \in Agents
              : DriverDies(a)) \/ (\E n \in Limits : SetLimit(n))
       PROVE  DrawnInv'
    <3>1. UNCHANGED <<commit>>
      BY <2>1
      DEF StopTimesOut, OnlyCalls, messageVars, JoinTimesOut, Submit,
         DriverDies, SetLimit
    <3> QED BY <3>1  DEF DrawnInv, TypeInv, LockInv, MessageTypes
  <2> QED BY <1>5, <2>1 DEF Disturbance
<1> QED BY <1>1, <1>2, <1>3, <1>4, <1>5 DEF Next

-----------------------------------------------------------------------------
(* Where a child's harness is, and what that says of its turn: a turn has  *)
(* its capacity until its result is published.                             *)
TurnAt(a) ==
  /\ turn[a] # "none" =>
       hpc[a] \notin {"absent", "prompting", "pending", "release", "closing", "gone"}
  /\ hpc[a] = "publish" => turn[a] \in Outcomes
  /\ hpc[a] \in {"steering", "stopping"} => turn[a] # "none"
  /\ a \in holds <=> \/ hpc[a] \in {"prompting", "release"}
                     \/ turn[a] # "none" /\ hpc[a] # "publish"

Stopping == {"reject_urgent", "reject_deferred", "shutdown", "stopping", "release", "closing"}

WhyAt(a) ==
  /\ hpc[a] = "prompting" => why[a] \in {"start", "deliver", "pending"}
  /\ hpc[a] \in Stopping => why[a] \in {"interrupt", "close"}
  /\ hpc[a] \in {"shutdown", "closing"} => why[a] = "close"
  /\ hpc[a] \notin Stopping \cup {"prompting"} => why[a] = "none"
  /\ asker[a] # Nobody => why[a] \in {"start", "interrupt", "close"}

(* The driver has ended before a close is over.                            *)
Over(a) ==
  \/ hpc[a] \in {"closing", "gone"}
  \/ hpc[a] \in {"stopping", "release"} /\ why[a] = "close"

AliveAt(a) == Over(a) => a \notin alive

AbsentAt(a) ==
  /\ hpc[a] = "absent" <=> status[a] = "absent"
  /\ hpc[a] = "absent" =>
       /\ slot[a] = "idle" /\ a \notin alive /\ a \notin handle /\ task[a] = None
       /\ events[a] = "absent"
  /\ hpc[a] \in {"absent", "gone"} =>
       commands[a] = << >> /\ queued[a] = EmptyBox /\ mailbox[a] = EmptyBox

HarnessInv == \A a \in Agents : TurnAt(a) /\ WhyAt(a) /\ AliveAt(a) /\ AbsentAt(a)

(* Where the call is whose command of a kind a harness has.                *)
Reached(c, kind) ==
  \/ kind = "start" /\ cpc[c] \in {"spawn_wait", "done"}
  \/ kind = "interrupt" /\ cpc[c] \in {"interrupt_wait", "done"}
  \/ kind = "close" /\ cpc[c] \in {"close_wait", "close_finish", "close_join", "close_late", "done"}

CommandInv ==
  \A a \in Agents :
    /\ \A i \in DOMAIN commands[a] : LET command == commands[a][i] IN
         IF command.from = Nobody THEN command.kind = "close"
         ELSE command.from \in Calls /\ Reached(command.from, command.kind)
    /\ asker[a] # Nobody => Reached(asker[a], why[a])

(* A Start command, which carries a capacity, is nowhere else.             *)
OnceInv ==
  \A a, b \in Agents : \A i \in DOMAIN commands[a], j \in DOMAIN commands[b] :
    commands[a][i] = commands[b][j] /\ commands[a][i].kind = "start" => a = b /\ i = j

(* Every spawn inserts a child of its own.                                 *)
SpawnInv ==
  /\ \A a \in Born : a <= nextId
  /\ \A c \in Calls :
       /\ cpc[c] \in {"spawn_insert", "spawn_start"} => \E a \in Agents : ids[c] = {a} /\ a <= nextId
       /\ cpc[c] = "spawn_insert" => \A a \in ids[c] : status[a] = "absent"
       /\ \A d \in Calls : c # d /\ cpc[c] = "spawn_insert" /\ cpc[d] = "spawn_insert"
            => ids[c] # ids[d]

HandleInv == handle = joinable /\ \A a \in Born : a \in handle \/ hpc[a] = "gone"

(* What a close has marked has all its descendants marked.                 *)
CoverInv ==
  /\ covered \subseteq Born /\ \A a \in covered : status[a] \in Stopped
  /\ \A d \in Born : parent[d] \in covered => d \in covered

ClosingPoints == {"close_send", "close_wait", "close_finish", "close_join", "close_late"}

CloseInv ==
  /\ \A c \in Calls :
       /\ waits[c] \subseteq Born
       /\ cpc[c] \in ClosingPoints => ids[c] \subseteq covered
       /\ cpc[c] \in {"close_send", "close_wait"} => \A a \in ids[c] : hpc[a] = "gone" \/ a \in waits[c]
       /\ cpc[c] \in {"close_finish", "close_join"} => \A a \in ids[c] : hpc[a] = "gone"
       /\ cpc[c] \in {"close_finish", "close_join", "close_late"} => AllInactive(ids[c])
  /\ shut \subseteq covered /\ AllInactive(shut) /\ \A a \in shut : hpc[a] = "gone"

(* A child with queued messages looks at the capacity when it is free.     *)
WakeInv ==
  \A a \in Agents :
    queued[a] # EmptyBox /\ CanReserve => a \in dirty \/ a \in holds \/ hpc[a] = "pending"

(* What is reserved is what harnesses, spawns and commands hold.           *)
Spawning == {c \in Calls : cpc[c] \in Holding}
CapacityInv ==
  reserved = Cardinality(holds) + Cardinality(Spawning) + Cardinality(Starts(Agents))

IInv ==
  /\ TypeInv /\ HarnessInv /\ CommandInv /\ OnceInv /\ SpawnInv /\ HandleInv
  /\ CoverInv /\ CloseInv /\ CapacityInv /\ WakeInv

-----------------------------------------------------------------------------
LEMMA TailIs ==
  ASSUME NEW S, NEW s \in Seq(S), s # << >>
  PROVE  /\ Head(s) = s[1] /\ 1 \in DOMAIN s
         /\ DOMAIN Tail(s) = 1 .. Len(s) - 1 /\ DOMAIN s = 1 .. Len(s) /\ Len(s) \in Nat
         /\ \A i \in DOMAIN Tail(s) : Tail(s)[i] = s[i + 1]
BY HeadTailProperties, EmptySeq, LenProperties

(* What the channels hold after the first command of one is taken ...      *)
CommandTaken(a) == commands' = [commands EXCEPT ![a] = Tail(@)]

LEMMA TakenCommand ==
  ASSUME ChannelTypes, NEW a \in Agents, commands[a] # << >>, CommandTaken(a)
  PROVE  /\ Head(commands[a]) = commands[a][1] /\ 1 \in DOMAIN commands[a]
         /\ \A b \in Agents : \A i \in DOMAIN commands'[b] :
              LET j == IF b = a THEN i + 1 ELSE i IN
              j \in DOMAIN commands[b] /\ commands'[b][i] = commands[b][j]
         /\ \A b \in Agents : \A j \in DOMAIN commands[b] :
              (b = a /\ j = 1)
              \/ \E i \in DOMAIN commands'[b] : commands'[b][i] = commands[b][j]
         /\ \A i \in DOMAIN commands'[a] : i \in Nat /\ i > 0
<1>1. commands[a] \in Seq(Command)
  BY DEF ChannelTypes
<1>2. commands'[a] = Tail(commands[a]) /\ \A b \in Agents : b # a => commands'[b] = commands[b]
  BY DEF ChannelTypes, CommandTaken
<1> DEFINE s == commands[a]
<1>3. /\ Head(s) = s[1] /\ 1 \in DOMAIN s
      /\ DOMAIN Tail(s) = 1 .. Len(s) - 1 /\ DOMAIN s = 1 .. Len(s) /\ Len(s) \in Nat
      /\ \A i \in DOMAIN Tail(s) : Tail(s)[i] = s[i + 1]
  BY <1>1, TailIs
<1>4. \A i \in DOMAIN commands'[a] : i \in Nat /\ i > 0 /\ i + 1 \in DOMAIN s /\ commands'[a][i] = s[i + 1]
  BY <1>2, <1>3
<1>5. \A j \in DOMAIN s : j # 1 => j - 1 \in DOMAIN commands'[a] /\ commands'[a][j - 1] = s[j]
  BY <1>2, <1>3
<1>6. \A b \in Agents : \A i \in DOMAIN commands'[b] :
        LET j == IF b = a THEN i + 1 ELSE i IN
        j \in DOMAIN commands[b] /\ commands'[b][i] = commands[b][j]
  BY <1>2, <1>4
<1>7. \A b \in Agents : \A j \in DOMAIN commands[b] :
        (b = a /\ j = 1)
        \/ \E i \in DOMAIN commands'[b] : commands'[b][i] = commands[b][j]
  BY <1>2, <1>5
<1> QED
  BY <1>3, <1>4, <1>6, <1>7

(* ... and after a command was put into some of them.                      *)
CommandSent(to, command) ==
  commands' = [b \in Agents |-> IF b \in to THEN Append(commands[b], command) ELSE commands[b]]

LEMMA SentCommand ==
  ASSUME ChannelTypes, NEW to, NEW command \in Command, CommandSent(to, command)
  PROVE  \A b \in Agents :
           /\ \A i \in DOMAIN commands[b] :
                i \in DOMAIN commands'[b] /\ commands'[b][i] = commands[b][i]
           /\ \A i \in DOMAIN commands'[b] :
                \/ i \in DOMAIN commands[b] /\ commands'[b][i] = commands[b][i]
                \/ b \in to /\ i = Len(commands[b]) + 1 /\ commands'[b][i] = command
           /\ b \in to => \E i \in DOMAIN commands'[b] : commands'[b][i] = command
<1> SUFFICES ASSUME NEW b \in Agents
    PROVE  /\ \A i \in DOMAIN commands[b] :
                i \in DOMAIN commands'[b] /\ commands'[b][i] = commands[b][i]
           /\ \A i \in DOMAIN commands'[b] :
                \/ i \in DOMAIN commands[b] /\ commands'[b][i] = commands[b][i]
                \/ b \in to /\ i = Len(commands[b]) + 1 /\ commands'[b][i] = command
           /\ b \in to => \E i \in DOMAIN commands'[b] : commands'[b][i] = command
  OBVIOUS
<1>1. commands[b] \in Seq(Command)
  BY DEF ChannelTypes
<1>2. CASE b \in to
  <2>1. commands'[b] = Append(commands[b], command)
    BY <1>2 DEF CommandSent
  <2>2. /\ DOMAIN commands'[b] = 1 .. Len(commands[b]) + 1 /\ DOMAIN commands[b] = 1 .. Len(commands[b])
        /\ Len(commands[b]) \in Nat
        /\ \A i \in 1 .. Len(commands[b]) : commands'[b][i] = commands[b][i]
        /\ commands'[b][Len(commands[b]) + 1] = command
    BY <1>1, <2>1, AppendProperties, LenProperties
  <2> QED
    BY <1>2, <2>2
<1>3. CASE b \notin to
  BY <1>3 DEF CommandSent
<1> QED
  BY <1>2, <1>3

LEMMA StopSends ==
  ASSUME NEW c \in Calls, StopSend(c)
  PROVE  LET kind == IF cpc[c] = "close_send" THEN "close" ELSE "interrupt" IN
         CommandSent({a \in waits[c] : hpc[a] # "gone"}, [kind |-> kind, from |-> c])
BY DEF StopSend, CommandSent

LEMMA SpawnSends ==
  ASSUME ChannelTypes, NEW c \in Calls, NEW a \in Agents, SpawnLaunch(c, a)
  PROVE  \/ cpc' = [cpc EXCEPT ![c] = "spawn_wait"] /\ CommandSent({a}, [kind |-> "start", from |-> c])
         \/ cpc' = [cpc EXCEPT ![c] = "done"] /\ commands' = commands
BY DEF SpawnLaunch, CommandSent, ChannelTypes, CallAt

LEMMA EventsSend ==
  ASSUME ChannelTypes, NEW a \in Agents, EventsEnd(a)
  PROVE  commands' = commands \/ CommandSent({a}, [kind |-> "close", from |-> Nobody])
BY DEF EventsEnd, CommandSent, ChannelTypes

LEMMA TurnAtKept ==
  ASSUME IInv, NEW b \in Agents, Next
  PROVE  TurnAt(b)'
<1>1. ASSUME NEW a \in Agents, HarnessStep(a) PROVE TurnAt(b)'
  <2>1. CASE TakeStart(a)
    BY <2>1
    DEF TurnAt, IInv, HarnessInv, TypeInv, HarnessTypes, Outcomes, TakeStart,
       None, CanStartTurn, Prompting, IsCommand, Startable, Goto
  <2>2. CASE PromptAccepted(a)
    BY <2>2
    DEF TurnAt, IInv, HarnessInv, TypeInv, HarnessTypes, Outcomes,
       PromptAccepted, None, NoChange, Goto
  <2>3. CASE PromptFailed(a)
    BY <2>3
    DEF TurnAt, IInv, HarnessInv, TypeInv, HarnessTypes, Outcomes,
       PromptFailed, None, Goto
  <2>4. CASE TakeDelivery(a)
    BY <2>4
    DEF TurnAt, IInv, HarnessInv, TypeInv, HarnessTypes, Outcomes,
       TakeDelivery, EmptyBox, Goto, NoCommand
  <2>5. CASE Abandoned(a)
    BY <2>5
    DEF TurnAt, IInv, HarnessInv, TypeInv, HarnessTypes, Outcomes, Abandoned,
       None, Goto
  <2>6. ASSUME NEW m \in Messages, Steer(a, m) PROVE TurnAt(b)'
    BY <2>6
    DEF TurnAt, IInv, HarnessInv, TypeInv, HarnessTypes, Outcomes, Steer,
       Goto, Accepting, Steerable
  <2>7. ASSUME NEW m \in Messages, DeliverStart(a, m) PROVE TurnAt(b)'
    BY <2>7
    DEF TurnAt, IInv, HarnessInv, TypeInv, HarnessTypes, Outcomes,
       DeliverStart, None, CanStartTurn, Goto, Prompting, Accepting,
       Steerable, CanDeliver, Startable, EmptyBox, CanReserve
  <2>8. ASSUME NEW m \in Messages, DeliverQueue(a, m) PROVE TurnAt(b)'
    BY <2>8
    DEF TurnAt, IInv, HarnessInv, TypeInv, HarnessTypes, Outcomes,
       DeliverQueue, Accepting, Steerable, QueueDelivery, CanDeliver, None,
       Goto, EmptyBox, CanReserve
  <2>9. CASE SteerAdmitted(a)
    BY <2>9
    DEF TurnAt, IInv, HarnessInv, TypeInv, HarnessTypes, Outcomes,
       SteerAdmitted, None, NoChange, Goto
  <2>10. CASE SteerRefused(a)
    BY <2>10
    DEF TurnAt, IInv, HarnessInv, TypeInv, HarnessTypes, Outcomes,
       SteerRefused, QueueDelivery, None, Goto
  <2>11. CASE SteerFailed(a)
    BY <2>11
    DEF TurnAt, IInv, HarnessInv, TypeInv, HarnessTypes, Outcomes,
       SteerFailed, None, Goto
  <2>12. CASE CapacityChanged(a)
    BY <2>12
    DEF TurnAt, IInv, HarnessInv, TypeInv, HarnessTypes, Outcomes,
       CapacityChanged, EmptyBox, Goto, NoCommand
  <2>13. CASE StartPending(a)
    BY <2>13
    DEF TurnAt, IInv, HarnessInv, TypeInv, HarnessTypes, Outcomes,
       StartPending, EmptyBox, CanReserve, CanStartTurn, Prompting, Startable,
       Goto
  <2>14. CASE StopPending(a)
    BY <2>14
    DEF TurnAt, IInv, HarnessInv, TypeInv, HarnessTypes, Outcomes,
       StopPending, EmptyBox, CanReserve, Goto
  <2>15. CASE TurnFinished(a)
    BY <2>15
    DEF TurnAt, IInv, HarnessInv, TypeInv, HarnessTypes, Outcomes,
       TurnFinished, EmptyBox, Goto, NoCommand, TurnOver
  <2>16. CASE Publish(a)
    BY <2>16
    DEF TurnAt, IInv, HarnessInv, TypeInv, HarnessTypes, Outcomes, Publish,
       Goto
  <2>17. CASE TakeStop(a)
    BY <2>17
    DEF TurnAt, IInv, HarnessInv, TypeInv, HarnessTypes, Outcomes, TakeStop,
       Goto, IsCommand
  <2>18. CASE UrgentRejected(a)
    BY <2>18
    DEF TurnAt, IInv, HarnessInv, TypeInv, HarnessTypes, Outcomes,
       UrgentRejected, Goto
  <2>19. CASE AllRejected(a)
    BY <2>19
    DEF TurnAt, IInv, HarnessInv, TypeInv, HarnessTypes, Outcomes,
       AllRejected, Goto
  <2>20. CASE Shutdown(a)
    BY <2>20
    DEF TurnAt, IInv, HarnessInv, TypeInv, HarnessTypes, Outcomes, Shutdown,
       Goto
  <2>21. CASE FinishActive(a)
    BY <2>21
    DEF TurnAt, IInv, HarnessInv, TypeInv, HarnessTypes, Outcomes,
       FinishActive, Goto, TurnOver
  <2>22. CASE Release(a)
    BY <2>22
    DEF TurnAt, IInv, HarnessInv, TypeInv, HarnessTypes, Outcomes, Release,
       Goto
  <2>23. CASE HarnessClosed(a)
    BY <2>23
    DEF TurnAt, IInv, HarnessInv, TypeInv, HarnessTypes, Outcomes,
       HarnessClosed, CleanUp, None, NoChange, EmptyBox
  <2>24. ASSUME RejectWaiting(a)
       PROVE  TurnAt(b)'
    <3>1. UNCHANGED <<hpc, turn, holds>>
      BY <2>24
      DEF RejectWaiting, harnessVars
    <3> QED BY <3>1  DEF TurnAt, IInv, HarnessInv, TypeInv, HarnessTypes, Outcomes
  <2> QED BY <1>1, <2>1, <2>2, <2>3, <2>4, <2>5, <2>6, <2>7, <2>8, <2>9,
   <2>10, <2>11, <2>12, <2>13, <2>14, <2>15, <2>16, <2>17, <2>18, <2>19,
   <2>20, <2>21, <2>22, <2>23, <2>24 DEF HarnessStep
<1>2. ASSUME NEW a \in Agents, LibraryStep(a) PROVE TurnAt(b)'
  <2>1. ASSUME NEW result \in Outcomes, TurnEnds(a, result) PROVE TurnAt(b)'
    BY <2>1
    DEF TurnAt, IInv, HarnessInv, TypeInv, HarnessTypes, Outcomes, TurnEnds
  <2>2. ASSUME EventsEnd(a) \/ EventsDone(a)
       PROVE  TurnAt(b)'
    <3>1. UNCHANGED <<hpc, turn, holds>>
      BY <2>2
      DEF EventsEnd, harnessVars, EventsDone
    <3> QED BY <3>1  DEF TurnAt, IInv, HarnessInv, TypeInv, HarnessTypes, Outcomes
  <2> QED BY <1>2, <2>1, <2>2 DEF LibraryStep
<1>3. ASSUME NEW c \in Calls, CallStep(c) \/ CallDropped(c) PROVE TurnAt(b)'
  <2>1. ASSUME NEW a \in Agents, SpawnInsert(c, a) PROVE TurnAt(b)'
    BY <2>1
    DEF TurnAt, IInv, HarnessInv, TypeInv, HarnessTypes, Outcomes, SpawnInv,
       AbsentAt, SpawnInsert, Goto, InsertRefused, ParentStopped, Stopped,
       Root
  <2>2. CASE FinishLate(c)
    BY <2>2
    DEF TurnAt, IInv, HarnessInv, TypeInv, HarnessTypes, Outcomes, FinishLate,
       CleanUp, AllInactive, Unfinished, None, NoChange, EmptyBox
  <2>3. ASSUME SpawnReserveId(c) \/ SpawnFails(c) \/ SpawnReturns(c) \/ (\E a \in
              Agents : SpawnLaunch(c, a)) \/ StopSend(c) \/ InterruptReturns(c) \/
              CloseInactive(c) \/ FinishClose(c) \/ CloseReturns(c) \/ SendCommit(c)
              \/ SendReturns(c) \/ CallDropped(c)
       PROVE  TurnAt(b)'
    <3>1. UNCHANGED <<hpc, turn, holds>>
      BY <2>3
      DEF SpawnReserveId, harnessVars, SpawnFails, SpawnReturns, OnlyCalls,
         SpawnLaunch, StopSend, InterruptReturns, CloseInactive, FinishClose,
         CloseReturns, SendCommit, SendReturns, CallDropped
    <3> QED BY <3>1  DEF TurnAt, IInv, HarnessInv, TypeInv, HarnessTypes, Outcomes
  <2> QED BY <1>3, <2>1, <2>2, <2>3 DEF CallStep
<1>4. ASSUME NEW c \in Calls, NEW session \in Sessions, CallBegins(c, session) PROVE TurnAt(b)'
  <2>1. ASSUME SpawnReserveTurn(c, session) \/ (\E operation \in Stops, target \in
              Sessions : StopRequest(c, session, operation, target)) \/ (\E a \in
              Agents, urgent \in BOOLEAN, delegate \in BOOLEAN : SendPrepare(c,
              session, a, urgent, delegate))
       PROVE  TurnAt(b)'
    <3>1. UNCHANGED <<hpc, turn, holds>>
      BY <2>1
      DEF SpawnReserveTurn, harnessVars, StopRequest, SendPrepare
    <3> QED BY <3>1  DEF TurnAt, IInv, HarnessInv, TypeInv, HarnessTypes, Outcomes
  <2> QED BY <1>4, <2>1 DEF CallBegins
<1>5. ASSUME Disturbance PROVE TurnAt(b)'
  <2>1. ASSUME (\E c \in Calls : StopTimesOut(c)) \/ (\E c \in Calls :
              JoinTimesOut(c)) \/ (\E a \in Agents : Submit(a)) \/ (\E a \in Agents
              : DriverDies(a)) \/ (\E n \in Limits : SetLimit(n))
       PROVE  TurnAt(b)'
    <3>1. UNCHANGED <<hpc, turn, holds>>
      BY <2>1
      DEF StopTimesOut, OnlyCalls, harnessVars, JoinTimesOut, Submit,
         DriverDies, SetLimit
    <3> QED BY <3>1  DEF TurnAt, IInv, HarnessInv, TypeInv, HarnessTypes, Outcomes
  <2> QED BY <1>5, <2>1 DEF Disturbance
<1> QED BY <1>1, <1>2, <1>3, <1>4, <1>5 DEF Next

LEMMA WhyAtKept ==
  ASSUME IInv, NEW b \in Agents, Next
  PROVE  WhyAt(b)'
<1>1. ASSUME NEW a \in Agents, HarnessStep(a) PROVE WhyAt(b)'
  <2>1. CASE TakeStart(a)
    BY <2>1
    DEF WhyAt, IInv, HarnessInv, TypeInv, HarnessTypes, Stopping, TakeStart,
       None, CanStartTurn, Prompting, IsCommand, Startable, Goto
  <2>2. CASE PromptAccepted(a)
    BY <2>2
    DEF WhyAt, IInv, HarnessInv, TypeInv, HarnessTypes, Stopping,
       PromptAccepted, None, NoChange, Goto
  <2>3. CASE PromptFailed(a)
    BY <2>3
    DEF WhyAt, IInv, HarnessInv, TypeInv, HarnessTypes, Stopping,
       PromptFailed, None, Goto
  <2>4. CASE TakeDelivery(a)
    BY <2>4
    DEF WhyAt, IInv, HarnessInv, TypeInv, HarnessTypes, Stopping,
       TakeDelivery, EmptyBox, Goto, NoCommand
  <2>5. CASE Abandoned(a)
    BY <2>5
    DEF WhyAt, IInv, HarnessInv, TypeInv, HarnessTypes, Stopping, Abandoned,
       None, Goto
  <2>6. ASSUME NEW m \in Messages, Steer(a, m) PROVE WhyAt(b)'
    BY <2>6
    DEF WhyAt, IInv, HarnessInv, TypeInv, HarnessTypes, Stopping, Steer, Goto,
       Accepting, Steerable
  <2>7. ASSUME NEW m \in Messages, DeliverStart(a, m) PROVE WhyAt(b)'
    BY <2>7
    DEF WhyAt, IInv, HarnessInv, TypeInv, HarnessTypes, Stopping,
       DeliverStart, None, CanStartTurn, Goto, Prompting, Accepting,
       Steerable, CanDeliver, Startable, EmptyBox, CanReserve
  <2>8. ASSUME NEW m \in Messages, DeliverQueue(a, m) PROVE WhyAt(b)'
    BY <2>8
    DEF WhyAt, IInv, HarnessInv, TypeInv, HarnessTypes, Stopping,
       DeliverQueue, Accepting, Steerable, QueueDelivery, CanDeliver, None,
       Goto, EmptyBox, CanReserve
  <2>9. CASE SteerAdmitted(a)
    BY <2>9
    DEF WhyAt, IInv, HarnessInv, TypeInv, HarnessTypes, Stopping,
       SteerAdmitted, None, NoChange, Goto
  <2>10. CASE SteerRefused(a)
    BY <2>10
    DEF WhyAt, IInv, HarnessInv, TypeInv, HarnessTypes, Stopping,
       SteerRefused, QueueDelivery, None, Goto
  <2>11. CASE SteerFailed(a)
    BY <2>11
    DEF WhyAt, IInv, HarnessInv, TypeInv, HarnessTypes, Stopping, SteerFailed,
       None, Goto
  <2>12. CASE CapacityChanged(a)
    BY <2>12
    DEF WhyAt, IInv, HarnessInv, TypeInv, HarnessTypes, Stopping,
       CapacityChanged, stepVars, EmptyBox, Goto, NoCommand
  <2>13. CASE StartPending(a)
    BY <2>13
    DEF WhyAt, IInv, HarnessInv, TypeInv, HarnessTypes, Stopping,
       StartPending, EmptyBox, CanReserve, CanStartTurn, Prompting, Startable,
       Goto
  <2>14. CASE StopPending(a)
    BY <2>14
    DEF WhyAt, IInv, HarnessInv, TypeInv, HarnessTypes, Stopping, StopPending,
       stepVars, EmptyBox, CanReserve, Goto
  <2>15. CASE TurnFinished(a)
    BY <2>15
    DEF WhyAt, IInv, HarnessInv, TypeInv, HarnessTypes, Stopping,
       TurnFinished, stepVars, EmptyBox, Goto, NoCommand, TurnOver
  <2>16. CASE Publish(a)
    BY <2>16
    DEF WhyAt, IInv, HarnessInv, TypeInv, HarnessTypes, Stopping, Publish,
       stepVars, Goto
  <2>17. CASE TakeStop(a)
    BY <2>17
    DEF WhyAt, IInv, HarnessInv, TypeInv, HarnessTypes, Stopping, TakeStop,
       Goto, IsCommand
  <2>18. CASE UrgentRejected(a)
    BY <2>18
    DEF WhyAt, IInv, HarnessInv, TypeInv, HarnessTypes, Stopping,
       UrgentRejected, stepVars, Goto
  <2>19. CASE AllRejected(a)
    BY <2>19
    DEF WhyAt, IInv, HarnessInv, TypeInv, HarnessTypes, Stopping, AllRejected,
       Goto
  <2>20. CASE Shutdown(a)
    BY <2>20
    DEF WhyAt, IInv, HarnessInv, TypeInv, HarnessTypes, Stopping, Shutdown,
       stepVars, Goto
  <2>21. CASE FinishActive(a)
    BY <2>21
    DEF WhyAt, IInv, HarnessInv, TypeInv, HarnessTypes, Stopping,
       FinishActive, stepVars, Goto, TurnOver
  <2>22. CASE Release(a)
    BY <2>22
    DEF WhyAt, IInv, HarnessInv, TypeInv, HarnessTypes, Stopping, Release,
       Goto
  <2>23. CASE HarnessClosed(a)
    BY <2>23
    DEF WhyAt, IInv, HarnessInv, TypeInv, HarnessTypes, Stopping,
       HarnessClosed, CleanUp, None, NoChange, EmptyBox
  <2>24. ASSUME RejectWaiting(a)
       PROVE  WhyAt(b)'
    <3>1. UNCHANGED <<hpc, why, asker>>
      BY <2>24
      DEF RejectWaiting, harnessVars, stepVars
    <3> QED BY <3>1  DEF WhyAt, IInv, HarnessInv, TypeInv, HarnessTypes, Stopping
  <2> QED BY <1>1, <2>1, <2>2, <2>3, <2>4, <2>5, <2>6, <2>7, <2>8, <2>9,
   <2>10, <2>11, <2>12, <2>13, <2>14, <2>15, <2>16, <2>17, <2>18, <2>19,
   <2>20, <2>21, <2>22, <2>23, <2>24 DEF HarnessStep
<1>2. ASSUME NEW a \in Agents, LibraryStep(a) PROVE WhyAt(b)'
  <2>1. ASSUME (\E result \in Outcomes : TurnEnds(a, result)) \/ EventsEnd(a) \/
              EventsDone(a)
       PROVE  WhyAt(b)'
    <3>1. UNCHANGED <<hpc, why, asker>>
      BY <2>1
      DEF TurnEnds, stepVars, EventsEnd, harnessVars, EventsDone
    <3> QED BY <3>1  DEF WhyAt, IInv, HarnessInv, TypeInv, HarnessTypes, Stopping
  <2> QED BY <1>2, <2>1 DEF LibraryStep
<1>3. ASSUME NEW c \in Calls, CallStep(c) \/ CallDropped(c) PROVE WhyAt(b)'
  <2>1. ASSUME NEW a \in Agents, SpawnInsert(c, a) PROVE WhyAt(b)'
    BY <2>1
    DEF WhyAt, IInv, HarnessInv, TypeInv, HarnessTypes, Stopping, SpawnInv,
       AbsentAt, SpawnInsert, stepVars, Goto, InsertRefused, ParentStopped,
       Stopped, Root
  <2>2. CASE FinishLate(c)
    BY <2>2
    DEF WhyAt, IInv, HarnessInv, TypeInv, HarnessTypes, Stopping, FinishLate,
       CleanUp, AllInactive, Unfinished, None, NoChange, EmptyBox
  <2>3. ASSUME SpawnReserveId(c) \/ SpawnFails(c) \/ SpawnReturns(c) \/ (\E a \in
              Agents : SpawnLaunch(c, a)) \/ StopSend(c) \/ InterruptReturns(c) \/
              CloseInactive(c) \/ FinishClose(c) \/ CloseReturns(c) \/ SendCommit(c)
              \/ SendReturns(c) \/ CallDropped(c)
       PROVE  WhyAt(b)'
    <3>1. UNCHANGED <<hpc, why, asker>>
      BY <2>3
      DEF SpawnReserveId, harnessVars, stepVars, SpawnFails, SpawnReturns,
         OnlyCalls, SpawnLaunch, StopSend, InterruptReturns, CloseInactive,
         FinishClose, CloseReturns, SendCommit, SendReturns, CallDropped
    <3> QED BY <3>1  DEF WhyAt, IInv, HarnessInv, TypeInv, HarnessTypes, Stopping
  <2> QED BY <1>3, <2>1, <2>2, <2>3 DEF CallStep
<1>4. ASSUME NEW c \in Calls, NEW session \in Sessions, CallBegins(c, session) PROVE WhyAt(b)'
  <2>1. ASSUME SpawnReserveTurn(c, session) \/ (\E operation \in Stops, target \in
              Sessions : StopRequest(c, session, operation, target)) \/ (\E a \in
              Agents, urgent \in BOOLEAN, delegate \in BOOLEAN : SendPrepare(c,
              session, a, urgent, delegate))
       PROVE  WhyAt(b)'
    <3>1. UNCHANGED <<hpc, why, asker>>
      BY <2>1
      DEF SpawnReserveTurn, harnessVars, stepVars, StopRequest, SendPrepare
    <3> QED BY <3>1  DEF WhyAt, IInv, HarnessInv, TypeInv, HarnessTypes, Stopping
  <2> QED BY <1>4, <2>1 DEF CallBegins
<1>5. ASSUME Disturbance PROVE WhyAt(b)'
  <2>1. ASSUME (\E c \in Calls : StopTimesOut(c)) \/ (\E c \in Calls :
              JoinTimesOut(c)) \/ (\E a \in Agents : Submit(a)) \/ (\E a \in Agents
              : DriverDies(a)) \/ (\E n \in Limits : SetLimit(n))
       PROVE  WhyAt(b)'
    <3>1. UNCHANGED <<hpc, why, asker>>
      BY <2>1
      DEF StopTimesOut, OnlyCalls, harnessVars, stepVars, JoinTimesOut,
         Submit, DriverDies, SetLimit
    <3> QED BY <3>1  DEF WhyAt, IInv, HarnessInv, TypeInv, HarnessTypes, Stopping
  <2> QED BY <1>5, <2>1 DEF Disturbance
<1> QED BY <1>1, <1>2, <1>3, <1>4, <1>5 DEF Next

LEMMA AliveAtKept ==
  ASSUME IInv, NEW b \in Agents, Next
  PROVE  AliveAt(b)'
<1>1. ASSUME NEW a \in Agents, HarnessStep(a) PROVE AliveAt(b)'
  <2>1. CASE TakeStart(a)
    BY <2>1
    DEF AliveAt, Over, IInv, HarnessInv, TypeInv, HarnessTypes, WhyAt,
       Stopping, TakeStart, None, libraryVars, CanStartTurn, Prompting,
       IsCommand, Startable, Goto
  <2>2. CASE PromptAccepted(a)
    BY <2>2
    DEF AliveAt, Over, IInv, HarnessInv, TypeInv, HarnessTypes, WhyAt,
       Stopping, PromptAccepted, None, libraryVars, NoChange, Goto
  <2>3. CASE PromptFailed(a)
    BY <2>3
    DEF AliveAt, Over, IInv, HarnessInv, TypeInv, HarnessTypes, WhyAt,
       Stopping, PromptFailed, None, libraryVars, Goto
  <2>4. CASE TakeDelivery(a)
    BY <2>4
    DEF AliveAt, Over, IInv, HarnessInv, TypeInv, HarnessTypes, WhyAt,
       Stopping, TakeDelivery, libraryVars, EmptyBox, Goto, NoCommand
  <2>5. CASE Abandoned(a)
    BY <2>5
    DEF AliveAt, Over, IInv, HarnessInv, TypeInv, HarnessTypes, WhyAt,
       Stopping, Abandoned, None, libraryVars, Goto
  <2>6. ASSUME NEW m \in Messages, Steer(a, m) PROVE AliveAt(b)'
    BY <2>6
    DEF AliveAt, Over, IInv, HarnessInv, TypeInv, HarnessTypes, WhyAt,
       Stopping, Steer, libraryVars, Goto, Accepting, Steerable
  <2>7. ASSUME NEW m \in Messages, DeliverStart(a, m) PROVE AliveAt(b)'
    BY <2>7
    DEF AliveAt, Over, IInv, HarnessInv, TypeInv, HarnessTypes, WhyAt,
       Stopping, DeliverStart, None, libraryVars, CanStartTurn, Goto,
       Prompting, Accepting, Steerable, CanDeliver, Startable, EmptyBox,
       CanReserve
  <2>8. ASSUME NEW m \in Messages, DeliverQueue(a, m) PROVE AliveAt(b)'
    BY <2>8
    DEF AliveAt, Over, IInv, HarnessInv, TypeInv, HarnessTypes, WhyAt,
       Stopping, DeliverQueue, libraryVars, Accepting, Steerable,
       QueueDelivery, CanDeliver, None, Goto, EmptyBox, CanReserve
  <2>9. CASE SteerAdmitted(a)
    BY <2>9
    DEF AliveAt, Over, IInv, HarnessInv, TypeInv, HarnessTypes, WhyAt,
       Stopping, SteerAdmitted, None, libraryVars, NoChange, Goto
  <2>10. CASE SteerRefused(a)
    BY <2>10
    DEF AliveAt, Over, IInv, HarnessInv, TypeInv, HarnessTypes, WhyAt,
       Stopping, SteerRefused, libraryVars, QueueDelivery, None, Goto
  <2>11. CASE SteerFailed(a)
    BY <2>11
    DEF AliveAt, Over, IInv, HarnessInv, TypeInv, HarnessTypes, WhyAt,
       Stopping, SteerFailed, None, libraryVars, Goto
  <2>12. CASE CapacityChanged(a)
    BY <2>12
    DEF AliveAt, Over, IInv, HarnessInv, TypeInv, HarnessTypes, WhyAt,
       Stopping, CapacityChanged, stepVars, libraryVars, EmptyBox, Goto,
       NoCommand
  <2>13. CASE StartPending(a)
    BY <2>13
    DEF AliveAt, Over, IInv, HarnessInv, TypeInv, HarnessTypes, WhyAt,
       Stopping, StartPending, libraryVars, EmptyBox, CanReserve,
       CanStartTurn, Prompting, Startable, Goto
  <2>14. CASE StopPending(a)
    BY <2>14
    DEF AliveAt, Over, IInv, HarnessInv, TypeInv, HarnessTypes, WhyAt,
       Stopping, StopPending, stepVars, libraryVars, EmptyBox, CanReserve,
       Goto
  <2>15. CASE TurnFinished(a)
    BY <2>15
    DEF AliveAt, Over, IInv, HarnessInv, TypeInv, HarnessTypes, WhyAt,
       Stopping, TurnFinished, stepVars, libraryVars, EmptyBox, Goto,
       NoCommand, TurnOver
  <2>16. CASE Publish(a)
    BY <2>16
    DEF AliveAt, Over, IInv, HarnessInv, TypeInv, HarnessTypes, WhyAt,
       Stopping, Publish, stepVars, libraryVars, Goto
  <2>17. CASE TakeStop(a)
    BY <2>17
    DEF AliveAt, Over, IInv, HarnessInv, TypeInv, HarnessTypes, WhyAt,
       Stopping, TakeStop, libraryVars, Goto, IsCommand
  <2>18. CASE UrgentRejected(a)
    BY <2>18
    DEF AliveAt, Over, IInv, HarnessInv, TypeInv, HarnessTypes, WhyAt,
       Stopping, UrgentRejected, stepVars, libraryVars, Goto
  <2>19. CASE AllRejected(a)
    BY <2>19
    DEF AliveAt, Over, IInv, HarnessInv, TypeInv, HarnessTypes, WhyAt,
       Stopping, AllRejected, libraryVars, Goto
  <2>20. CASE Shutdown(a)
    BY <2>20
    DEF AliveAt, Over, IInv, HarnessInv, TypeInv, HarnessTypes, WhyAt,
       Stopping, Shutdown, stepVars, Goto
  <2>21. CASE FinishActive(a)
    BY <2>21
    DEF AliveAt, Over, IInv, HarnessInv, TypeInv, HarnessTypes, WhyAt,
       Stopping, FinishActive, stepVars, libraryVars, Goto, TurnOver
  <2>22. CASE Release(a)
    BY <2>22
    DEF AliveAt, Over, IInv, HarnessInv, TypeInv, HarnessTypes, WhyAt,
       Stopping, Release, libraryVars, Goto
  <2>23. CASE HarnessClosed(a)
    BY <2>23
    DEF AliveAt, Over, IInv, HarnessInv, TypeInv, HarnessTypes, WhyAt,
       Stopping, HarnessClosed, libraryVars, CleanUp, None, NoChange, EmptyBox
  <2>24. ASSUME RejectWaiting(a)
       PROVE  AliveAt(b)'
    <3>1. UNCHANGED <<hpc, why, alive>>
      BY <2>24
      DEF RejectWaiting, harnessVars, libraryVars, stepVars
    <3> QED BY <3>1  DEF AliveAt, Over, IInv, HarnessInv, TypeInv, HarnessTypes, WhyAt,
         Stopping
  <2> QED BY <1>1, <2>1, <2>2, <2>3, <2>4, <2>5, <2>6, <2>7, <2>8, <2>9,
   <2>10, <2>11, <2>12, <2>13, <2>14, <2>15, <2>16, <2>17, <2>18, <2>19,
   <2>20, <2>21, <2>22, <2>23, <2>24 DEF HarnessStep
<1>2. ASSUME NEW a \in Agents, LibraryStep(a) PROVE AliveAt(b)'
  <2>1. ASSUME (\E result \in Outcomes : TurnEnds(a, result)) \/ EventsEnd(a) \/
              EventsDone(a)
       PROVE  AliveAt(b)'
    <3>1. UNCHANGED <<hpc, why, alive>>
      BY <2>1
      DEF TurnEnds, stepVars, libraryVars, EventsEnd, harnessVars, EventsDone
    <3> QED BY <3>1  DEF AliveAt, Over, IInv, HarnessInv, TypeInv, HarnessTypes, WhyAt,
         Stopping
  <2> QED BY <1>2, <2>1 DEF LibraryStep
<1>3. ASSUME NEW c \in Calls, CallStep(c) \/ CallDropped(c) PROVE AliveAt(b)'
  <2>1. ASSUME NEW a \in Agents, SpawnInsert(c, a) PROVE AliveAt(b)'
    BY <2>1
    DEF AliveAt, Over, IInv, HarnessInv, TypeInv, HarnessTypes, WhyAt,
       Stopping, SpawnInv, AbsentAt, SpawnInsert, stepVars, Goto,
       InsertRefused, ParentStopped, Stopped, Root
  <2>2. CASE FinishLate(c)
    BY <2>2
    DEF AliveAt, Over, IInv, HarnessInv, TypeInv, HarnessTypes, WhyAt,
       Stopping, FinishLate, CleanUp, AllInactive, Unfinished, None, NoChange,
       EmptyBox
  <2>3. ASSUME SpawnReserveId(c) \/ SpawnFails(c) \/ SpawnReturns(c) \/ (\E a \in
              Agents : SpawnLaunch(c, a)) \/ StopSend(c) \/ InterruptReturns(c) \/
              CloseInactive(c) \/ FinishClose(c) \/ CloseReturns(c) \/ SendCommit(c)
              \/ SendReturns(c) \/ CallDropped(c)
       PROVE  AliveAt(b)'
    <3>1. UNCHANGED <<hpc, why, alive>>
      BY <2>3
      DEF SpawnReserveId, harnessVars, libraryVars, stepVars, SpawnFails,
         SpawnReturns, OnlyCalls, SpawnLaunch, StopSend, InterruptReturns,
         CloseInactive, FinishClose, CloseReturns, SendCommit, SendReturns,
         CallDropped
    <3> QED BY <3>1  DEF AliveAt, Over, IInv, HarnessInv, TypeInv, HarnessTypes, WhyAt,
         Stopping
  <2> QED BY <1>3, <2>1, <2>2, <2>3 DEF CallStep
<1>4. ASSUME NEW c \in Calls, NEW session \in Sessions, CallBegins(c, session) PROVE AliveAt(b)'
  <2>1. ASSUME SpawnReserveTurn(c, session) \/ (\E operation \in Stops, target \in
              Sessions : StopRequest(c, session, operation, target)) \/ (\E a \in
              Agents, urgent \in BOOLEAN, delegate \in BOOLEAN : SendPrepare(c,
              session, a, urgent, delegate))
       PROVE  AliveAt(b)'
    <3>1. UNCHANGED <<hpc, why, alive>>
      BY <2>1
      DEF SpawnReserveTurn, harnessVars, libraryVars, stepVars, StopRequest,
         SendPrepare
    <3> QED BY <3>1  DEF AliveAt, Over, IInv, HarnessInv, TypeInv, HarnessTypes, WhyAt,
         Stopping
  <2> QED BY <1>4, <2>1 DEF CallBegins
<1>5. ASSUME Disturbance PROVE AliveAt(b)'
  <2>1. ASSUME NEW a \in Agents, DriverDies(a) PROVE AliveAt(b)'
    BY <2>1
    DEF AliveAt, Over, IInv, HarnessInv, TypeInv, HarnessTypes, WhyAt,
       Stopping, DriverDies, harnessVars, stepVars
  <2>2. ASSUME (\E c \in Calls : StopTimesOut(c)) \/ (\E c \in Calls :
              JoinTimesOut(c)) \/ (\E a \in Agents : Submit(a)) \/ (\E n \in Limits
              : SetLimit(n))
       PROVE  AliveAt(b)'
    <3>1. UNCHANGED <<hpc, why, alive>>
      BY <2>2
      DEF StopTimesOut, OnlyCalls, harnessVars, libraryVars, stepVars,
         JoinTimesOut, Submit, SetLimit
    <3> QED BY <3>1  DEF AliveAt, Over, IInv, HarnessInv, TypeInv, HarnessTypes, WhyAt,
         Stopping
  <2> QED BY <1>5, <2>1, <2>2 DEF Disturbance
<1> QED BY <1>1, <1>2, <1>3, <1>4, <1>5 DEF Next

LEMMA AbsentAtKept ==
  ASSUME IInv, NEW b \in Agents, Next
  PROVE  AbsentAt(b)'
<1>1. ASSUME NEW a \in Agents, HarnessStep(a) PROVE AbsentAt(b)'
  <2>1. CASE TakeStart(a)
    BY <2>1
    DEF AbsentAt, IInv, HarnessInv, TypeInv, HarnessTypes, SessionTypes,
       ChannelTypes, TakeStart, None, turnVars, ownerVars, libraryVars,
       CanStartTurn, Prompting, IsCommand, Startable, Goto, OpenTurn
  <2>2. CASE PromptAccepted(a)
    BY <2>2
    DEF AbsentAt, IInv, HarnessInv, TypeInv, HarnessTypes, SessionTypes,
       ChannelTypes, PromptAccepted, None, sessionVars, channelVars,
       libraryVars, NoChange, Goto, ownerVars, turnVars
  <2>3. CASE PromptFailed(a)
    BY <2>3
    DEF AbsentAt, IInv, HarnessInv, TypeInv, HarnessTypes, SessionTypes,
       ChannelTypes, PromptFailed, None, ownerVars, channelVars, libraryVars,
       EndTurn, Goto, RollbackDelegation, Stopped, NoChange
  <2>4. CASE TakeDelivery(a)
    BY <2>4
    DEF AbsentAt, IInv, HarnessInv, TypeInv, HarnessTypes, SessionTypes,
       ChannelTypes, TakeDelivery, sessionVars, libraryVars, EmptyBox, Goto,
       NoCommand, ownerVars, turnVars
  <2>5. CASE Abandoned(a)
    BY <2>5
    DEF AbsentAt, IInv, HarnessInv, TypeInv, HarnessTypes, SessionTypes,
       ChannelTypes, Abandoned, None, sessionVars, channelVars, libraryVars,
       Goto, ownerVars, turnVars
  <2>6. ASSUME NEW m \in Messages, Steer(a, m) PROVE AbsentAt(b)'
    BY <2>6
    DEF AbsentAt, IInv, HarnessInv, TypeInv, HarnessTypes, SessionTypes,
       ChannelTypes, Steer, ownerVars, channelVars, libraryVars, Goto,
       BeginDelegation, Accepting, Steerable, NoChange
  <2>7. ASSUME NEW m \in Messages, DeliverStart(a, m) PROVE AbsentAt(b)'
    BY <2>7
    DEF AbsentAt, IInv, HarnessInv, TypeInv, HarnessTypes, SessionTypes,
       ChannelTypes, DeliverStart, None, turnVars, ownerVars, channelVars,
       libraryVars, CanStartTurn, Goto, BeginDelegation, Prompting, Accepting,
       Steerable, CanDeliver, Startable, NoChange, OpenTurn, EmptyBox,
       CanReserve
  <2>8. ASSUME NEW m \in Messages, DeliverQueue(a, m) PROVE AbsentAt(b)'
    BY <2>8
    DEF AbsentAt, IInv, HarnessInv, TypeInv, HarnessTypes, SessionTypes,
       ChannelTypes, DeliverQueue, sessionVars, channelVars, libraryVars,
       Accepting, Steerable, QueueDelivery, CanDeliver, ownerVars, turnVars,
       None, Goto, EmptyBox, CanReserve
  <2>9. CASE SteerAdmitted(a)
    BY <2>9
    DEF AbsentAt, IInv, HarnessInv, TypeInv, HarnessTypes, SessionTypes,
       ChannelTypes, SteerAdmitted, None, ownerVars, channelVars, libraryVars,
       NoChange, Goto, FinishSteer
  <2>10. CASE SteerRefused(a)
    BY <2>10
    DEF AbsentAt, IInv, HarnessInv, TypeInv, HarnessTypes, SessionTypes,
       ChannelTypes, SteerRefused, ownerVars, channelVars, libraryVars,
       RollbackDelegation, FinishSteer, QueueDelivery, NoChange, None, Goto
  <2>11. CASE SteerFailed(a)
    BY <2>11
    DEF AbsentAt, IInv, HarnessInv, TypeInv, HarnessTypes, SessionTypes,
       ChannelTypes, SteerFailed, None, ownerVars, channelVars, libraryVars,
       Goto, RollbackDelegation, FinishSteer, NoChange
  <2>12. CASE CapacityChanged(a)
    BY <2>12
    DEF AbsentAt, IInv, HarnessInv, TypeInv, HarnessTypes, SessionTypes,
       ChannelTypes, CapacityChanged, sessionVars, channelVars, libraryVars,
       EmptyBox, Goto, NoCommand, ownerVars, turnVars
  <2>13. CASE StartPending(a)
    BY <2>13
    DEF AbsentAt, IInv, HarnessInv, TypeInv, HarnessTypes, SessionTypes,
       ChannelTypes, StartPending, turnVars, ownerVars, channelVars,
       libraryVars, EmptyBox, CanReserve, CanStartTurn, BeginDelegation,
       Prompting, Startable, NoChange, Goto, OpenTurn
  <2>14. CASE StopPending(a)
    BY <2>14
    DEF AbsentAt, IInv, HarnessInv, TypeInv, HarnessTypes, SessionTypes,
       ChannelTypes, StopPending, sessionVars, channelVars, libraryVars,
       EmptyBox, CanReserve, Goto, ownerVars, turnVars
  <2>15. CASE TurnFinished(a)
    BY <2>15
    DEF AbsentAt, IInv, HarnessInv, TypeInv, HarnessTypes, SessionTypes,
       ChannelTypes, TurnFinished, sessionVars, channelVars, libraryVars,
       EmptyBox, Goto, NoCommand, TurnOver, ownerVars, turnVars
  <2>16. CASE Publish(a)
    BY <2>16
    DEF AbsentAt, IInv, HarnessInv, TypeInv, HarnessTypes, SessionTypes,
       ChannelTypes, Publish, ownerVars, channelVars, libraryVars, Goto,
       PublishResult, turnVars, EndTurn, Stopped
  <2>17. CASE TakeStop(a)
    BY <2>17
    DEF AbsentAt, IInv, HarnessInv, TypeInv, HarnessTypes, SessionTypes,
       ChannelTypes, TakeStop, sessionVars, libraryVars, Goto, IsCommand,
       ownerVars, turnVars
  <2>18. CASE RejectWaiting(a)
    BY <2>18
    DEF AbsentAt, IInv, HarnessInv, TypeInv, HarnessTypes, SessionTypes,
       ChannelTypes, RejectWaiting, sessionVars, harnessVars, libraryVars,
       Rejecting, ownerVars, turnVars
  <2>19. CASE UrgentRejected(a)
    BY <2>19
    DEF AbsentAt, IInv, HarnessInv, TypeInv, HarnessTypes, SessionTypes,
       ChannelTypes, UrgentRejected, sessionVars, channelVars, libraryVars,
       Goto, ownerVars, turnVars
  <2>20. CASE AllRejected(a)
    BY <2>20
    DEF AbsentAt, IInv, HarnessInv, TypeInv, HarnessTypes, SessionTypes,
       ChannelTypes, AllRejected, sessionVars, channelVars, libraryVars, Goto,
       FailPending, ownerVars, turnVars, EmptyBox
  <2>21. CASE Shutdown(a)
    BY <2>21
    DEF AbsentAt, IInv, HarnessInv, TypeInv, HarnessTypes, SessionTypes,
       ChannelTypes, Shutdown, sessionVars, channelVars, Goto, ownerVars,
       turnVars
  <2>22. CASE FinishActive(a)
    BY <2>22
    DEF AbsentAt, IInv, HarnessInv, TypeInv, HarnessTypes, SessionTypes,
       ChannelTypes, FinishActive, ownerVars, channelVars, libraryVars, Goto,
       TurnOver, PublishResult, turnVars, EndTurn, Stopped
  <2>23. CASE Release(a)
    BY <2>23
    DEF AbsentAt, IInv, HarnessInv, TypeInv, HarnessTypes, SessionTypes,
       ChannelTypes, Release, sessionVars, channelVars, libraryVars, Goto,
       ownerVars, turnVars
  <2>24. CASE HarnessClosed(a)
    BY <2>24
    DEF AbsentAt, IInv, HarnessInv, TypeInv, HarnessTypes, SessionTypes,
       ChannelTypes, HarnessClosed, ownerVars, libraryVars, MarkClosed,
       CleanUp, turnVars, None, NoChange, EmptyBox
  <2> QED BY <1>1, <2>1, <2>2, <2>3, <2>4, <2>5, <2>6, <2>7, <2>8, <2>9,
   <2>10, <2>11, <2>12, <2>13, <2>14, <2>15, <2>16, <2>17, <2>18, <2>19,
   <2>20, <2>21, <2>22, <2>23, <2>24 DEF HarnessStep
<1>2. ASSUME NEW a \in Agents, LibraryStep(a) PROVE AbsentAt(b)'
  <2>1. CASE EventsEnd(a)
    BY <2>1
    DEF AbsentAt, IInv, HarnessInv, TypeInv, HarnessTypes, SessionTypes,
       ChannelTypes, EventsEnd, Stopped, turnVars, ownerVars, harnessVars,
       MarkClosed
  <2>2. CASE EventsDone(a)
    BY <2>2
    DEF AbsentAt, IInv, HarnessInv, TypeInv, HarnessTypes, SessionTypes,
       ChannelTypes, EventsDone, sessionVars, harnessVars, channelVars,
       ownerVars, turnVars
  <2>3. ASSUME (\E result \in Outcomes : TurnEnds(a, result))
       PROVE  AbsentAt(b)'
    <3>1. UNCHANGED <<status, slot, task, handle, hpc, queued, commands, mailbox, alive,
           events>>
      BY <2>3
      DEF TurnEnds, sessionVars, channelVars, libraryVars, ownerVars, turnVars
    <3> QED BY <3>1  DEF AbsentAt, IInv, HarnessInv, TypeInv, HarnessTypes, SessionTypes,
         ChannelTypes
  <2> QED BY <1>2, <2>1, <2>2, <2>3 DEF LibraryStep
<1>3. ASSUME NEW c \in Calls, CallStep(c) \/ CallDropped(c) PROVE AbsentAt(b)'
  <2>1. ASSUME NEW a \in Agents, SpawnInsert(c, a) PROVE AbsentAt(b)'
    BY <2>1
    DEF AbsentAt, IInv, HarnessInv, TypeInv, HarnessTypes, SessionTypes,
       ChannelTypes, SpawnInv, TurnAt, SpawnInsert, channelVars, Goto,
       InsertRefused, ParentStopped, Stopped, Root
  <2>2. ASSUME NEW a \in Agents, SpawnLaunch(c, a) PROVE AbsentAt(b)'
    BY <2>2
    DEF AbsentAt, IInv, HarnessInv, TypeInv, HarnessTypes, SessionTypes,
       ChannelTypes, SpawnLaunch, sessionVars, harnessVars, libraryVars,
       ownerVars, turnVars
  <2>3. CASE StopSend(c)
    BY <2>3
    DEF AbsentAt, IInv, HarnessInv, TypeInv, HarnessTypes, SessionTypes,
       ChannelTypes, CloseInv, Born, StopSend, sessionVars, harnessVars,
       libraryVars, ownerVars, turnVars
  <2>4. CASE FinishClose(c)
    BY <2>4
    DEF AbsentAt, IInv, HarnessInv, TypeInv, HarnessTypes, SessionTypes,
       ChannelTypes, CloseInv, ClosingPoints, CoverInv, Born, FinishClose,
       ownerVars, harnessVars, channelVars, libraryVars, AllInactive
  <2>5. CASE FinishLate(c)
    BY <2>5
    DEF AbsentAt, IInv, HarnessInv, TypeInv, HarnessTypes, SessionTypes,
       ChannelTypes, CloseInv, ClosingPoints, CoverInv, Born, FinishLate,
       CleanUp, AllInactive, Unfinished, None, NoChange, EmptyBox
  <2>6. ASSUME SpawnReserveId(c) \/ SpawnFails(c) \/ SpawnReturns(c) \/
              InterruptReturns(c) \/ CloseInactive(c) \/ CloseReturns(c) \/
              SendCommit(c) \/ SendReturns(c) \/ CallDropped(c)
       PROVE  AbsentAt(b)'
    <3>1. UNCHANGED <<status, slot, task, handle, hpc, queued, commands, mailbox, alive,
           events>>
      BY <2>6
      DEF SpawnReserveId, turnVars, ownerVars, harnessVars, channelVars,
         libraryVars, SpawnFails, sessionVars, SpawnReturns, OnlyCalls,
         InterruptReturns, CloseInactive, CloseReturns, SendCommit,
         SendReturns, CallDropped
    <3> QED BY <3>1  DEF AbsentAt, IInv, HarnessInv, TypeInv, HarnessTypes, SessionTypes,
         ChannelTypes
  <2> QED BY <1>3, <2>1, <2>2, <2>3, <2>4, <2>5, <2>6 DEF CallStep
<1>4. ASSUME NEW c \in Calls, NEW session \in Sessions, CallBegins(c, session) PROVE AbsentAt(b)'
  <2>1. ASSUME NEW operation \in Stops, NEW target \in Sessions, StopRequest(c, session, operation, target) PROVE AbsentAt(b)'
    <3>1. \A a \in ids'[c] : a \in Born
      BY <2>1, SubtreeIsBorn DEF StopRequest, IInv, TypeInv, CallTypes
    <3>2. (status[b] = "absent") <=> (status'[b] = "absent")
      BY <2>1, <3>1 DEF StopRequest, IInv, TypeInv, SessionTypes, Born
    <3>3. UNCHANGED <<slot, task, handle, hpc, queued, commands, mailbox, alive, events>>
      BY <2>1 DEF StopRequest, ownerVars, harnessVars, channelVars, libraryVars
    <3> QED
      BY <3>2, <3>3 DEF AbsentAt, IInv, HarnessInv
  <2>2. ASSUME NEW a \in Agents, NEW urgent \in BOOLEAN, NEW delegate \in BOOLEAN, SendPrepare(c, session, a, urgent, delegate) PROVE AbsentAt(b)'
    BY <2>2
    DEF AbsentAt, IInv, HarnessInv, TypeInv, HarnessTypes, SessionTypes,
       ChannelTypes, Born, SendPrepare, sessionVars, harnessVars, libraryVars,
       Begins, MayReceive, ownerVars, turnVars, MayCall, Stopped, Root
  <2>3. ASSUME SpawnReserveTurn(c, session)
       PROVE  AbsentAt(b)'
    <3>1. UNCHANGED <<status, slot, task, handle, hpc, queued, commands, mailbox, alive,
           events>>
      BY <2>3
      DEF SpawnReserveTurn, sessionVars, harnessVars, channelVars,
         libraryVars, ownerVars, turnVars
    <3> QED BY <3>1  DEF AbsentAt, IInv, HarnessInv, TypeInv, HarnessTypes, SessionTypes,
         ChannelTypes
  <2> QED BY <1>4, <2>1, <2>2, <2>3 DEF CallBegins
<1>5. ASSUME Disturbance PROVE AbsentAt(b)'
  <2>1. ASSUME NEW c \in Calls, JoinTimesOut(c) PROVE AbsentAt(b)'
    BY <2>1
    DEF AbsentAt, IInv, HarnessInv, TypeInv, HarnessTypes, SessionTypes,
       ChannelTypes, CloseInv, Born, JoinTimesOut, sessionVars, harnessVars,
       channelVars, ownerVars, turnVars
  <2>2. ASSUME NEW a \in Agents, Submit(a) PROVE AbsentAt(b)'
    BY <2>2
    DEF AbsentAt, IInv, HarnessInv, TypeInv, HarnessTypes, SessionTypes,
       ChannelTypes, TurnAt, Submit, ownerVars, harnessVars, channelVars,
       libraryVars
  <2>3. ASSUME NEW a \in Agents, DriverDies(a) PROVE AbsentAt(b)'
    BY <2>3
    DEF AbsentAt, IInv, HarnessInv, TypeInv, HarnessTypes, SessionTypes,
       ChannelTypes, DriverDies, sessionVars, harnessVars, channelVars,
       ownerVars, turnVars
  <2>4. ASSUME (\E c \in Calls : StopTimesOut(c)) \/ (\E n \in Limits : SetLimit(n))
       PROVE  AbsentAt(b)'
    <3>1. UNCHANGED <<status, slot, task, handle, hpc, queued, commands, mailbox, alive,
           events>>
      BY <2>4
      DEF StopTimesOut, OnlyCalls, channelVars, harnessVars, libraryVars,
         sessionVars, ownerVars, turnVars, SetLimit
    <3> QED BY <3>1  DEF AbsentAt, IInv, HarnessInv, TypeInv, HarnessTypes, SessionTypes,
         ChannelTypes
  <2> QED BY <1>5, <2>1, <2>2, <2>3, <2>4 DEF Disturbance
<1> QED BY <1>1, <1>2, <1>3, <1>4, <1>5 DEF Next

LEMMA ReachedStays ==
  ASSUME TypeInv, NEW d \in Calls, NEW kind, Next
  PROVE  Reached(d, kind) => Reached(d, kind)'
<1>1. ASSUME NEW a \in Agents, HarnessStep(a) PROVE Reached(d, kind) => Reached(d, kind)'
  <2>1. ASSUME TakeStart(a) \/ PromptAccepted(a) \/ PromptFailed(a) \/
              TakeDelivery(a) \/ Abandoned(a) \/ (\E m \in Messages : Steer(a, m))
              \/ (\E m \in Messages : DeliverStart(a, m)) \/ (\E m \in Messages :
              DeliverQueue(a, m)) \/ SteerAdmitted(a) \/ SteerRefused(a) \/
              SteerFailed(a) \/ CapacityChanged(a) \/ StartPending(a) \/
              StopPending(a) \/ TurnFinished(a) \/ Publish(a) \/ TakeStop(a) \/
              RejectWaiting(a) \/ UrgentRejected(a) \/ AllRejected(a) \/ Shutdown(a)
              \/ FinishActive(a) \/ Release(a) \/ HarnessClosed(a)
       PROVE  Reached(d, kind) => Reached(d, kind)'
    <3>1. UNCHANGED <<cpc>>
      BY <2>1
      DEF TakeStart, PromptAccepted, PromptFailed, TakeDelivery, callVars,
         Abandoned, Steer, DeliverStart, DeliverQueue, SteerAdmitted,
         SteerRefused, SteerFailed, CapacityChanged, StartPending,
         StopPending, TurnFinished, Publish, TakeStop, RejectWaiting,
         UrgentRejected, AllRejected, Shutdown, FinishActive, Release,
         HarnessClosed
    <3> QED BY <3>1  DEF Reached, TypeInv, CallTypes
  <2> QED BY <1>1, <2>1 DEF HarnessStep
<1>2. ASSUME NEW a \in Agents, LibraryStep(a) PROVE Reached(d, kind) => Reached(d, kind)'
  <2>1. ASSUME (\E result \in Outcomes : TurnEnds(a, result)) \/ EventsEnd(a) \/
              EventsDone(a)
       PROVE  Reached(d, kind) => Reached(d, kind)'
    <3>1. UNCHANGED <<cpc>>
      BY <2>1
      DEF TurnEnds, callVars, EventsEnd, EventsDone
    <3> QED BY <3>1  DEF Reached, TypeInv, CallTypes
  <2> QED BY <1>2, <2>1 DEF LibraryStep
<1>3. ASSUME NEW c \in Calls, CallStep(c) \/ CallDropped(c) PROVE Reached(d, kind) => Reached(d, kind)'
  <2>1. CASE SpawnReserveId(c)
    BY <2>1
    DEF Reached, TypeInv, CallTypes, SpawnReserveId, CallAt, ParentStopped,
       Stopped, Root
  <2>2. CASE SpawnFails(c)
    BY <2>2
    DEF Reached, TypeInv, CallTypes, SpawnFails, CallAt, InsertRefused,
       ParentStopped, Stopped, Root
  <2>3. CASE SpawnReturns(c)
    BY <2>3
    DEF Reached, TypeInv, CallTypes, SpawnReturns, CallAt, Answered
  <2>4. ASSUME NEW a \in Agents, SpawnInsert(c, a) PROVE Reached(d, kind) => Reached(d, kind)'
    BY <2>4
    DEF Reached, TypeInv, CallTypes, SpawnInsert, CallAt, InsertRefused,
       ParentStopped, Stopped, Root
  <2>5. ASSUME NEW a \in Agents, SpawnLaunch(c, a) PROVE Reached(d, kind) => Reached(d, kind)'
    BY <2>5
    DEF Reached, TypeInv, CallTypes, SpawnLaunch, CallAt
  <2>6. CASE StopSend(c)
    BY <2>6
    DEF Reached, TypeInv, CallTypes, StopSend, CallAt
  <2>7. CASE InterruptReturns(c)
    BY <2>7
    DEF Reached, TypeInv, CallTypes, InterruptReturns, Answered, AllInactive,
       Returns, CallAt
  <2>8. CASE CloseInactive(c)
    BY <2>8
    DEF Reached, TypeInv, CallTypes, CloseInactive, CallAt, Answered,
       AllInactive
  <2>9. CASE FinishClose(c)
    BY <2>9
    DEF Reached, TypeInv, CallTypes, FinishClose, CallAt, AllInactive, Returns
  <2>10. CASE CloseReturns(c)
    BY <2>10
    DEF Reached, TypeInv, CallTypes, CloseReturns, Returns, CallAt
  <2>11. CASE FinishLate(c)
    BY <2>11
    DEF Reached, TypeInv, CallTypes, FinishLate, AllInactive, Returns,
       Unfinished, CallAt
  <2>12. CASE SendCommit(c)
    BY <2>12
    DEF Reached, TypeInv, CallTypes, SendCommit, CallAt
  <2>13. CASE SendReturns(c)
    BY <2>13
    DEF Reached, TypeInv, CallTypes, SendReturns, Returns, Delivered, CallAt
  <2>14. CASE CallDropped(c)
    BY <2>14
    DEF Reached, TypeInv, CallTypes, CallDropped, Root, CallAt, Holding
  <2> QED BY <1>3, <2>1, <2>2, <2>3, <2>4, <2>5, <2>6, <2>7, <2>8, <2>9,
   <2>10, <2>11, <2>12, <2>13, <2>14 DEF CallStep
<1>4. ASSUME NEW c \in Calls, NEW session \in Sessions, CallBegins(c, session) PROVE Reached(d, kind) => Reached(d, kind)'
  <2>1. CASE SpawnReserveTurn(c, session)
    BY <2>1
    DEF Reached, TypeInv, CallTypes, SpawnReserveTurn, CanReserve, CallAt,
       Begins, MayCall, Root
  <2>2. ASSUME NEW operation \in Stops, NEW target \in Sessions, StopRequest(c, session, operation, target) PROVE Reached(d, kind) => Reached(d, kind)'
    BY <2>2
    DEF Reached, TypeInv, CallTypes, StopRequest, Root, Stops, CallAt, Begins,
       MayCall
  <2>3. ASSUME NEW a \in Agents, NEW urgent \in BOOLEAN, NEW delegate \in BOOLEAN, SendPrepare(c, session, a, urgent, delegate) PROVE Reached(d, kind) => Reached(d, kind)'
    BY <2>3
    DEF Reached, TypeInv, CallTypes, SendPrepare, CallAt, Begins, MayReceive,
       MayCall, Stopped, Root
  <2> QED BY <1>4, <2>1, <2>2, <2>3 DEF CallBegins
<1>5. ASSUME Disturbance PROVE Reached(d, kind) => Reached(d, kind)'
  <2>1. ASSUME NEW c \in Calls, StopTimesOut(c) PROVE Reached(d, kind) => Reached(d, kind)'
    BY <2>1
    DEF Reached, TypeInv, CallTypes, StopTimesOut, CallAt, AllInactive,
       Returns
  <2>2. ASSUME NEW c \in Calls, JoinTimesOut(c) PROVE Reached(d, kind) => Reached(d, kind)'
    BY <2>2
    DEF Reached, TypeInv, CallTypes, JoinTimesOut, Returns, CallAt
  <2>3. ASSUME (\E a \in Agents : Submit(a)) \/ (\E a \in Agents : DriverDies(a)) \/
              (\E n \in Limits : SetLimit(n))
       PROVE  Reached(d, kind) => Reached(d, kind)'
    <3>1. UNCHANGED <<cpc>>
      BY <2>3
      DEF Submit, callVars, DriverDies, SetLimit
    <3> QED BY <3>1  DEF Reached, TypeInv, CallTypes
  <2> QED BY <1>5, <2>1, <2>2, <2>3 DEF Disturbance
<1> QED BY <1>1, <1>2, <1>3, <1>4, <1>5 DEF Next

LEMMA CommandInvKept ==
  ASSUME IInv, Next
  PROVE  CommandInv'
<1>calls. \A d \in Calls : \A kind : Reached(d, kind) => Reached(d, kind)'
  BY ReachedStays DEF IInv
<1>askers. \A b \in Agents : asker[b] \in Calls \cup {Nobody}
  BY DEF IInv, TypeInv, HarnessTypes
<1>1. ASSUME NEW a \in Agents, HarnessStep(a) PROVE CommandInv'
  <2>1. CASE TakeStart(a)
    <3>1. commands[a] # << >> /\ CommandTaken(a)
      BY <2>1 DEF TakeStart, IsCommand, CommandTaken
    <3>2. /\ Head(commands[a]) = commands[a][1] /\ 1 \in DOMAIN commands[a]
          /\ \A b \in Agents : \A i \in DOMAIN commands'[b] :
               LET j == IF b = a THEN i + 1 ELSE i IN
               j \in DOMAIN commands[b] /\ commands'[b][i] = commands[b][j]
          /\ \A i \in DOMAIN commands'[a] : i \in Nat /\ i > 0
      BY <3>1, TakenCommand DEF IInv, TypeInv
    <3>3. asker'[a] # Nobody => \/ asker'[a] = asker[a] /\ why'[a] = why[a]
                                \/ asker'[a] = commands[a][1].from /\ commands[a][1].kind = "start" /\ why'[a] = "start"
      BY <2>1, <3>2 DEF IInv, TypeInv, HarnessTypes, TakeStart, IsCommand, Prompting
    <3>4. \A b \in Agents \ {a} : asker'[b] = asker[b] /\ why'[b] = why[b]
      BY <2>1 DEF TakeStart, IInv, TypeInv, HarnessTypes, Prompting
    <3> QED
      BY <3>2, <3>3, <3>4, <1>calls, <1>askers DEF IInv, CommandInv
  <2>2. CASE PromptAccepted(a)
    BY <2>2, <1>calls, <1>askers
    DEF CommandInv, IInv, TypeInv, HarnessTypes, ChannelTypes, PromptAccepted,
       None, channelVars, NoChange
  <2>3. CASE PromptFailed(a)
    BY <2>3, <1>calls, <1>askers
    DEF CommandInv, IInv, TypeInv, HarnessTypes, ChannelTypes, PromptFailed,
       None, channelVars
  <2>4. ASSUME NEW m \in Messages, DeliverStart(a, m) PROVE CommandInv'
    BY <2>4, <1>calls, <1>askers
    DEF CommandInv, IInv, TypeInv, HarnessTypes, HarnessInv, WhyAt, Stopping,
       DeliverStart, None, channelVars, CanStartTurn, Prompting, Accepting,
       Steerable, CanDeliver, Startable, EmptyBox, CanReserve
  <2>5. CASE StartPending(a)
    BY <2>5, <1>calls, <1>askers
    DEF CommandInv, IInv, TypeInv, HarnessTypes, HarnessInv, WhyAt, Stopping,
       StartPending, channelVars, EmptyBox, CanReserve, CanStartTurn,
       Prompting, Startable
  <2>6. CASE TakeStop(a)
    <3>1. commands[a] # << >> /\ CommandTaken(a)
      BY <2>6 DEF TakeStop, IsCommand, CommandTaken
    <3>2. /\ Head(commands[a]) = commands[a][1] /\ 1 \in DOMAIN commands[a]
          /\ \A b \in Agents : \A i \in DOMAIN commands'[b] :
               LET j == IF b = a THEN i + 1 ELSE i IN
               j \in DOMAIN commands[b] /\ commands'[b][i] = commands[b][j]
          /\ \A i \in DOMAIN commands'[a] : i \in Nat /\ i > 0
      BY <3>1, TakenCommand DEF IInv, TypeInv
    <3>3. /\ asker' = [asker EXCEPT ![a] = commands[a][1].from]
          /\ why' = [why EXCEPT ![a] = commands[a][1].kind]
      BY <2>6, <3>2 DEF TakeStop
    <3> QED
      BY <3>2, <3>3, <1>calls, <1>askers DEF IInv, CommandInv, TypeInv, HarnessTypes
  <2>7. CASE AllRejected(a)
    BY <2>7, <1>calls, <1>askers
    DEF CommandInv, IInv, TypeInv, HarnessTypes, ChannelTypes, AllRejected,
       channelVars
  <2>8. CASE Release(a)
    BY <2>8, <1>calls, <1>askers
    DEF CommandInv, IInv, TypeInv, HarnessTypes, ChannelTypes, Release,
       channelVars
  <2>9. CASE HarnessClosed(a)
    BY <2>9, <1>calls, <1>askers
    DEF CommandInv, IInv, TypeInv, HarnessTypes, ChannelTypes, HarnessClosed,
       CleanUp, None, NoChange, EmptyBox
  <2>10. ASSUME TakeDelivery(a) \/ Abandoned(a) \/ (\E m \in Messages : Steer(a, m))
              \/ (\E m \in Messages : DeliverQueue(a, m)) \/ SteerAdmitted(a) \/
              SteerRefused(a) \/ SteerFailed(a) \/ CapacityChanged(a) \/
              StopPending(a) \/ TurnFinished(a) \/ Publish(a) \/ RejectWaiting(a) \/
              UrgentRejected(a) \/ Shutdown(a) \/ FinishActive(a)
       PROVE  CommandInv'
    <3>1. UNCHANGED <<why, asker, commands>>
      BY <2>10
      DEF TakeDelivery, Abandoned, channelVars, Steer, DeliverQueue,
         SteerAdmitted, SteerRefused, SteerFailed, CapacityChanged, stepVars,
         StopPending, TurnFinished, Publish, RejectWaiting, harnessVars,
         UrgentRejected, Shutdown, FinishActive
    <3> QED BY <3>1, <1>calls, <1>askers  DEF CommandInv, IInv, TypeInv
  <2> QED BY <1>1, <2>1, <2>2, <2>3, <2>4, <2>5, <2>6, <2>7, <2>8, <2>9, <2>10 DEF HarnessStep
<1>2. ASSUME NEW a \in Agents, LibraryStep(a) PROVE CommandInv'
  <2>1. CASE EventsEnd(a)
    <3> DEFINE command == [kind |-> "close", from |-> Nobody]
    <3>1. command \in Command /\ command.kind = "close" /\ command.from = Nobody
      BY DEF Command
    <3>2. UNCHANGED <<asker, why>>
      BY <2>1 DEF EventsEnd, harnessVars, stepVars
    <3>3. commands' = commands \/ CommandSent({a}, command)
      BY <2>1, EventsSend DEF IInv, TypeInv
    <3> HIDE DEF command
    <3>4. \A b \in Agents : \A i \in DOMAIN commands'[b] :
            (i \in DOMAIN commands[b] /\ commands'[b][i] = commands[b][i]) \/ commands'[b][i] = command
      BY <3>1, <3>3, SentCommand DEF IInv, TypeInv
    <3> QED
      BY <3>1, <3>2, <3>4, <1>calls, <1>askers DEF IInv, CommandInv
  <2>2. ASSUME (\E result \in Outcomes : TurnEnds(a, result)) \/ EventsDone(a)
       PROVE  CommandInv'
    <3>1. UNCHANGED <<why, asker, commands>>
      BY <2>2
      DEF TurnEnds, stepVars, channelVars, EventsDone, harnessVars
    <3> QED BY <3>1, <1>calls, <1>askers  DEF CommandInv, IInv, TypeInv
  <2> QED BY <1>2, <2>1, <2>2 DEF LibraryStep
<1>3. ASSUME NEW c \in Calls, CallStep(c) \/ CallDropped(c) PROVE CommandInv'
  <2>1. ASSUME NEW a \in Agents, SpawnLaunch(c, a) PROVE CommandInv'
    <3> DEFINE command == [kind |-> "start", from |-> c]
    <3>1. command \in Command /\ command.kind = "start" /\ command.from = c
      BY DEF Command
    <3>2. UNCHANGED <<asker, why>>
      BY <2>1 DEF SpawnLaunch, harnessVars, stepVars
    <3>3. CASE commands' = commands
      BY <3>2, <3>3, <1>calls, <1>askers DEF IInv, CommandInv
    <3>4. CASE commands' # commands
      <4>1. CommandSent({a}, command) /\ cpc' = [cpc EXCEPT ![c] = "spawn_wait"]
        BY <2>1, <3>4, SpawnSends DEF IInv, TypeInv
      <4>2. c # Nobody /\ Reached(c, "start")'
        BY <4>1, SubagentAssumption DEF Reached, IInv, TypeInv, CallTypes
      <4> HIDE DEF command
      <4>3. \A b \in Agents : \A i \in DOMAIN commands'[b] :
              (i \in DOMAIN commands[b] /\ commands'[b][i] = commands[b][i]) \/ commands'[b][i] = command
        BY <3>1, <4>1, SentCommand DEF IInv, TypeInv
      <4> QED
        BY <3>1, <3>2, <4>2, <4>3, <1>calls, <1>askers DEF IInv, CommandInv
    <3> QED
      BY <3>3, <3>4
  <2>2. CASE StopSend(c)
    <3>1. PICK kind \in {"close", "interrupt"} :
            /\ kind = IF cpc[c] = "close_send" THEN "close" ELSE "interrupt"
            /\ cpc' = [cpc EXCEPT ![c] = IF kind = "close" THEN "close_wait" ELSE "interrupt_wait"]
      BY <2>2 DEF StopSend, CallAt
    <3> DEFINE command == [kind |-> kind, from |-> c]
               to == {a \in waits[c] : hpc[a] # "gone"}
    <3>2. command \in Command /\ command.kind = kind /\ command.from = c
      BY DEF Command
    <3>3. CommandSent(to, command)
      BY <2>2, <3>1, StopSends
    <3>4. c # Nobody /\ Reached(c, kind)'
      BY <3>1, SubagentAssumption DEF Reached, IInv, TypeInv, CallTypes
    <3>5. UNCHANGED <<asker, why>>
      BY <2>2 DEF StopSend, harnessVars, stepVars
    <3> HIDE DEF command, to
    <3>6. \A b \in Agents : \A i \in DOMAIN commands'[b] :
            (i \in DOMAIN commands[b] /\ commands'[b][i] = commands[b][i]) \/ commands'[b][i] = command
      BY <3>2, <3>3, SentCommand DEF IInv, TypeInv
    <3> QED
      BY <3>2, <3>4, <3>5, <3>6, <1>calls, <1>askers DEF IInv, CommandInv
  <2>3. CASE FinishLate(c)
    BY <2>3, <1>calls, <1>askers
    DEF CommandInv, IInv, TypeInv, HarnessTypes, ChannelTypes, FinishLate,
       CleanUp, AllInactive, Unfinished, None, NoChange, EmptyBox
  <2>4. ASSUME SpawnReserveId(c) \/ SpawnFails(c) \/ SpawnReturns(c) \/ (\E a \in
              Agents : SpawnInsert(c, a)) \/ InterruptReturns(c) \/ CloseInactive(c)
              \/ FinishClose(c) \/ CloseReturns(c) \/ SendCommit(c) \/
              SendReturns(c) \/ CallDropped(c)
       PROVE  CommandInv'
    <3>1. UNCHANGED <<why, asker, commands>>
      BY <2>4
      DEF SpawnReserveId, harnessVars, channelVars, stepVars, SpawnFails,
         SpawnReturns, OnlyCalls, SpawnInsert, InterruptReturns,
         CloseInactive, FinishClose, CloseReturns, SendCommit, SendReturns,
         CallDropped
    <3> QED BY <3>1, <1>calls, <1>askers  DEF CommandInv, IInv, TypeInv
  <2> QED BY <1>3, <2>1, <2>2, <2>3, <2>4 DEF CallStep
<1>4. ASSUME NEW c \in Calls, NEW session \in Sessions, CallBegins(c, session) PROVE CommandInv'
  <2>1. ASSUME SpawnReserveTurn(c, session) \/ (\E operation \in Stops, target \in
              Sessions : StopRequest(c, session, operation, target)) \/ (\E a \in
              Agents, urgent \in BOOLEAN, delegate \in BOOLEAN : SendPrepare(c,
              session, a, urgent, delegate))
       PROVE  CommandInv'
    <3>1. UNCHANGED <<why, asker, commands>>
      BY <2>1
      DEF SpawnReserveTurn, harnessVars, channelVars, stepVars, StopRequest,
         SendPrepare
    <3> QED BY <3>1, <1>calls, <1>askers  DEF CommandInv, IInv, TypeInv
  <2> QED BY <1>4, <2>1 DEF CallBegins
<1>5. ASSUME Disturbance PROVE CommandInv'
  <2>1. ASSUME (\E c \in Calls : StopTimesOut(c)) \/ (\E c \in Calls :
              JoinTimesOut(c)) \/ (\E a \in Agents : Submit(a)) \/ (\E a \in Agents
              : DriverDies(a)) \/ (\E n \in Limits : SetLimit(n))
       PROVE  CommandInv'
    <3>1. UNCHANGED <<why, asker, commands>>
      BY <2>1
      DEF StopTimesOut, OnlyCalls, channelVars, harnessVars, stepVars,
         JoinTimesOut, Submit, DriverDies, SetLimit
    <3> QED BY <3>1, <1>calls, <1>askers  DEF CommandInv, IInv, TypeInv
  <2> QED BY <1>5, <2>1 DEF Disturbance
<1> QED BY <1>1, <1>2, <1>3, <1>4, <1>5 DEF Next

LEMMA OnceInvKept ==
  ASSUME IInv, Next
  PROVE  OnceInv'
<1>1. ASSUME NEW a \in Agents, HarnessStep(a) PROVE OnceInv'
  <2>1. CASE TakeStart(a)
    <3>1. commands[a] # << >> /\ CommandTaken(a)
      BY <2>1 DEF TakeStart, IsCommand, CommandTaken
    <3>2. /\ Head(commands[a]) = commands[a][1] /\ 1 \in DOMAIN commands[a]
          /\ \A b \in Agents : \A i \in DOMAIN commands'[b] :
               LET j == IF b = a THEN i + 1 ELSE i IN
               j \in DOMAIN commands[b] /\ commands'[b][i] = commands[b][j]
          /\ \A i \in DOMAIN commands'[a] : i \in Nat /\ i > 0
      BY <3>1, TakenCommand DEF IInv, TypeInv
    <3> QED
      BY <3>2 DEF IInv, OnceInv
  <2>2. CASE TakeStop(a)
    <3>1. commands[a] # << >> /\ CommandTaken(a)
      BY <2>2 DEF TakeStop, IsCommand, CommandTaken
    <3>2. /\ Head(commands[a]) = commands[a][1] /\ 1 \in DOMAIN commands[a]
          /\ \A b \in Agents : \A i \in DOMAIN commands'[b] :
               LET j == IF b = a THEN i + 1 ELSE i IN
               j \in DOMAIN commands[b] /\ commands'[b][i] = commands[b][j]
          /\ \A i \in DOMAIN commands'[a] : i \in Nat /\ i > 0
      BY <3>1, TakenCommand DEF IInv, TypeInv
    <3> QED
      BY <3>2 DEF IInv, OnceInv
  <2>3. CASE HarnessClosed(a)
    BY <2>3
    DEF OnceInv, IInv, TypeInv, HarnessClosed, CleanUp, None, NoChange,
       EmptyBox
  <2>4. ASSUME PromptAccepted(a) \/ PromptFailed(a) \/ TakeDelivery(a) \/
              Abandoned(a) \/ (\E m \in Messages : Steer(a, m)) \/ (\E m \in
              Messages : DeliverStart(a, m)) \/ (\E m \in Messages : DeliverQueue(a,
              m)) \/ SteerAdmitted(a) \/ SteerRefused(a) \/ SteerFailed(a) \/
              CapacityChanged(a) \/ StartPending(a) \/ StopPending(a) \/
              TurnFinished(a) \/ Publish(a) \/ RejectWaiting(a) \/ UrgentRejected(a)
              \/ AllRejected(a) \/ Shutdown(a) \/ FinishActive(a) \/ Release(a)
       PROVE  OnceInv'
    <3>1. UNCHANGED <<commands>>
      BY <2>4
      DEF PromptAccepted, channelVars, PromptFailed, TakeDelivery, Abandoned,
         Steer, DeliverStart, DeliverQueue, SteerAdmitted, SteerRefused,
         SteerFailed, CapacityChanged, StartPending, StopPending,
         TurnFinished, Publish, RejectWaiting, UrgentRejected, AllRejected,
         Shutdown, FinishActive, Release
    <3> QED BY <3>1  DEF OnceInv, IInv, TypeInv
  <2> QED BY <1>1, <2>1, <2>2, <2>3, <2>4 DEF HarnessStep
<1>2. ASSUME NEW a \in Agents, LibraryStep(a) PROVE OnceInv'
  <2>1. CASE EventsEnd(a)
    <3> DEFINE command == [kind |-> "close", from |-> Nobody]
    <3>1. command \in Command /\ command.kind # "start"
      BY DEF Command
    <3>2. commands' = commands \/ CommandSent({a}, command)
      BY <2>1, EventsSend DEF IInv, TypeInv
    <3> HIDE DEF command
    <3>3. \A b \in Agents : \A i \in DOMAIN commands'[b] :
            (i \in DOMAIN commands[b] /\ commands'[b][i] = commands[b][i]) \/ commands'[b][i] = command
      BY <3>1, <3>2, SentCommand DEF IInv, TypeInv
    <3> QED
      BY <3>1, <3>3 DEF IInv, OnceInv
  <2>2. ASSUME (\E result \in Outcomes : TurnEnds(a, result)) \/ EventsDone(a)
       PROVE  OnceInv'
    <3>1. UNCHANGED <<commands>>
      BY <2>2
      DEF TurnEnds, channelVars, EventsDone
    <3> QED BY <3>1  DEF OnceInv, IInv, TypeInv
  <2> QED BY <1>2, <2>1, <2>2 DEF LibraryStep
<1>3. ASSUME NEW c \in Calls, CallStep(c) \/ CallDropped(c) PROVE OnceInv'
  <2>1. ASSUME NEW a \in Agents, SpawnLaunch(c, a) PROVE OnceInv'
    <3> DEFINE command == [kind |-> "start", from |-> c]
    <3>1. command \in Command /\ command.kind = "start" /\ command.from = c /\ c # Nobody
      BY SubagentAssumption DEF Command
    <3>2. CASE commands' = commands
      BY <3>2 DEF IInv, OnceInv
    <3>3. CASE commands' # commands
      <4>1. CommandSent({a}, command)
        BY <2>1, <3>3, SpawnSends DEF IInv, TypeInv
      <4>2. \A b \in Agents : \A i \in DOMAIN commands[b] : commands[b][i] # command
        BY <2>1, <3>1 DEF IInv, CommandInv, Reached, SpawnLaunch
      <4> HIDE DEF command
      <4>3. \A b \in Agents : \A i \in DOMAIN commands'[b] :
              \/ i \in DOMAIN commands[b] /\ commands'[b][i] = commands[b][i]
              \/ b = a /\ i = Len(commands[b]) + 1 /\ commands'[b][i] = command
        BY <3>1, <4>1, SentCommand DEF IInv, TypeInv
      <4> QED
        BY <3>1, <4>2, <4>3 DEF IInv, OnceInv
    <3> QED
      BY <3>2, <3>3
  <2>2. CASE StopSend(c)
    <3> DEFINE kind == IF cpc[c] = "close_send" THEN "close" ELSE "interrupt"
               command == [kind |-> kind, from |-> c]
               to == {a \in waits[c] : hpc[a] # "gone"}
    <3>1. command \in Command /\ command.kind # "start"
      BY DEF Command
    <3>2. CommandSent(to, command)
      BY <2>2, StopSends
    <3> HIDE DEF command, to, kind
    <3>3. \A b \in Agents : \A i \in DOMAIN commands'[b] :
            (i \in DOMAIN commands[b] /\ commands'[b][i] = commands[b][i]) \/ commands'[b][i] = command
      BY <3>1, <3>2, SentCommand DEF IInv, TypeInv
    <3> QED
      BY <3>1, <3>3 DEF IInv, OnceInv
  <2>3. CASE FinishLate(c)
    BY <2>3
    DEF OnceInv, IInv, TypeInv, FinishLate, CleanUp, AllInactive, Unfinished,
       None, NoChange, EmptyBox
  <2>4. ASSUME SpawnReserveId(c) \/ SpawnFails(c) \/ SpawnReturns(c) \/ (\E a \in
              Agents : SpawnInsert(c, a)) \/ InterruptReturns(c) \/ CloseInactive(c)
              \/ FinishClose(c) \/ CloseReturns(c) \/ SendCommit(c) \/
              SendReturns(c) \/ CallDropped(c)
       PROVE  OnceInv'
    <3>1. UNCHANGED <<commands>>
      BY <2>4
      DEF SpawnReserveId, channelVars, SpawnFails, SpawnReturns, OnlyCalls,
         SpawnInsert, InterruptReturns, CloseInactive, FinishClose,
         CloseReturns, SendCommit, SendReturns, CallDropped
    <3> QED BY <3>1  DEF OnceInv, IInv, TypeInv
  <2> QED BY <1>3, <2>1, <2>2, <2>3, <2>4 DEF CallStep
<1>4. ASSUME NEW c \in Calls, NEW session \in Sessions, CallBegins(c, session) PROVE OnceInv'
  <2>1. ASSUME SpawnReserveTurn(c, session) \/ (\E operation \in Stops, target \in
              Sessions : StopRequest(c, session, operation, target)) \/ (\E a \in
              Agents, urgent \in BOOLEAN, delegate \in BOOLEAN : SendPrepare(c,
              session, a, urgent, delegate))
       PROVE  OnceInv'
    <3>1. UNCHANGED <<commands>>
      BY <2>1
      DEF SpawnReserveTurn, channelVars, StopRequest, SendPrepare
    <3> QED BY <3>1  DEF OnceInv, IInv, TypeInv
  <2> QED BY <1>4, <2>1 DEF CallBegins
<1>5. ASSUME Disturbance PROVE OnceInv'
  <2>1. ASSUME (\E c \in Calls : StopTimesOut(c)) \/ (\E c \in Calls :
              JoinTimesOut(c)) \/ (\E a \in Agents : Submit(a)) \/ (\E a \in Agents
              : DriverDies(a)) \/ (\E n \in Limits : SetLimit(n))
       PROVE  OnceInv'
    <3>1. UNCHANGED <<commands>>
      BY <2>1
      DEF StopTimesOut, OnlyCalls, channelVars, JoinTimesOut, Submit,
         DriverDies, SetLimit
    <3> QED BY <3>1  DEF OnceInv, IInv, TypeInv
  <2> QED BY <1>5, <2>1 DEF Disturbance
<1> QED BY <1>1, <1>2, <1>3, <1>4, <1>5 DEF Next

LEMMA SpawnInvKept ==
  ASSUME IInv, Next
  PROVE  SpawnInv'
<1>1. ASSUME NEW a \in Agents, HarnessStep(a) PROVE SpawnInv'
  <2>1. CASE TakeStart(a)
    BY <2>1
    DEF SpawnInv, Born, IInv, TypeInv, SessionTypes, CallTypes, HarnessInv,
       AbsentAt, TakeStart, None, turnVars, treeVars, CanStartTurn, Prompting,
       IsCommand, Startable, OpenTurn
  <2>2. CASE PromptFailed(a)
    BY <2>2
    DEF SpawnInv, Born, IInv, TypeInv, SessionTypes, CallTypes, HarnessInv,
       AbsentAt, PromptFailed, None, treeVars, EndTurn, Stopped
  <2>3. ASSUME NEW m \in Messages, DeliverStart(a, m) PROVE SpawnInv'
    BY <2>3
    DEF SpawnInv, Born, IInv, TypeInv, SessionTypes, CallTypes, HarnessInv,
       AbsentAt, DeliverStart, None, turnVars, treeVars, callVars,
       CanStartTurn, Prompting, Accepting, Steerable, CanDeliver, Startable,
       OpenTurn, EmptyBox, CanReserve
  <2>4. CASE StartPending(a)
    BY <2>4
    DEF SpawnInv, Born, IInv, TypeInv, SessionTypes, CallTypes, HarnessInv,
       AbsentAt, StartPending, turnVars, treeVars, callVars, EmptyBox,
       CanReserve, CanStartTurn, Prompting, Startable, OpenTurn
  <2>5. CASE Publish(a)
    BY <2>5
    DEF SpawnInv, Born, IInv, TypeInv, SessionTypes, CallTypes, HarnessInv,
       AbsentAt, Publish, treeVars, callVars, PublishResult, turnVars,
       EndTurn, Stopped
  <2>6. CASE FinishActive(a)
    BY <2>6
    DEF SpawnInv, Born, IInv, TypeInv, SessionTypes, CallTypes, HarnessInv,
       AbsentAt, FinishActive, treeVars, callVars, TurnOver, PublishResult,
       turnVars, EndTurn, Stopped
  <2>7. CASE HarnessClosed(a)
    BY <2>7
    DEF SpawnInv, Born, IInv, TypeInv, SessionTypes, CallTypes, HarnessInv,
       AbsentAt, HarnessClosed, treeVars, MarkClosed, turnVars
  <2>8. ASSUME PromptAccepted(a) \/ TakeDelivery(a) \/ Abandoned(a) \/ (\E m \in
              Messages : Steer(a, m)) \/ (\E m \in Messages : DeliverQueue(a, m)) \/
              SteerAdmitted(a) \/ SteerRefused(a) \/ SteerFailed(a) \/
              CapacityChanged(a) \/ StopPending(a) \/ TurnFinished(a) \/ TakeStop(a)
              \/ RejectWaiting(a) \/ UrgentRejected(a) \/ AllRejected(a) \/
              Shutdown(a) \/ Release(a)
       PROVE  SpawnInv'
    <3>1. UNCHANGED <<status, nextId, cpc, ids>>
      BY <2>8
      DEF PromptAccepted, sessionVars, treeVars, turnVars, TakeDelivery,
         callVars, Abandoned, Steer, DeliverQueue, SteerAdmitted,
         SteerRefused, SteerFailed, CapacityChanged, StopPending,
         TurnFinished, TakeStop, RejectWaiting, UrgentRejected, AllRejected,
         Shutdown, Release
    <3> QED BY <3>1  DEF SpawnInv, Born, IInv, TypeInv, SessionTypes, CallTypes
  <2> QED BY <1>1, <2>1, <2>2, <2>3, <2>4, <2>5, <2>6, <2>7, <2>8 DEF HarnessStep
<1>2. ASSUME NEW a \in Agents, LibraryStep(a) PROVE SpawnInv'
  <2>1. CASE EventsEnd(a)
    BY <2>1
    DEF SpawnInv, Born, IInv, TypeInv, SessionTypes, CallTypes, HarnessInv,
       AbsentAt, EventsEnd, Stopped, turnVars, treeVars, callVars, MarkClosed
  <2>2. ASSUME (\E result \in Outcomes : TurnEnds(a, result)) \/ EventsDone(a)
       PROVE  SpawnInv'
    <3>1. UNCHANGED <<status, nextId, cpc, ids>>
      BY <2>2
      DEF TurnEnds, sessionVars, callVars, treeVars, turnVars, EventsDone
    <3> QED BY <3>1  DEF SpawnInv, Born, IInv, TypeInv, SessionTypes, CallTypes
  <2> QED BY <1>2, <2>1, <2>2 DEF LibraryStep
<1>3. ASSUME NEW c \in Calls, CallStep(c) \/ CallDropped(c) PROVE SpawnInv'
  <2>1. CASE SpawnReserveId(c)
    <3>1. CASE cpc' = [cpc EXCEPT ![c] = "done"] /\ UNCHANGED <<status, nextId, ids>>
      BY <3>1 DEF SpawnInv, Born, IInv, TypeInv, SessionTypes, CallTypes
    <3>2. CASE /\ cpc' = [cpc EXCEPT ![c] = "spawn_insert"] /\ UNCHANGED status
               /\ nextId < MaxAgents /\ nextId' = nextId + 1 /\ ids' = [ids EXCEPT ![c] = {nextId + 1}]
      <4>1. nextId + 1 \in Agents /\ nextId \in Nat /\ \A a \in Agents : a \in Nat
        BY <3>2, SubagentAssumption DEF IInv, TypeInv, SessionTypes, Agents
      <4>2. nextId + 1 \notin Born
        BY <4>1 DEF IInv, SpawnInv
      <4>3. \A d \in Calls : cpc[d] = "spawn_insert" => ids[d] # {nextId + 1}
        BY <4>1 DEF IInv, SpawnInv
      <4>4. ids'[c] = {nextId + 1} /\ \A d \in Calls \ {c} : ids'[d] = ids[d] /\ cpc'[d] = cpc[d]
        BY <3>2 DEF IInv, TypeInv, CallTypes
      <4>5. \A a \in Born : a <= nextId'
        BY <3>2, <4>1 DEF IInv, SpawnInv, Born
      <4>6. \A d \in Calls : cpc'[d] \in {"spawn_insert", "spawn_start"} => \E a \in Agents : ids'[d] = {a} /\ a <= nextId'
        BY <3>2, <4>1, <4>4 DEF IInv, SpawnInv
      <4>7. \A d \in Calls : cpc'[d] = "spawn_insert" => \A a \in ids'[d] : status[a] = "absent"
        BY <3>2, <4>1, <4>2, <4>4 DEF IInv, SpawnInv, Born
      <4>8. \A d, e \in Calls : d # e /\ cpc'[d] = "spawn_insert" /\ cpc'[e] = "spawn_insert" => ids'[d] # ids'[e]
        BY <4>3, <4>4 DEF IInv, SpawnInv
      <4> QED
        BY <3>2, <4>5, <4>6, <4>7, <4>8 DEF SpawnInv, Born
    <3> QED
      BY <2>1, <3>1, <3>2 DEF SpawnReserveId, CallAt, turnVars
  <2>2. CASE SpawnFails(c)
    BY <2>2
    DEF SpawnInv, Born, IInv, TypeInv, SessionTypes, CallTypes, SpawnFails,
       sessionVars, CallAt, InsertRefused, treeVars, turnVars, ParentStopped,
       Stopped, Root
  <2>3. CASE SpawnReturns(c)
    BY <2>3
    DEF SpawnInv, Born, IInv, TypeInv, SessionTypes, CallTypes, SpawnReturns,
       CallAt, Answered, OnlyCalls, sessionVars, treeVars, turnVars
  <2>4. ASSUME NEW a \in Agents, SpawnInsert(c, a) PROVE SpawnInv'
    <3>1. /\ cpc[c] = "spawn_insert" /\ ids[c] = {a} /\ status' = [status EXCEPT ![a] = "pending"]
          /\ UNCHANGED <<nextId, ids>> /\ cpc' = [cpc EXCEPT ![c] = "spawn_start"]
      BY <2>4 DEF SpawnInsert, CallAt
    <3>2. a <= nextId
      BY <3>1 DEF IInv, SpawnInv
    <3>3. \A b \in Agents : status'[b] # "absent" => b <= nextId
      BY <3>1, <3>2 DEF IInv, SpawnInv, Born, TypeInv, SessionTypes
    <3>4. \A d \in Calls : cpc'[d] = "spawn_insert" => d # c /\ cpc[d] = "spawn_insert" /\ a \notin ids[d]
      <4> SUFFICES ASSUME NEW d \in Calls, cpc'[d] = "spawn_insert"
            PROVE  d # c /\ cpc[d] = "spawn_insert" /\ a \notin ids[d]
        OBVIOUS
      <4>1. d # c /\ cpc[d] = "spawn_insert"
        BY <3>1 DEF IInv, TypeInv, CallTypes
      <4>2. ids[d] # {a}
        BY <3>1, <4>1 DEF IInv, SpawnInv
      <4>3. PICK x \in Agents : ids[d] = {x}
        BY <4>1 DEF IInv, SpawnInv
      <4> QED
        BY <4>1, <4>2, <4>3
    <3>5. \A d \in Calls : cpc'[d] = "spawn_insert" => \A b \in ids[d] : status'[b] = "absent"
      BY <3>1, <3>4 DEF IInv, SpawnInv, TypeInv, SessionTypes, CallTypes
    <3>6. \A d \in Calls : cpc'[d] = "spawn_start" => d = c \/ cpc[d] = "spawn_start"
      BY <3>1 DEF IInv, TypeInv, CallTypes
    <3> QED
      BY <3>1, <3>2, <3>3, <3>4, <3>5, <3>6 DEF SpawnInv, IInv, Born
  <2>5. ASSUME NEW a \in Agents, SpawnLaunch(c, a) PROVE SpawnInv'
    BY <2>5
    DEF SpawnInv, Born, IInv, TypeInv, SessionTypes, CallTypes, SpawnLaunch,
       sessionVars, CallAt, treeVars, turnVars
  <2>6. CASE StopSend(c)
    BY <2>6
    DEF SpawnInv, Born, IInv, TypeInv, SessionTypes, CallTypes, StopSend,
       sessionVars, CallAt, treeVars, turnVars
  <2>7. CASE InterruptReturns(c)
    BY <2>7
    DEF SpawnInv, Born, IInv, TypeInv, SessionTypes, CallTypes,
       InterruptReturns, Answered, OnlyCalls, AllInactive, Returns,
       sessionVars, CallAt, treeVars, turnVars
  <2>8. CASE CloseInactive(c)
    BY <2>8
    DEF SpawnInv, Born, IInv, TypeInv, SessionTypes, CallTypes, CloseInactive,
       CallAt, Answered, OnlyCalls, AllInactive, sessionVars, treeVars,
       turnVars
  <2>9. CASE FinishClose(c)
    BY <2>9
    DEF SpawnInv, Born, IInv, TypeInv, SessionTypes, CallTypes, CloseInv,
       ClosingPoints, CoverInv, FinishClose, treeVars, CallAt, AllInactive,
       Returns
  <2>10. CASE CloseReturns(c)
    BY <2>10
    DEF SpawnInv, Born, IInv, TypeInv, SessionTypes, CallTypes, CloseReturns,
       sessionVars, Returns, treeVars, turnVars, CallAt
  <2>11. CASE FinishLate(c)
    BY <2>11
    DEF SpawnInv, Born, IInv, TypeInv, SessionTypes, CallTypes, CloseInv,
       ClosingPoints, CoverInv, FinishLate, treeVars, AllInactive, Returns,
       Unfinished, CallAt
  <2>12. CASE SendCommit(c)
    BY <2>12
    DEF SpawnInv, Born, IInv, TypeInv, SessionTypes, CallTypes, SendCommit,
       sessionVars, CallAt, treeVars, turnVars
  <2>13. CASE SendReturns(c)
    BY <2>13
    DEF SpawnInv, Born, IInv, TypeInv, SessionTypes, CallTypes, SendReturns,
       sessionVars, Returns, Delivered, treeVars, turnVars, CallAt
  <2>14. CASE CallDropped(c)
    BY <2>14
    DEF SpawnInv, Born, IInv, TypeInv, SessionTypes, CallTypes, CallDropped,
       Root, sessionVars, CallAt, Holding, treeVars, turnVars
  <2> QED BY <1>3, <2>1, <2>2, <2>3, <2>4, <2>5, <2>6, <2>7, <2>8, <2>9,
   <2>10, <2>11, <2>12, <2>13, <2>14 DEF CallStep
<1>4. ASSUME NEW c \in Calls, NEW session \in Sessions, CallBegins(c, session) PROVE SpawnInv'
  <2>1. CASE SpawnReserveTurn(c, session)
    BY <2>1
    DEF SpawnInv, Born, IInv, TypeInv, SessionTypes, CallTypes,
       SpawnReserveTurn, sessionVars, CanReserve, CallAt, Begins, treeVars,
       turnVars, MayCall, Root
  <2>2. ASSUME NEW operation \in Stops, NEW target \in Sessions, StopRequest(c, session, operation, target) PROVE SpawnInv'
    <3>1. \A a \in ids'[c] : a \in Born
      BY <2>2, SubtreeIsBorn DEF StopRequest, IInv, TypeInv, CallTypes
    <3>2. \A a \in Agents : status'[a] = "absent" <=> status[a] = "absent"
      BY <2>2, <3>1 DEF StopRequest, IInv, TypeInv, SessionTypes, Born
    <3>3. /\ nextId' = nextId /\ cpc'[c] \notin {"spawn_insert", "spawn_start"}
          /\ \A d \in Calls \ {c} : cpc'[d] = cpc[d] /\ ids'[d] = ids[d]
      BY <2>2 DEF StopRequest, IInv, TypeInv, CallTypes, treeVars, CallAt
    <3> QED
      BY <3>2, <3>3 DEF SpawnInv, IInv, Born, TypeInv, CallTypes
  <2>3. ASSUME NEW a \in Agents, NEW urgent \in BOOLEAN, NEW delegate \in BOOLEAN, SendPrepare(c, session, a, urgent, delegate) PROVE SpawnInv'
    BY <2>3
    DEF SpawnInv, Born, IInv, TypeInv, SessionTypes, CallTypes, SendPrepare,
       sessionVars, CallAt, Begins, MayReceive, treeVars, turnVars, MayCall,
       Stopped, Root
  <2> QED BY <1>4, <2>1, <2>2, <2>3 DEF CallBegins
<1>5. ASSUME Disturbance PROVE SpawnInv'
  <2>1. ASSUME NEW c \in Calls, StopTimesOut(c) PROVE SpawnInv'
    BY <2>1
    DEF SpawnInv, Born, IInv, TypeInv, SessionTypes, CallTypes, StopTimesOut,
       CallAt, OnlyCalls, AllInactive, Returns, sessionVars, treeVars,
       turnVars
  <2>2. ASSUME NEW c \in Calls, JoinTimesOut(c) PROVE SpawnInv'
    BY <2>2
    DEF SpawnInv, Born, IInv, TypeInv, SessionTypes, CallTypes, JoinTimesOut,
       sessionVars, Returns, treeVars, turnVars, CallAt
  <2>3. ASSUME (\E a \in Agents : Submit(a)) \/ (\E a \in Agents : DriverDies(a)) \/
              (\E n \in Limits : SetLimit(n))
       PROVE  SpawnInv'
    <3>1. UNCHANGED <<status, nextId, cpc, ids>>
      BY <2>3
      DEF Submit, treeVars, callVars, DriverDies, sessionVars, turnVars,
         SetLimit
    <3> QED BY <3>1  DEF SpawnInv, Born, IInv, TypeInv, SessionTypes, CallTypes
  <2> QED BY <1>5, <2>1, <2>2, <2>3 DEF Disturbance
<1> QED BY <1>1, <1>2, <1>3, <1>4, <1>5 DEF Next

LEMMA HandleInvKept ==
  ASSUME IInv, Next
  PROVE  HandleInv'
<1>1. ASSUME NEW a \in Agents, HarnessStep(a) PROVE HandleInv'
  <2>1. CASE TakeStart(a)
    BY SMTT(30), <2>1
    DEF HandleInv, Born, IInv, TypeInv, SessionTypes, HarnessTypes, CallTypes,
       HarnessInv, AbsentAt, TakeStart, None, turnVars, ownerVars,
       CanStartTurn, Prompting, IsCommand, Startable, Goto, OpenTurn
  <2>2. CASE PromptAccepted(a)
    BY <2>2
    DEF HandleInv, Born, IInv, TypeInv, SessionTypes, HarnessTypes, CallTypes,
       PromptAccepted, None, sessionVars, NoChange, Goto, ownerVars, turnVars
  <2>3. CASE PromptFailed(a)
    BY <2>3
    DEF HandleInv, Born, IInv, TypeInv, SessionTypes, HarnessTypes, CallTypes,
       HarnessInv, AbsentAt, PromptFailed, None, ownerVars, EndTurn, Goto,
       Stopped
  <2>4. CASE TakeDelivery(a)
    BY <2>4
    DEF HandleInv, Born, IInv, TypeInv, SessionTypes, HarnessTypes, CallTypes,
       TakeDelivery, sessionVars, EmptyBox, Goto, NoCommand, ownerVars,
       turnVars
  <2>5. CASE Abandoned(a)
    BY <2>5
    DEF HandleInv, Born, IInv, TypeInv, SessionTypes, HarnessTypes, CallTypes,
       Abandoned, None, sessionVars, Goto, ownerVars, turnVars
  <2>6. ASSUME NEW m \in Messages, Steer(a, m) PROVE HandleInv'
    BY <2>6
    DEF HandleInv, Born, IInv, TypeInv, SessionTypes, HarnessTypes, CallTypes,
       Steer, ownerVars, Goto, Accepting, Steerable
  <2>7. ASSUME NEW m \in Messages, DeliverStart(a, m) PROVE HandleInv'
    BY <2>7
    DEF HandleInv, Born, IInv, TypeInv, SessionTypes, HarnessTypes, CallTypes,
       HarnessInv, AbsentAt, DeliverStart, None, turnVars, ownerVars,
       CanStartTurn, Goto, Prompting, Accepting, Steerable, CanDeliver,
       Startable, OpenTurn, EmptyBox, CanReserve
  <2>8. ASSUME NEW m \in Messages, DeliverQueue(a, m) PROVE HandleInv'
    BY <2>8
    DEF HandleInv, Born, IInv, TypeInv, SessionTypes, HarnessTypes, CallTypes,
       DeliverQueue, sessionVars, Accepting, Steerable, QueueDelivery,
       CanDeliver, ownerVars, turnVars, None, Goto, EmptyBox, CanReserve
  <2>9. CASE SteerAdmitted(a)
    BY <2>9
    DEF HandleInv, Born, IInv, TypeInv, SessionTypes, HarnessTypes, CallTypes,
       SteerAdmitted, None, ownerVars, NoChange, Goto
  <2>10. CASE SteerRefused(a)
    BY <2>10
    DEF HandleInv, Born, IInv, TypeInv, SessionTypes, HarnessTypes, CallTypes,
       SteerRefused, ownerVars, QueueDelivery, None, Goto
  <2>11. CASE SteerFailed(a)
    BY <2>11
    DEF HandleInv, Born, IInv, TypeInv, SessionTypes, HarnessTypes, CallTypes,
       SteerFailed, None, ownerVars, Goto
  <2>12. CASE CapacityChanged(a)
    BY <2>12
    DEF HandleInv, Born, IInv, TypeInv, SessionTypes, HarnessTypes, CallTypes,
       CapacityChanged, sessionVars, EmptyBox, Goto, NoCommand, ownerVars,
       turnVars
  <2>13. CASE StartPending(a)
    BY <2>13
    DEF HandleInv, Born, IInv, TypeInv, SessionTypes, HarnessTypes, CallTypes,
       HarnessInv, AbsentAt, StartPending, turnVars, ownerVars, EmptyBox,
       CanReserve, CanStartTurn, Prompting, Startable, Goto, OpenTurn
  <2>14. CASE StopPending(a)
    BY <2>14
    DEF HandleInv, Born, IInv, TypeInv, SessionTypes, HarnessTypes, CallTypes,
       StopPending, sessionVars, EmptyBox, CanReserve, Goto, ownerVars,
       turnVars
  <2>15. CASE TurnFinished(a)
    BY <2>15
    DEF HandleInv, Born, IInv, TypeInv, SessionTypes, HarnessTypes, CallTypes,
       TurnFinished, sessionVars, EmptyBox, Goto, NoCommand, TurnOver,
       ownerVars, turnVars
  <2>16. CASE Publish(a)
    BY <2>16
    DEF HandleInv, Born, IInv, TypeInv, SessionTypes, HarnessTypes, CallTypes,
       HarnessInv, AbsentAt, Publish, ownerVars, Goto, PublishResult,
       turnVars, EndTurn, Stopped
  <2>17. CASE TakeStop(a)
    BY <2>17
    DEF HandleInv, Born, IInv, TypeInv, SessionTypes, HarnessTypes, CallTypes,
       TakeStop, sessionVars, Goto, IsCommand, ownerVars, turnVars
  <2>18. CASE UrgentRejected(a)
    BY <2>18
    DEF HandleInv, Born, IInv, TypeInv, SessionTypes, HarnessTypes, CallTypes,
       UrgentRejected, sessionVars, Goto, ownerVars, turnVars
  <2>19. CASE AllRejected(a)
    BY <2>19
    DEF HandleInv, Born, IInv, TypeInv, SessionTypes, HarnessTypes, CallTypes,
       AllRejected, sessionVars, Goto, ownerVars, turnVars
  <2>20. CASE Shutdown(a)
    BY <2>20
    DEF HandleInv, Born, IInv, TypeInv, SessionTypes, HarnessTypes, CallTypes,
       Shutdown, sessionVars, Goto, ownerVars, turnVars
  <2>21. CASE FinishActive(a)
    BY <2>21
    DEF HandleInv, Born, IInv, TypeInv, SessionTypes, HarnessTypes, CallTypes,
       HarnessInv, AbsentAt, FinishActive, ownerVars, Goto, TurnOver,
       PublishResult, turnVars, EndTurn, Stopped
  <2>22. CASE Release(a)
    BY <2>22
    DEF HandleInv, Born, IInv, TypeInv, SessionTypes, HarnessTypes, CallTypes,
       Release, sessionVars, Goto, ownerVars, turnVars
  <2>23. CASE HarnessClosed(a)
    BY <2>23
    DEF HandleInv, Born, IInv, TypeInv, SessionTypes, HarnessTypes, CallTypes,
       HarnessInv, AbsentAt, HarnessClosed, ownerVars, MarkClosed, CleanUp,
       turnVars, None, NoChange, EmptyBox
  <2>24. ASSUME RejectWaiting(a)
       PROVE  HandleInv'
    <3>1. UNCHANGED <<status, handle, joinable, hpc>>
      BY <2>24
      DEF RejectWaiting, sessionVars, harnessVars, ownerVars, turnVars
    <3> QED BY <3>1  DEF HandleInv, Born, IInv, TypeInv, SessionTypes, HarnessTypes,
         CallTypes
  <2> QED BY <1>1, <2>1, <2>2, <2>3, <2>4, <2>5, <2>6, <2>7, <2>8, <2>9,
   <2>10, <2>11, <2>12, <2>13, <2>14, <2>15, <2>16, <2>17, <2>18, <2>19,
   <2>20, <2>21, <2>22, <2>23, <2>24 DEF HarnessStep
<1>2. ASSUME NEW a \in Agents, LibraryStep(a) PROVE HandleInv'
  <2>1. CASE EventsEnd(a)
    BY <2>1
    DEF HandleInv, Born, IInv, TypeInv, SessionTypes, HarnessTypes, CallTypes,
       HarnessInv, AbsentAt, EventsEnd, Stopped, turnVars, ownerVars,
       harnessVars, MarkClosed
  <2>2. ASSUME (\E result \in Outcomes : TurnEnds(a, result)) \/ EventsDone(a)
       PROVE  HandleInv'
    <3>1. UNCHANGED <<status, handle, joinable, hpc>>
      BY <2>2
      DEF TurnEnds, sessionVars, ownerVars, turnVars, EventsDone, harnessVars
    <3> QED BY <3>1  DEF HandleInv, Born, IInv, TypeInv, SessionTypes, HarnessTypes,
         CallTypes
  <2> QED BY <1>2, <2>1, <2>2 DEF LibraryStep
<1>3. ASSUME NEW c \in Calls, CallStep(c) \/ CallDropped(c) PROVE HandleInv'
  <2>1. ASSUME NEW a \in Agents, SpawnInsert(c, a) PROVE HandleInv'
    BY <2>1
    DEF HandleInv, Born, IInv, TypeInv, SessionTypes, HarnessTypes, CallTypes,
       SpawnInsert, Goto, InsertRefused, ParentStopped, Stopped, Root
  <2>2. CASE FinishClose(c)
    <3>1. \A a \in ids[c] : a \in Born /\ hpc[a] = "gone"
      BY <2>2 DEF FinishClose, IInv, CloseInv, CoverInv, ClosingPoints
    <3>2. Born' = Born
      BY <2>2, <3>1 DEF FinishClose, IInv, TypeInv, SessionTypes, Born
    <3>3. handle' = joinable' /\ handle \subseteq handle' \cup ids[c] /\ hpc' = hpc
      BY <2>2 DEF FinishClose, IInv, HandleInv, ownerVars, harnessVars
    <3> QED
      BY <3>1, <3>2, <3>3 DEF HandleInv, IInv
  <2>3. CASE FinishLate(c)
    BY <2>3
    DEF HandleInv, Born, IInv, TypeInv, SessionTypes, HarnessTypes, CallTypes,
       CloseInv, ClosingPoints, CoverInv, FinishLate, CleanUp, AllInactive,
       Unfinished, None, NoChange, EmptyBox
  <2>4. ASSUME SpawnReserveId(c) \/ SpawnFails(c) \/ SpawnReturns(c) \/ (\E a \in
              Agents : SpawnLaunch(c, a)) \/ StopSend(c) \/ InterruptReturns(c) \/
              CloseInactive(c) \/ CloseReturns(c) \/ SendCommit(c) \/ SendReturns(c)
              \/ CallDropped(c)
       PROVE  HandleInv'
    <3>1. UNCHANGED <<status, handle, joinable, hpc>>
      BY <2>4
      DEF SpawnReserveId, turnVars, ownerVars, harnessVars, SpawnFails,
         sessionVars, SpawnReturns, OnlyCalls, SpawnLaunch, StopSend,
         InterruptReturns, CloseInactive, CloseReturns, SendCommit,
         SendReturns, CallDropped
    <3> QED BY <3>1  DEF HandleInv, Born, IInv, TypeInv, SessionTypes, HarnessTypes,
         CallTypes
  <2> QED BY <1>3, <2>1, <2>2, <2>3, <2>4 DEF CallStep
<1>4. ASSUME NEW c \in Calls, NEW session \in Sessions, CallBegins(c, session) PROVE HandleInv'
  <2>1. ASSUME NEW operation \in Stops, NEW target \in Sessions, StopRequest(c, session, operation, target) PROVE HandleInv'
    <3>1. \A a \in ids'[c] : a \in Born
      BY <2>1, SubtreeIsBorn DEF StopRequest, IInv, TypeInv, CallTypes
    <3>2. Born' = Born
      BY <2>1, <3>1 DEF StopRequest, IInv, TypeInv, SessionTypes, Born
    <3> QED
      BY <2>1, <3>2 DEF HandleInv, IInv, StopRequest, ownerVars, harnessVars
  <2>2. ASSUME SpawnReserveTurn(c, session) \/ (\E a \in Agents, urgent \in BOOLEAN,
              delegate \in BOOLEAN : SendPrepare(c, session, a, urgent, delegate))
       PROVE  HandleInv'
    <3>1. UNCHANGED <<status, handle, joinable, hpc>>
      BY <2>2
      DEF SpawnReserveTurn, sessionVars, harnessVars, ownerVars, turnVars,
         SendPrepare
    <3> QED BY <3>1  DEF HandleInv, Born, IInv, TypeInv, SessionTypes, HarnessTypes,
         CallTypes
  <2> QED BY <1>4, <2>1, <2>2 DEF CallBegins
<1>5. ASSUME Disturbance PROVE HandleInv'
  <2>1. ASSUME (\E c \in Calls : StopTimesOut(c)) \/ (\E c \in Calls :
              JoinTimesOut(c)) \/ (\E a \in Agents : Submit(a)) \/ (\E a \in Agents
              : DriverDies(a)) \/ (\E n \in Limits : SetLimit(n))
       PROVE  HandleInv'
    <3>1. UNCHANGED <<status, handle, joinable, hpc>>
      BY <2>1
      DEF StopTimesOut, OnlyCalls, harnessVars, sessionVars, ownerVars,
         turnVars, JoinTimesOut, Submit, DriverDies, SetLimit
    <3> QED BY <3>1  DEF HandleInv, Born, IInv, TypeInv, SessionTypes, HarnessTypes,
         CallTypes
  <2> QED BY <1>5, <2>1 DEF Disturbance
<1> QED BY <1>1, <1>2, <1>3, <1>4, <1>5 DEF Next

LEMMA CoverInvKept ==
  ASSUME IInv, Next
  PROVE  CoverInv'
<1>1. ASSUME NEW a \in Agents, HarnessStep(a) PROVE CoverInv'
  <2>1. CASE TakeStart(a)
    BY <2>1
    DEF CoverInv, Born, IInv, TypeInv, SessionTypes, HarnessTypes, CallTypes,
       Stopped, HarnessInv, AbsentAt, TurnAt, Startable, TakeStart, None,
       turnVars, treeVars, historyVars, CanStartTurn, Prompting, IsCommand,
       OpenTurn
  <2>2. CASE PromptFailed(a)
    BY <2>2
    DEF CoverInv, Born, IInv, TypeInv, SessionTypes, HarnessTypes, CallTypes,
       Stopped, HarnessInv, AbsentAt, TurnAt, PromptFailed, None, treeVars,
       historyVars, EndTurn
  <2>3. ASSUME NEW m \in Messages, DeliverStart(a, m) PROVE CoverInv'
    BY <2>3
    DEF CoverInv, Born, IInv, TypeInv, SessionTypes, HarnessTypes, CallTypes,
       Stopped, HarnessInv, AbsentAt, TurnAt, Startable, DeliverStart, None,
       turnVars, treeVars, historyVars, CanStartTurn, Prompting, Accepting,
       Steerable, CanDeliver, OpenTurn, EmptyBox, CanReserve
  <2>4. CASE StartPending(a)
    BY <2>4
    DEF CoverInv, Born, IInv, TypeInv, SessionTypes, HarnessTypes, CallTypes,
       Stopped, HarnessInv, AbsentAt, TurnAt, Startable, StartPending,
       turnVars, treeVars, historyVars, EmptyBox, CanReserve, CanStartTurn,
       Prompting, OpenTurn
  <2>5. CASE Publish(a)
    BY <2>5
    DEF CoverInv, Born, IInv, TypeInv, SessionTypes, HarnessTypes, CallTypes,
       Stopped, HarnessInv, AbsentAt, TurnAt, Publish, treeVars, historyVars,
       PublishResult, turnVars, EndTurn
  <2>6. CASE FinishActive(a)
    BY <2>6
    DEF CoverInv, Born, IInv, TypeInv, SessionTypes, HarnessTypes, CallTypes,
       Stopped, HarnessInv, AbsentAt, TurnAt, FinishActive, treeVars,
       historyVars, TurnOver, PublishResult, turnVars, EndTurn
  <2>7. CASE HarnessClosed(a)
    BY <2>7
    DEF CoverInv, Born, IInv, TypeInv, SessionTypes, HarnessTypes, CallTypes,
       Stopped, HarnessInv, AbsentAt, TurnAt, HarnessClosed, treeVars,
       historyVars, MarkClosed, turnVars
  <2>8. ASSUME PromptAccepted(a) \/ TakeDelivery(a) \/ Abandoned(a) \/ (\E m \in
              Messages : Steer(a, m)) \/ (\E m \in Messages : DeliverQueue(a, m)) \/
              SteerAdmitted(a) \/ SteerRefused(a) \/ SteerFailed(a) \/
              CapacityChanged(a) \/ StopPending(a) \/ TurnFinished(a) \/ TakeStop(a)
              \/ RejectWaiting(a) \/ UrgentRejected(a) \/ AllRejected(a) \/
              Shutdown(a) \/ Release(a)
       PROVE  CoverInv'
    <3>1. UNCHANGED <<status, parent, covered>>
      BY <2>8
      DEF PromptAccepted, sessionVars, historyVars, treeVars, turnVars,
         TakeDelivery, Abandoned, Steer, DeliverQueue, SteerAdmitted,
         SteerRefused, SteerFailed, CapacityChanged, StopPending,
         TurnFinished, TakeStop, RejectWaiting, UrgentRejected, AllRejected,
         Shutdown, Release
    <3> QED BY <3>1  DEF CoverInv, Born, IInv, TypeInv, SessionTypes, HarnessTypes,
         CallTypes, Stopped
  <2> QED BY <1>1, <2>1, <2>2, <2>3, <2>4, <2>5, <2>6, <2>7, <2>8 DEF HarnessStep
<1>2. ASSUME NEW a \in Agents, LibraryStep(a) PROVE CoverInv'
  <2>1. CASE EventsEnd(a)
    BY <2>1
    DEF CoverInv, Born, IInv, TypeInv, SessionTypes, HarnessTypes, CallTypes,
       Stopped, HarnessInv, AbsentAt, TurnAt, EventsEnd, turnVars, treeVars,
       historyVars, MarkClosed
  <2>2. ASSUME (\E result \in Outcomes : TurnEnds(a, result)) \/ EventsDone(a)
       PROVE  CoverInv'
    <3>1. UNCHANGED <<status, parent, covered>>
      BY <2>2
      DEF TurnEnds, sessionVars, historyVars, treeVars, turnVars, EventsDone
    <3> QED BY <3>1  DEF CoverInv, Born, IInv, TypeInv, SessionTypes, HarnessTypes,
         CallTypes, Stopped
  <2> QED BY <1>2, <2>1, <2>2 DEF LibraryStep
<1>3. ASSUME NEW c \in Calls, CallStep(c) \/ CallDropped(c) PROVE CoverInv'
  <2>1. ASSUME NEW a \in Agents, SpawnInsert(c, a) PROVE CoverInv'
    BY <2>1, SubagentAssumption
    DEF CoverInv, Born, IInv, TypeInv, SessionTypes, HarnessTypes, CallTypes,
       Stopped, SpawnInv, Agents, Root, SpawnInsert, historyVars,
       InsertRefused, ParentStopped
  <2>2. CASE FinishClose(c)
    BY <2>2
    DEF CoverInv, Born, IInv, TypeInv, SessionTypes, HarnessTypes, CallTypes,
       Stopped, CloseInv, ClosingPoints, FinishClose, treeVars, historyVars,
       AllInactive
  <2>3. CASE FinishLate(c)
    BY <2>3
    DEF CoverInv, Born, IInv, TypeInv, SessionTypes, HarnessTypes, CallTypes,
       Stopped, CloseInv, ClosingPoints, FinishLate, treeVars, AllInactive,
       Unfinished
  <2>4. ASSUME SpawnReserveId(c) \/ SpawnFails(c) \/ SpawnReturns(c) \/ (\E a \in
              Agents : SpawnLaunch(c, a)) \/ StopSend(c) \/ InterruptReturns(c) \/
              CloseInactive(c) \/ CloseReturns(c) \/ SendCommit(c) \/ SendReturns(c)
              \/ CallDropped(c)
       PROVE  CoverInv'
    <3>1. UNCHANGED <<status, parent, covered>>
      BY <2>4
      DEF SpawnReserveId, turnVars, historyVars, SpawnFails, sessionVars,
         treeVars, SpawnReturns, OnlyCalls, SpawnLaunch, StopSend,
         InterruptReturns, CloseInactive, CloseReturns, SendCommit,
         SendReturns, CallDropped
    <3> QED BY <3>1  DEF CoverInv, Born, IInv, TypeInv, SessionTypes, HarnessTypes,
         CallTypes, Stopped
  <2> QED BY <1>3, <2>1, <2>2, <2>3, <2>4 DEF CallStep
<1>4. ASSUME NEW c \in Calls, NEW session \in Sessions, CallBegins(c, session) PROVE CoverInv'
  <2>1. ASSUME NEW operation \in Stops, NEW target \in Sessions, StopRequest(c, session, operation, target) PROVE CoverInv'
    <3>1. \A a \in ids'[c] : a \in Born
      BY <2>1, SubtreeIsBorn DEF StopRequest, IInv, TypeInv, CallTypes
    <3>2. Born' = Born /\ parent' = parent
      BY <2>1, <3>1 DEF StopRequest, IInv, TypeInv, SessionTypes, Born, treeVars
    <3>3. \A d \in Born : parent[d] \in ids'[c] => d \in ids'[c]
      BY <2>1, SubtreeIsClosed DEF StopRequest, IInv, TypeInv, CallTypes
    <3>4. CASE covered' = covered /\ status' = status
      BY <3>2, <3>4 DEF CoverInv, IInv
    <3>5. CASE covered' = covered \cup ids'[c] /\ \A a \in Agents : status'[a] = IF a \in ids'[c] THEN "closing" ELSE status[a]
      BY <3>1, <3>2, <3>3, <3>5 DEF CoverInv, IInv, Stopped, Born
    <3> QED
      BY <2>1, <3>4, <3>5 DEF StopRequest
  <2>2. ASSUME SpawnReserveTurn(c, session) \/ (\E a \in Agents, urgent \in BOOLEAN,
              delegate \in BOOLEAN : SendPrepare(c, session, a, urgent, delegate))
       PROVE  CoverInv'
    <3>1. UNCHANGED <<status, parent, covered>>
      BY <2>2
      DEF SpawnReserveTurn, sessionVars, historyVars, treeVars, turnVars,
         SendPrepare
    <3> QED BY <3>1  DEF CoverInv, Born, IInv, TypeInv, SessionTypes, HarnessTypes,
         CallTypes, Stopped
  <2> QED BY <1>4, <2>1, <2>2 DEF CallBegins
<1>5. ASSUME Disturbance PROVE CoverInv'
  <2>1. ASSUME (\E c \in Calls : StopTimesOut(c)) \/ (\E c \in Calls :
              JoinTimesOut(c)) \/ (\E a \in Agents : Submit(a)) \/ (\E a \in Agents
              : DriverDies(a)) \/ (\E n \in Limits : SetLimit(n))
       PROVE  CoverInv'
    <3>1. UNCHANGED <<status, parent, covered>>
      BY <2>1
      DEF StopTimesOut, OnlyCalls, historyVars, sessionVars, treeVars,
         turnVars, JoinTimesOut, Submit, DriverDies, SetLimit
    <3> QED BY <3>1  DEF CoverInv, Born, IInv, TypeInv, SessionTypes, HarnessTypes,
         CallTypes, Stopped
  <2> QED BY <1>5, <2>1 DEF Disturbance
<1> QED BY <1>1, <1>2, <1>3, <1>4, <1>5 DEF Next

(* No child is forgotten, ... *)
LEMMA BornStays ==
  ASSUME IInv, NEW b \in Born, Next
  PROVE  b \in Born'
<1>1. ASSUME NEW a \in Agents, HarnessStep(a) PROVE b \in Born'
  <2>1. CASE TakeStart(a)
    BY <2>1
    DEF Born, IInv, TypeInv, SessionTypes, TakeStart, None, turnVars,
       CanStartTurn, Prompting, IsCommand, Startable, OpenTurn
  <2>2. CASE PromptFailed(a)
    BY <2>2
    DEF Born, IInv, TypeInv, SessionTypes, PromptFailed, None, EndTurn,
       Stopped
  <2>3. ASSUME NEW m \in Messages, DeliverStart(a, m) PROVE b \in Born'
    BY <2>3
    DEF Born, IInv, TypeInv, SessionTypes, DeliverStart, None, turnVars,
       CanStartTurn, Prompting, Accepting, Steerable, CanDeliver, Startable,
       OpenTurn, EmptyBox, CanReserve
  <2>4. CASE StartPending(a)
    BY <2>4
    DEF Born, IInv, TypeInv, SessionTypes, StartPending, turnVars, EmptyBox,
       CanReserve, CanStartTurn, Prompting, Startable, OpenTurn
  <2>5. CASE Publish(a)
    BY <2>5
    DEF Born, IInv, TypeInv, SessionTypes, Publish, PublishResult, turnVars,
       EndTurn, Stopped
  <2>6. CASE FinishActive(a)
    BY <2>6
    DEF Born, IInv, TypeInv, SessionTypes, FinishActive, TurnOver,
       PublishResult, turnVars, EndTurn, Stopped
  <2>7. CASE HarnessClosed(a)
    BY <2>7
    DEF Born, IInv, TypeInv, SessionTypes, HarnessClosed, MarkClosed, turnVars
  <2>8. ASSUME PromptAccepted(a) \/ TakeDelivery(a) \/ Abandoned(a) \/ (\E m \in
              Messages : Steer(a, m)) \/ (\E m \in Messages : DeliverQueue(a, m)) \/
              SteerAdmitted(a) \/ SteerRefused(a) \/ SteerFailed(a) \/
              CapacityChanged(a) \/ StopPending(a) \/ TurnFinished(a) \/ TakeStop(a)
              \/ RejectWaiting(a) \/ UrgentRejected(a) \/ AllRejected(a) \/
              Shutdown(a) \/ Release(a)
       PROVE  b \in Born'
    <3>1. UNCHANGED <<status>>
      BY <2>8
      DEF PromptAccepted, sessionVars, turnVars, TakeDelivery, Abandoned,
         Steer, DeliverQueue, SteerAdmitted, SteerRefused, SteerFailed,
         CapacityChanged, StopPending, TurnFinished, TakeStop, RejectWaiting,
         UrgentRejected, AllRejected, Shutdown, Release
    <3> QED BY <3>1  DEF Born, IInv, TypeInv, SessionTypes
  <2> QED BY <1>1, <2>1, <2>2, <2>3, <2>4, <2>5, <2>6, <2>7, <2>8 DEF HarnessStep
<1>2. ASSUME NEW a \in Agents, LibraryStep(a) PROVE b \in Born'
  <2>1. CASE EventsEnd(a)
    BY <2>1
    DEF Born, IInv, TypeInv, SessionTypes, EventsEnd, Stopped, turnVars,
       MarkClosed
  <2>2. ASSUME (\E result \in Outcomes : TurnEnds(a, result)) \/ EventsDone(a)
       PROVE  b \in Born'
    <3>1. UNCHANGED <<status>>
      BY <2>2
      DEF TurnEnds, sessionVars, turnVars, EventsDone
    <3> QED BY <3>1  DEF Born, IInv, TypeInv, SessionTypes
  <2> QED BY <1>2, <2>1, <2>2 DEF LibraryStep
<1>3. ASSUME NEW c \in Calls, CallStep(c) \/ CallDropped(c) PROVE b \in Born'
  <2>1. ASSUME NEW a \in Agents, SpawnInsert(c, a) PROVE b \in Born'
    BY <2>1
    DEF Born, IInv, TypeInv, SessionTypes, SpawnInsert, InsertRefused,
       ParentStopped, Stopped, Root
  <2>2. CASE FinishClose(c)
    BY <2>2
    DEF Born, IInv, TypeInv, SessionTypes, FinishClose, AllInactive
  <2>3. CASE FinishLate(c)
    BY <2>3
    DEF Born, IInv, TypeInv, SessionTypes, FinishLate, AllInactive, Unfinished
  <2>4. ASSUME SpawnReserveId(c) \/ SpawnFails(c) \/ SpawnReturns(c) \/ (\E a \in
              Agents : SpawnLaunch(c, a)) \/ StopSend(c) \/ InterruptReturns(c) \/
              CloseInactive(c) \/ CloseReturns(c) \/ SendCommit(c) \/ SendReturns(c)
              \/ CallDropped(c)
       PROVE  b \in Born'
    <3>1. UNCHANGED <<status>>
      BY <2>4
      DEF SpawnReserveId, turnVars, SpawnFails, sessionVars, SpawnReturns,
         OnlyCalls, SpawnLaunch, StopSend, InterruptReturns, CloseInactive,
         CloseReturns, SendCommit, SendReturns, CallDropped
    <3> QED BY <3>1  DEF Born, IInv, TypeInv, SessionTypes
  <2> QED BY <1>3, <2>1, <2>2, <2>3, <2>4 DEF CallStep
<1>4. ASSUME NEW c \in Calls, NEW session \in Sessions, CallBegins(c, session) PROVE b \in Born'
  <2>1. ASSUME NEW operation \in Stops, NEW target \in Sessions, StopRequest(c, session, operation, target) PROVE b \in Born'
    BY <2>1
    DEF Born, IInv, TypeInv, SessionTypes, StopRequest, Root, Stops, Begins,
       MayCall
  <2>2. ASSUME SpawnReserveTurn(c, session) \/ (\E a \in Agents, urgent \in BOOLEAN,
              delegate \in BOOLEAN : SendPrepare(c, session, a, urgent, delegate))
       PROVE  b \in Born'
    <3>1. UNCHANGED <<status>>
      BY <2>2
      DEF SpawnReserveTurn, sessionVars, turnVars, SendPrepare
    <3> QED BY <3>1  DEF Born, IInv, TypeInv, SessionTypes
  <2> QED BY <1>4, <2>1, <2>2 DEF CallBegins
<1>5. ASSUME Disturbance PROVE b \in Born'
  <2>1. ASSUME (\E c \in Calls : StopTimesOut(c)) \/ (\E c \in Calls :
              JoinTimesOut(c)) \/ (\E a \in Agents : Submit(a)) \/ (\E a \in Agents
              : DriverDies(a)) \/ (\E n \in Limits : SetLimit(n))
       PROVE  b \in Born'
    <3>1. UNCHANGED <<status>>
      BY <2>1
      DEF StopTimesOut, OnlyCalls, sessionVars, turnVars, JoinTimesOut,
         Submit, DriverDies, SetLimit
    <3> QED BY <3>1  DEF Born, IInv, TypeInv, SessionTypes
  <2> QED BY <1>5, <2>1 DEF Disturbance
<1> QED BY <1>1, <1>2, <1>3, <1>4, <1>5 DEF Next

(* ... no harness comes back, ... *)
LEMMA GoneStays ==
  ASSUME IInv, NEW b \in Agents, hpc[b] = "gone", Next
  PROVE  hpc'[b] = "gone"
<1>1. ASSUME NEW a \in Agents, HarnessStep(a) PROVE hpc'[b] = "gone"
  <2>1. CASE TakeStart(a)
    BY <2>1
    DEF IInv, TypeInv, HarnessTypes, TakeStart, None, CanStartTurn, Prompting,
       IsCommand, Startable, Goto
  <2>2. CASE PromptAccepted(a)
    BY <2>2
    DEF IInv, TypeInv, HarnessTypes, PromptAccepted, None, NoChange, Goto
  <2>3. CASE PromptFailed(a)
    BY <2>3
    DEF IInv, TypeInv, HarnessTypes, PromptFailed, None, Goto
  <2>4. CASE TakeDelivery(a)
    BY <2>4
    DEF IInv, TypeInv, HarnessTypes, TakeDelivery, EmptyBox, Goto, NoCommand
  <2>5. CASE Abandoned(a)
    BY <2>5
    DEF IInv, TypeInv, HarnessTypes, Abandoned, None, Goto
  <2>6. ASSUME NEW m \in Messages, Steer(a, m) PROVE hpc'[b] = "gone"
    BY <2>6
    DEF IInv, TypeInv, HarnessTypes, Steer, Goto, Accepting, Steerable
  <2>7. ASSUME NEW m \in Messages, DeliverStart(a, m) PROVE hpc'[b] = "gone"
    BY <2>7
    DEF IInv, TypeInv, HarnessTypes, DeliverStart, None, CanStartTurn, Goto,
       Prompting, Accepting, Steerable, CanDeliver, Startable, EmptyBox,
       CanReserve
  <2>8. ASSUME NEW m \in Messages, DeliverQueue(a, m) PROVE hpc'[b] = "gone"
    BY <2>8
    DEF IInv, TypeInv, HarnessTypes, DeliverQueue, Accepting, Steerable,
       QueueDelivery, CanDeliver, None, Goto, EmptyBox, CanReserve
  <2>9. CASE SteerAdmitted(a)
    BY <2>9
    DEF IInv, TypeInv, HarnessTypes, SteerAdmitted, None, NoChange, Goto
  <2>10. CASE SteerRefused(a)
    BY <2>10
    DEF IInv, TypeInv, HarnessTypes, SteerRefused, QueueDelivery, None, Goto
  <2>11. CASE SteerFailed(a)
    BY <2>11
    DEF IInv, TypeInv, HarnessTypes, SteerFailed, None, Goto
  <2>12. CASE CapacityChanged(a)
    BY <2>12
    DEF IInv, TypeInv, HarnessTypes, CapacityChanged, EmptyBox, Goto,
       NoCommand
  <2>13. CASE StartPending(a)
    BY <2>13
    DEF IInv, TypeInv, HarnessTypes, StartPending, EmptyBox, CanReserve,
       CanStartTurn, Prompting, Startable, Goto
  <2>14. CASE StopPending(a)
    BY <2>14
    DEF IInv, TypeInv, HarnessTypes, StopPending, EmptyBox, CanReserve, Goto
  <2>15. CASE TurnFinished(a)
    BY <2>15
    DEF IInv, TypeInv, HarnessTypes, TurnFinished, EmptyBox, Goto, NoCommand,
       TurnOver
  <2>16. CASE Publish(a)
    BY <2>16
    DEF IInv, TypeInv, HarnessTypes, Publish, Goto
  <2>17. CASE TakeStop(a)
    BY <2>17
    DEF IInv, TypeInv, HarnessTypes, TakeStop, Goto, IsCommand
  <2>18. CASE UrgentRejected(a)
    BY <2>18
    DEF IInv, TypeInv, HarnessTypes, UrgentRejected, Goto
  <2>19. CASE AllRejected(a)
    BY <2>19
    DEF IInv, TypeInv, HarnessTypes, AllRejected, Goto
  <2>20. CASE Shutdown(a)
    BY <2>20
    DEF IInv, TypeInv, HarnessTypes, Shutdown, Goto
  <2>21. CASE FinishActive(a)
    BY <2>21
    DEF IInv, TypeInv, HarnessTypes, FinishActive, Goto, TurnOver
  <2>22. CASE Release(a)
    BY <2>22
    DEF IInv, TypeInv, HarnessTypes, Release, Goto
  <2>23. CASE HarnessClosed(a)
    BY <2>23
    DEF IInv, TypeInv, HarnessTypes, HarnessClosed, CleanUp, None, NoChange,
       EmptyBox
  <2>24. ASSUME RejectWaiting(a)
       PROVE  hpc'[b] = "gone"
    <3>1. UNCHANGED <<hpc>>
      BY <2>24
      DEF RejectWaiting, harnessVars
    <3> QED BY <3>1  DEF IInv, TypeInv, HarnessTypes
  <2> QED BY <1>1, <2>1, <2>2, <2>3, <2>4, <2>5, <2>6, <2>7, <2>8, <2>9,
   <2>10, <2>11, <2>12, <2>13, <2>14, <2>15, <2>16, <2>17, <2>18, <2>19,
   <2>20, <2>21, <2>22, <2>23, <2>24 DEF HarnessStep
<1>2. ASSUME NEW a \in Agents, LibraryStep(a) PROVE hpc'[b] = "gone"
  <2>1. ASSUME (\E result \in Outcomes : TurnEnds(a, result)) \/ EventsEnd(a) \/
              EventsDone(a)
       PROVE  hpc'[b] = "gone"
    <3>1. UNCHANGED <<hpc>>
      BY <2>1
      DEF TurnEnds, EventsEnd, harnessVars, EventsDone
    <3> QED BY <3>1  DEF IInv, TypeInv, HarnessTypes
  <2> QED BY <1>2, <2>1 DEF LibraryStep
<1>3. ASSUME NEW c \in Calls, CallStep(c) \/ CallDropped(c) PROVE hpc'[b] = "gone"
  <2>1. ASSUME NEW a \in Agents, SpawnInsert(c, a) PROVE hpc'[b] = "gone"
    BY <2>1
    DEF IInv, TypeInv, HarnessTypes, HarnessInv, AbsentAt, SpawnInv,
       SpawnInsert, Goto, InsertRefused, ParentStopped, Stopped, Root
  <2>2. CASE FinishLate(c)
    BY <2>2
    DEF IInv, TypeInv, HarnessTypes, FinishLate, CleanUp, AllInactive,
       Unfinished, None, NoChange, EmptyBox
  <2>3. ASSUME SpawnReserveId(c) \/ SpawnFails(c) \/ SpawnReturns(c) \/ (\E a \in
              Agents : SpawnLaunch(c, a)) \/ StopSend(c) \/ InterruptReturns(c) \/
              CloseInactive(c) \/ FinishClose(c) \/ CloseReturns(c) \/ SendCommit(c)
              \/ SendReturns(c) \/ CallDropped(c)
       PROVE  hpc'[b] = "gone"
    <3>1. UNCHANGED <<hpc>>
      BY <2>3
      DEF SpawnReserveId, harnessVars, SpawnFails, SpawnReturns, OnlyCalls,
         SpawnLaunch, StopSend, InterruptReturns, CloseInactive, FinishClose,
         CloseReturns, SendCommit, SendReturns, CallDropped
    <3> QED BY <3>1  DEF IInv, TypeInv, HarnessTypes
  <2> QED BY <1>3, <2>1, <2>2, <2>3 DEF CallStep
<1>4. ASSUME NEW c \in Calls, NEW session \in Sessions, CallBegins(c, session) PROVE hpc'[b] = "gone"
  <2>1. ASSUME SpawnReserveTurn(c, session) \/ (\E operation \in Stops, target \in
              Sessions : StopRequest(c, session, operation, target)) \/ (\E a \in
              Agents, urgent \in BOOLEAN, delegate \in BOOLEAN : SendPrepare(c,
              session, a, urgent, delegate))
       PROVE  hpc'[b] = "gone"
    <3>1. UNCHANGED <<hpc>>
      BY <2>1
      DEF SpawnReserveTurn, harnessVars, StopRequest, SendPrepare
    <3> QED BY <3>1  DEF IInv, TypeInv, HarnessTypes
  <2> QED BY <1>4, <2>1 DEF CallBegins
<1>5. ASSUME Disturbance PROVE hpc'[b] = "gone"
  <2>1. ASSUME (\E c \in Calls : StopTimesOut(c)) \/ (\E c \in Calls :
              JoinTimesOut(c)) \/ (\E a \in Agents : Submit(a)) \/ (\E a \in Agents
              : DriverDies(a)) \/ (\E n \in Limits : SetLimit(n))
       PROVE  hpc'[b] = "gone"
    <3>1. UNCHANGED <<hpc>>
      BY <2>1
      DEF StopTimesOut, OnlyCalls, harnessVars, JoinTimesOut, Submit,
         DriverDies, SetLimit
    <3> QED BY <3>1  DEF IInv, TypeInv, HarnessTypes
  <2> QED BY <1>5, <2>1 DEF Disturbance
<1> QED BY <1>1, <1>2, <1>3, <1>4, <1>5 DEF Next

(* ... and no turn begins in what a close has marked. *)
LEMMA IdleStays ==
  ASSUME IInv, NEW b \in covered, slot[b] = "idle", Next
  PROVE  slot'[b] = "idle"
<1>1. ASSUME NEW a \in Agents, HarnessStep(a) PROVE slot'[b] = "idle"
  <2>1. CASE TakeStart(a)
    <3>1. status[b] \in Stopped
      BY DEF IInv, CoverInv
    <3>2. slot' = slot \/ (status[a] \in Startable /\ slot' = [slot EXCEPT ![a] = "running"])
      BY <2>1 DEF TakeStart, Prompting, OpenTurn, CanStartTurn, turnVars
    <3> QED
      BY <3>1, <3>2 DEF Startable, Stopped, IInv, TypeInv, SessionTypes, CoverInv, Born
  <2>2. CASE PromptFailed(a)
    BY <2>2
    DEF IInv, TypeInv, SessionTypes, CoverInv, Stopped, Born, Startable,
       PromptFailed, None, EndTurn
  <2>3. ASSUME NEW m \in Messages, Steer(a, m) PROVE slot'[b] = "idle"
    BY <2>3
    DEF IInv, TypeInv, SessionTypes, CoverInv, Stopped, Born, Startable,
       Steerable, Steer, Accepting
  <2>4. ASSUME NEW m \in Messages, DeliverStart(a, m) PROVE slot'[b] = "idle"
    BY <2>4
    DEF IInv, TypeInv, SessionTypes, CoverInv, Stopped, Born, Startable,
       DeliverStart, None, turnVars, CanStartTurn, Prompting, Accepting,
       Steerable, CanDeliver, OpenTurn, EmptyBox, CanReserve
  <2>5. CASE SteerAdmitted(a)
    BY <2>5
    DEF IInv, TypeInv, SessionTypes, CoverInv, Stopped, Born, Startable,
       SteerAdmitted, None, NoChange, FinishSteer
  <2>6. CASE SteerRefused(a)
    BY <2>6
    DEF IInv, TypeInv, SessionTypes, CoverInv, Stopped, Born, Startable,
       SteerRefused, FinishSteer
  <2>7. CASE SteerFailed(a)
    BY <2>7
    DEF IInv, TypeInv, SessionTypes, CoverInv, Stopped, Born, Startable,
       SteerFailed, None, FinishSteer
  <2>8. CASE StartPending(a)
    BY <2>8
    DEF IInv, TypeInv, SessionTypes, CoverInv, Stopped, Born, Startable,
       StartPending, turnVars, EmptyBox, CanReserve, CanStartTurn, Prompting,
       OpenTurn
  <2>9. CASE Publish(a)
    BY <2>9
    DEF IInv, TypeInv, SessionTypes, CoverInv, Stopped, Born, Startable,
       Publish, PublishResult, turnVars, EndTurn
  <2>10. CASE FinishActive(a)
    BY <2>10
    DEF IInv, TypeInv, SessionTypes, CoverInv, Stopped, Born, Startable,
       FinishActive, TurnOver, PublishResult, turnVars, EndTurn
  <2>11. CASE HarnessClosed(a)
    BY <2>11
    DEF IInv, TypeInv, SessionTypes, CoverInv, Stopped, Born, Startable,
       HarnessClosed, MarkClosed, turnVars
  <2>12. ASSUME PromptAccepted(a) \/ TakeDelivery(a) \/ Abandoned(a) \/ (\E m \in
              Messages : DeliverQueue(a, m)) \/ CapacityChanged(a) \/ StopPending(a)
              \/ TurnFinished(a) \/ TakeStop(a) \/ RejectWaiting(a) \/
              UrgentRejected(a) \/ AllRejected(a) \/ Shutdown(a) \/ Release(a)
       PROVE  slot'[b] = "idle"
    <3>1. UNCHANGED <<slot>>
      BY <2>12
      DEF PromptAccepted, sessionVars, turnVars, TakeDelivery, Abandoned,
         DeliverQueue, CapacityChanged, StopPending, TurnFinished, TakeStop,
         RejectWaiting, UrgentRejected, AllRejected, Shutdown, Release
    <3> QED BY <3>1  DEF IInv, TypeInv, SessionTypes, CoverInv, Stopped, Born, Startable
  <2> QED BY <1>1, <2>1, <2>2, <2>3, <2>4, <2>5, <2>6, <2>7, <2>8, <2>9,
   <2>10, <2>11, <2>12 DEF HarnessStep
<1>2. ASSUME NEW a \in Agents, LibraryStep(a) PROVE slot'[b] = "idle"
  <2>1. CASE EventsEnd(a)
    BY <2>1
    DEF IInv, TypeInv, SessionTypes, CoverInv, Stopped, Born, Startable,
       EventsEnd, turnVars, MarkClosed
  <2>2. ASSUME (\E result \in Outcomes : TurnEnds(a, result)) \/ EventsDone(a)
       PROVE  slot'[b] = "idle"
    <3>1. UNCHANGED <<slot>>
      BY <2>2
      DEF TurnEnds, sessionVars, turnVars, EventsDone
    <3> QED BY <3>1  DEF IInv, TypeInv, SessionTypes, CoverInv, Stopped, Born, Startable
  <2> QED BY <1>2, <2>1, <2>2 DEF LibraryStep
<1>3. ASSUME NEW c \in Calls, CallStep(c) \/ CallDropped(c) PROVE slot'[b] = "idle"
  <2>1. ASSUME SpawnReserveId(c) \/ SpawnFails(c) \/ SpawnReturns(c) \/ (\E a \in
              Agents : SpawnInsert(c, a)) \/ (\E a \in Agents : SpawnLaunch(c, a))
              \/ StopSend(c) \/ InterruptReturns(c) \/ CloseInactive(c) \/
              FinishClose(c) \/ CloseReturns(c) \/ FinishLate(c) \/ SendCommit(c) \/
              SendReturns(c) \/ CallDropped(c)
       PROVE  slot'[b] = "idle"
    <3>1. UNCHANGED <<slot>>
      BY <2>1
      DEF SpawnReserveId, turnVars, SpawnFails, sessionVars, SpawnReturns,
         OnlyCalls, SpawnInsert, SpawnLaunch, StopSend, InterruptReturns,
         CloseInactive, FinishClose, CloseReturns, FinishLate, SendCommit,
         SendReturns, CallDropped
    <3> QED BY <3>1  DEF IInv, TypeInv, SessionTypes, CoverInv, Stopped, Born, Startable
  <2> QED BY <1>3, <2>1 DEF CallStep
<1>4. ASSUME NEW c \in Calls, NEW session \in Sessions, CallBegins(c, session) PROVE slot'[b] = "idle"
  <2>1. ASSUME SpawnReserveTurn(c, session) \/ (\E operation \in Stops, target \in
              Sessions : StopRequest(c, session, operation, target)) \/ (\E a \in
              Agents, urgent \in BOOLEAN, delegate \in BOOLEAN : SendPrepare(c,
              session, a, urgent, delegate))
       PROVE  slot'[b] = "idle"
    <3>1. UNCHANGED <<slot>>
      BY <2>1
      DEF SpawnReserveTurn, sessionVars, turnVars, StopRequest, SendPrepare
    <3> QED BY <3>1  DEF IInv, TypeInv, SessionTypes, CoverInv, Stopped, Born, Startable
  <2> QED BY <1>4, <2>1 DEF CallBegins
<1>5. ASSUME Disturbance PROVE slot'[b] = "idle"
  <2>1. ASSUME NEW a \in Agents, Submit(a) PROVE slot'[b] = "idle"
    BY <2>1
    DEF IInv, TypeInv, SessionTypes, CoverInv, Stopped, Born, Startable,
       Submit
  <2>2. ASSUME (\E c \in Calls : StopTimesOut(c)) \/ (\E c \in Calls :
              JoinTimesOut(c)) \/ (\E a \in Agents : DriverDies(a)) \/ (\E n \in
              Limits : SetLimit(n))
       PROVE  slot'[b] = "idle"
    <3>1. UNCHANGED <<slot>>
      BY <2>2
      DEF StopTimesOut, OnlyCalls, sessionVars, turnVars, JoinTimesOut,
         DriverDies, SetLimit
    <3> QED BY <3>1  DEF IInv, TypeInv, SessionTypes, CoverInv, Stopped, Born, Startable
  <2> QED BY <1>5, <2>1, <2>2 DEF Disturbance
<1> QED BY <1>1, <1>2, <1>3, <1>4, <1>5 DEF Next

LEMMA CloseInvKept ==
  ASSUME IInv, Next
  PROVE  CloseInv'
<1>stays. \A b \in Born :
            /\ b \in Born' /\ (hpc[b] = "gone" => hpc'[b] = "gone")
            /\ b \in covered /\ slot[b] = "idle" => slot'[b] = "idle"
  BY BornStays, GoneStays, IdleStays DEF Born
<1>types. CallTypes /\ covered \subseteq Born /\ Born \subseteq Agents
  BY DEF IInv, TypeInv, CoverInv, Born
<1>1. ASSUME NEW a \in Agents, HarnessStep(a) PROVE CloseInv'
  <2>1. CASE TakeStart(a)
    <3>1. commands[a] # << >> /\ CommandTaken(a)
      BY <2>1 DEF TakeStart, IsCommand, CommandTaken
    <3>2. /\ Head(commands[a]) = commands[a][1] /\ 1 \in DOMAIN commands[a]
          /\ \A b \in Agents : \A i \in DOMAIN commands'[b] :
               LET j == IF b = a THEN i + 1 ELSE i IN
               j \in DOMAIN commands[b] /\ commands'[b][i] = commands[b][j]
          /\ \A i \in DOMAIN commands'[a] : i \in Nat /\ i > 0
      BY <3>1, TakenCommand DEF IInv, TypeInv

    <3>3. \A d \in Calls : waits'[d] = waits[d] \/ (waits'[d] \subseteq waits[d] /\ Reached(d, "start"))
      BY <2>1, <3>2, <1>types DEF TakeStart, IsCommand, Reply, IInv, CommandInv, CallTypes
    <3> QED
      BY <2>1, <3>3, <1>stays, <1>types DEF TakeStart, historyVars, CloseInv, IInv, CallTypes, AllInactive, Reached, ClosingPoints
  <2>2. CASE PromptAccepted(a)
    BY <2>2, <1>stays, <1>types
    DEF CloseInv, AllInactive, IInv, CallTypes, ClosingPoints, CommandInv,
       Reached, HarnessTypes, TypeInv, PromptAccepted, None, historyVars,
       NoChange, Reply
  <2>3. CASE PromptFailed(a)
    BY <2>3, <1>stays, <1>types
    DEF CloseInv, AllInactive, IInv, CallTypes, ClosingPoints, CommandInv,
       Reached, HarnessTypes, TypeInv, PromptFailed, None, historyVars, Reply
  <2>4. CASE AllRejected(a)
    BY <2>4, <1>stays, <1>types
    DEF CloseInv, AllInactive, IInv, CallTypes, ClosingPoints, CommandInv,
       Reached, HarnessTypes, TypeInv, AllRejected, historyVars, Reply
  <2>5. CASE Release(a)
    BY <2>5, <1>stays, <1>types
    DEF CloseInv, AllInactive, IInv, CallTypes, ClosingPoints, CommandInv,
       Reached, HarnessTypes, TypeInv, WhyAt, HarnessInv, Stopping, Release,
       historyVars, Reply
  <2>6. CASE HarnessClosed(a)
    BY <2>6, <1>stays, <1>types
    DEF CloseInv, AllInactive, IInv, CallTypes, ClosingPoints, HarnessClosed,
       historyVars, CleanUp, None, NoChange, EmptyBox
  <2>7. ASSUME TakeDelivery(a) \/ Abandoned(a) \/ (\E m \in Messages : Steer(a, m))
              \/ (\E m \in Messages : DeliverStart(a, m)) \/ (\E m \in Messages :
              DeliverQueue(a, m)) \/ SteerAdmitted(a) \/ SteerRefused(a) \/
              SteerFailed(a) \/ CapacityChanged(a) \/ StartPending(a) \/
              StopPending(a) \/ TurnFinished(a) \/ Publish(a) \/ TakeStop(a) \/
              RejectWaiting(a) \/ UrgentRejected(a) \/ Shutdown(a) \/
              FinishActive(a)
       PROVE  CloseInv'
    <3>1. UNCHANGED <<cpc, ids, waits, covered, shut>>
      BY <2>7
      DEF TakeDelivery, callVars, historyVars, Abandoned, Steer, DeliverStart,
         DeliverQueue, SteerAdmitted, SteerRefused, SteerFailed,
         CapacityChanged, StartPending, StopPending, TurnFinished, Publish,
         TakeStop, RejectWaiting, UrgentRejected, Shutdown, FinishActive
    <3> QED BY <3>1, <1>stays, <1>types  DEF CloseInv, AllInactive, IInv, CallTypes, ClosingPoints
  <2> QED BY <1>1, <2>1, <2>2, <2>3, <2>4, <2>5, <2>6, <2>7 DEF HarnessStep
<1>2. ASSUME NEW a \in Agents, LibraryStep(a) PROVE CloseInv'
  <2>1. ASSUME (\E result \in Outcomes : TurnEnds(a, result)) \/ EventsEnd(a) \/
              EventsDone(a)
       PROVE  CloseInv'
    <3>1. UNCHANGED <<cpc, ids, waits, covered, shut>>
      BY <2>1
      DEF TurnEnds, callVars, historyVars, EventsEnd, EventsDone
    <3> QED BY <3>1, <1>stays, <1>types  DEF CloseInv, AllInactive, IInv, CallTypes, ClosingPoints
  <2> QED BY <1>2, <2>1 DEF LibraryStep
<1>3. ASSUME NEW c \in Calls, CallStep(c) \/ CallDropped(c) PROVE CloseInv'
  <2>1. CASE SpawnReserveId(c)
    BY <2>1, <1>stays, <1>types
    DEF CloseInv, AllInactive, IInv, CallTypes, ClosingPoints, SpawnReserveId,
       historyVars, CallAt, ParentStopped, Stopped, Root
  <2>2. CASE SpawnFails(c)
    BY <2>2, <1>stays, <1>types
    DEF CloseInv, AllInactive, IInv, CallTypes, ClosingPoints, SpawnFails,
       historyVars, CallAt, InsertRefused, ParentStopped, Stopped, Root
  <2>3. CASE SpawnReturns(c)
    BY <2>3, <1>stays, <1>types
    DEF CloseInv, AllInactive, IInv, CallTypes, ClosingPoints, SpawnReturns,
       CallAt, Answered, OnlyCalls, historyVars
  <2>4. ASSUME NEW a \in Agents, SpawnInsert(c, a) PROVE CloseInv'
    BY <2>4, <1>stays, <1>types
    DEF CloseInv, AllInactive, IInv, CallTypes, ClosingPoints, SpawnInsert,
       historyVars, CallAt, InsertRefused, ParentStopped, Stopped, Root
  <2>5. ASSUME NEW a \in Agents, SpawnLaunch(c, a) PROVE CloseInv'
    <3>1. a \in handle /\ hpc[a] # "gone" => a \in Born
      BY DEF IInv, HarnessInv, AbsentAt, Born
    <3> QED
      BY <2>5, <3>1, <1>stays, <1>types
      DEF CloseInv, AllInactive, IInv, CallTypes, ClosingPoints, SpawnLaunch, CallAt, historyVars
  <2>6. CASE StopSend(c)
    BY <2>6, <1>stays, <1>types
    DEF CloseInv, AllInactive, IInv, CallTypes, ClosingPoints, StopSend,
       historyVars, CallAt
  <2>7. CASE InterruptReturns(c)
    BY <2>7, <1>stays, <1>types
    DEF CloseInv, AllInactive, IInv, CallTypes, ClosingPoints,
       InterruptReturns, Answered, OnlyCalls, Returns, historyVars, CallAt
  <2>8. CASE CloseInactive(c)
    BY <2>8, <1>stays, <1>types
    DEF CloseInv, AllInactive, IInv, CallTypes, ClosingPoints, CloseInactive,
       CallAt, Answered, OnlyCalls, historyVars
  <2>9. CASE FinishClose(c)
    BY <2>9, <1>stays, <1>types
    DEF CloseInv, AllInactive, IInv, CallTypes, ClosingPoints, FinishClose,
       historyVars, CallAt, Returns
  <2>10. CASE CloseReturns(c)
    BY <2>10, <1>stays, <1>types
    DEF CloseInv, AllInactive, IInv, CallTypes, ClosingPoints, CloseReturns,
       Returns, CallAt
  <2>11. CASE FinishLate(c)
    <3>1. ids[c] \subseteq covered /\ AllInactive(ids[c])
      BY <2>11 DEF FinishLate, IInv, CloseInv, ClosingPoints
    <3>2. /\ UNCHANGED <<slot, ids, covered>> /\ cpc' = [cpc EXCEPT ![c] = "done"]
          /\ \A d \in Calls : waits'[d] \subseteq waits[d] /\ \A b \in waits[d] \ waits'[d] : hpc'[b] = "gone"
      BY <2>11, <1>types DEF FinishLate, Returns, CallAt, CleanUp, Unfinished, CallTypes, IInv, TypeInv, SessionTypes
    <3>3. shut' = shut \/ (shut' = shut \cup ids[c] /\ \A b \in ids[c] : hpc[b] = "gone")
      <4>1. CASE Unfinished(joinable \cap ids[c]) = {}
        <5>1. \A b \in ids[c] : hpc[b] = "gone"
          BY <3>1, <4>1, <1>types DEF Unfinished, IInv, HandleInv
        <5> QED
          BY <2>11, <5>1 DEF FinishLate
      <4>2. CASE Unfinished(joinable \cap ids[c]) # {}
        BY <2>11, <4>2 DEF FinishLate
      <4> QED
        BY <4>1, <4>2
    <3> QED
      BY <3>1, <3>2, <3>3, <1>stays, <1>types DEF CloseInv, AllInactive, IInv, CallTypes, ClosingPoints
  <2>12. CASE SendCommit(c)
    BY <2>12, <1>stays, <1>types
    DEF CloseInv, AllInactive, IInv, CallTypes, ClosingPoints, SendCommit,
       historyVars, CallAt
  <2>13. CASE SendReturns(c)
    BY <2>13, <1>stays, <1>types
    DEF CloseInv, AllInactive, IInv, CallTypes, ClosingPoints, SendReturns,
       historyVars, Returns, Delivered, CallAt
  <2>14. CASE CallDropped(c)
    BY <2>14, <1>stays, <1>types
    DEF CloseInv, AllInactive, IInv, CallTypes, ClosingPoints, CallDropped,
       Root, historyVars, CallAt, Holding
  <2> QED BY <1>3, <2>1, <2>2, <2>3, <2>4, <2>5, <2>6, <2>7, <2>8, <2>9,
   <2>10, <2>11, <2>12, <2>13, <2>14 DEF CallStep
<1>4. ASSUME NEW c \in Calls, NEW session \in Sessions, CallBegins(c, session) PROVE CloseInv'
  <2>1. CASE SpawnReserveTurn(c, session)
    BY <2>1, <1>stays, <1>types
    DEF CloseInv, AllInactive, IInv, CallTypes, ClosingPoints,
       SpawnReserveTurn, historyVars, CanReserve, CallAt, Begins, MayCall,
       Root
  <2>2. ASSUME NEW operation \in Stops, NEW target \in Sessions, StopRequest(c, session, operation, target) PROVE CloseInv'
    <3>1. \A a \in ids'[c] : a \in Born
      BY <2>2, SubtreeIsBorn, <1>types DEF StopRequest, CallTypes
    <3>2. /\ UNCHANGED <<hpc, slot, shut>> /\ covered \subseteq covered'
          /\ \A d \in Calls \ {c} : cpc'[d] = cpc[d] /\ ids'[d] = ids[d] /\ waits'[d] = waits[d]
      BY <2>2, <1>types DEF StopRequest, harnessVars, CallAt, CallTypes
    <3>3. waits'[c] = ids'[c] \cap handle
      BY <2>2, <1>types DEF StopRequest, CallTypes
    <3>4. cpc'[c] = "interrupt_send" \/ (cpc'[c] = "close_send" /\ covered' = covered \cup ids'[c])
      BY <2>2, <1>types DEF StopRequest, CallTypes, CallAt
    <3>5. \A b \in ids'[c] : hpc[b] = "gone" \/ b \in waits'[c]
      BY <3>1, <3>3 DEF IInv, HandleInv
    <3> QED
      BY <3>1, <3>2, <3>3, <3>4, <3>5, <1>stays, <1>types DEF CloseInv, AllInactive, IInv, CallTypes, ClosingPoints
  <2>3. ASSUME NEW a \in Agents, NEW urgent \in BOOLEAN, NEW delegate \in BOOLEAN, SendPrepare(c, session, a, urgent, delegate) PROVE CloseInv'
    BY <2>3, <1>stays, <1>types
    DEF CloseInv, AllInactive, IInv, CallTypes, ClosingPoints, SendPrepare,
       historyVars, CallAt, Begins, MayReceive, MayCall, Stopped, Root
  <2> QED BY <1>4, <2>1, <2>2, <2>3 DEF CallBegins
<1>5. ASSUME Disturbance PROVE CloseInv'
  <2>1. ASSUME NEW c \in Calls, StopTimesOut(c) PROVE CloseInv'
    BY <2>1, <1>stays, <1>types
    DEF CloseInv, AllInactive, IInv, CallTypes, ClosingPoints, StopTimesOut,
       CallAt, OnlyCalls, Returns, historyVars
  <2>2. ASSUME NEW c \in Calls, JoinTimesOut(c) PROVE CloseInv'
    BY <2>2, <1>stays, <1>types
    DEF CloseInv, AllInactive, IInv, CallTypes, ClosingPoints, JoinTimesOut,
       historyVars, Returns, CallAt
  <2>3. ASSUME (\E a \in Agents : Submit(a)) \/ (\E a \in Agents : DriverDies(a)) \/
              (\E n \in Limits : SetLimit(n))
       PROVE  CloseInv'
    <3>1. UNCHANGED <<cpc, ids, waits, covered, shut>>
      BY <2>3
      DEF Submit, callVars, historyVars, DriverDies, SetLimit
    <3> QED BY <3>1, <1>stays, <1>types  DEF CloseInv, AllInactive, IInv, CallTypes, ClosingPoints
  <2> QED BY <1>5, <2>1, <2>2, <2>3 DEF Disturbance
<1> QED BY <1>1, <1>2, <1>3, <1>4, <1>5 DEF Next

-----------------------------------------------------------------------------
(* Counting: holders, spawns and Start commands come and go one at a time. *)
LEMMA CountOne ==
  ASSUME NEW S, IsFiniteSet(S)
  PROVE  /\ Cardinality(S) \in Nat
         /\ \A x : x \notin S => Cardinality(S \cup {x}) = Cardinality(S) + 1
         /\ \A x \in S : Cardinality(S \ {x}) = Cardinality(S) - 1
BY FS_AddElement, FS_RemoveElement, FS_CardinalityType

LEMMA Counted ==
  ASSUME TypeInv
  PROVE  IsFiniteSet(holds) /\ IsFiniteSet(Spawning) /\ IsFiniteSet(Starts(Agents))
<1>1. IsFiniteSet(Agents) /\ IsFiniteSet(Calls)
  BY FS_Interval, SubagentAssumption DEF Agents
<1>2. holds \subseteq Agents /\ Spawning \subseteq Calls /\ Starts(Agents) \subseteq Calls
  BY DEF TypeInv, HarnessTypes, Spawning, Starts
<1> QED
  BY <1>1, <1>2, FS_Subset

LEMMA Counts ==
  ASSUME IInv
  PROVE  /\ reserved \in Nat /\ Cardinality(holds) \in Nat
         /\ Cardinality(Spawning) \in Nat /\ Cardinality(Starts(Agents)) \in Nat
         /\ \A x : x \notin holds => Cardinality(holds \cup {x}) = Cardinality(holds) + 1
         /\ \A x \in holds : Cardinality(holds \ {x}) = Cardinality(holds) - 1
         /\ \A c : c \notin Spawning => Cardinality(Spawning \cup {c}) = Cardinality(Spawning) + 1
         /\ \A c \in Spawning : Cardinality(Spawning \ {c}) = Cardinality(Spawning) - 1
         /\ \A c : c \notin Starts(Agents) =>
              Cardinality(Starts(Agents) \cup {c}) = Cardinality(Starts(Agents)) + 1
         /\ \A c \in Starts(Agents) :
              Cardinality(Starts(Agents) \ {c}) = Cardinality(Starts(Agents)) - 1
<1>1. IsFiniteSet(holds) /\ IsFiniteSet(Spawning) /\ IsFiniteSet(Starts(Agents))
  BY Counted DEF IInv
<1>2. /\ Cardinality(holds) \in Nat
      /\ \A x : x \notin holds => Cardinality(holds \cup {x}) = Cardinality(holds) + 1
      /\ \A x \in holds : Cardinality(holds \ {x}) = Cardinality(holds) - 1
  BY <1>1, CountOne
<1>3. /\ Cardinality(Spawning) \in Nat
      /\ \A c : c \notin Spawning => Cardinality(Spawning \cup {c}) = Cardinality(Spawning) + 1
      /\ \A c \in Spawning : Cardinality(Spawning \ {c}) = Cardinality(Spawning) - 1
  BY <1>1, CountOne
<1>4. /\ Cardinality(Starts(Agents)) \in Nat
      /\ \A c : c \notin Starts(Agents) =>
           Cardinality(Starts(Agents) \cup {c}) = Cardinality(Starts(Agents)) + 1
      /\ \A c \in Starts(Agents) :
           Cardinality(Starts(Agents) \ {c}) = Cardinality(Starts(Agents)) - 1
  BY <1>1, CountOne
<1>5. reserved \in Nat
  BY <1>2, <1>3, <1>4 DEF IInv, CapacityInv
<1> QED
  BY <1>2, <1>3, <1>4, <1>5

LEMMA StartsKept ==
  ASSUME commands' = commands
  PROVE  Starts(Agents)' = Starts(Agents)
BY DEF Starts

LEMMA StartTaken ==
  ASSUME IInv, NEW a \in Agents, commands[a] # << >>, CommandTaken(a)
  PROVE  IF Head(commands[a]).kind = "start"
         THEN /\ Head(commands[a]).from \in Starts(Agents)
              /\ Starts(Agents)' = Starts(Agents) \ {Head(commands[a]).from}
         ELSE Starts(Agents)' = Starts(Agents)
<1> DEFINE first == commands[a][1]
<1>1. /\ Head(commands[a]) = first /\ 1 \in DOMAIN commands[a]
      /\ \A b \in Agents : \A i \in DOMAIN commands'[b] :
           LET j == IF b = a THEN i + 1 ELSE i IN
           j \in DOMAIN commands[b] /\ commands'[b][i] = commands[b][j]
      /\ \A b \in Agents : \A j \in DOMAIN commands[b] :
           (b = a /\ j = 1)
           \/ \E i \in DOMAIN commands'[b] : commands'[b][i] = commands[b][j]
      /\ \A i \in DOMAIN commands'[a] : i \in Nat /\ i > 0
  BY TakenCommand DEF IInv, TypeInv
<1>2. first \in Command
  <2>1. commands[a] \in Seq(Command)
    BY DEF IInv, TypeInv, ChannelTypes
  <2> QED
    BY <1>1, <2>1, ElementOfSeq, LenProperties
<1>3. Starts(Agents)' \subseteq Starts(Agents)
  BY <1>1 DEF Starts
<1>4. \A c \in Starts(Agents) : first # [kind |-> "start", from |-> c] => c \in Starts(Agents)'
  <2> TAKE c \in Starts(Agents)
  <2> HAVE first # [kind |-> "start", from |-> c]
  <2>1. PICK b \in Agents : \E j \in DOMAIN commands[b] : commands[b][j] = [kind |-> "start", from |-> c]
    BY DEF Starts
  <2>2. \E i \in DOMAIN commands'[b] : commands'[b][i] = [kind |-> "start", from |-> c]
    BY <1>1, <2>1
  <2> QED
    BY <2>1, <2>2 DEF Starts
<1>5. CASE first.kind = "start"
  <2>1. first = [kind |-> "start", from |-> first.from]
    BY <1>2, <1>5 DEF Command
  <2>2. first.from \in Calls
    BY <1>1, <1>5 DEF IInv, CommandInv
  <2>3. first.from \in Starts(Agents)
    BY <1>1, <2>1, <2>2 DEF Starts
  <2>4. first.from \notin Starts(Agents)'
    BY SMTT(30), <1>1, <1>5, <2>1 DEF Starts, IInv, OnceInv
  <2> HIDE DEF first
  <2>5. \A c \in Starts(Agents) : c # first.from => c \in Starts(Agents)'
    BY <1>4, <2>1
  <2>6. Starts(Agents)' = Starts(Agents) \ {first.from}
    BY <1>3, <2>4, <2>5
  <2> QED
    BY <1>1, <1>5, <2>3, <2>6
<1>6. CASE first.kind # "start"
  <2> HIDE DEF first
  <2>1. \A c : first # [kind |-> "start", from |-> c]
    BY <1>6
  <2>2. \A c \in Starts(Agents) : c \in Starts(Agents)'
    BY <1>4, <2>1
  <2>3. Starts(Agents)' = Starts(Agents)
    BY <1>3, <2>2
  <2> QED
    BY <1>1, <1>6, <2>3
<1> QED
  BY <1>5, <1>6

LEMMA StartSent ==
  ASSUME ChannelTypes, NEW to, NEW command \in Command, CommandSent(to, command)
  PROVE  /\ command.kind # "start" => Starts(Agents)' = Starts(Agents)
         /\ \A c \in Calls : (to \in SUBSET Agents) /\ (to # {}) /\ (command = [kind |-> "start", from |-> c])
              => Starts(Agents)' = Starts(Agents) \cup {c}
<1>1. \A b \in Agents :
        /\ \A i \in DOMAIN commands[b] :
             i \in DOMAIN commands'[b] /\ commands'[b][i] = commands[b][i]
        /\ \A i \in DOMAIN commands'[b] :
             \/ i \in DOMAIN commands[b] /\ commands'[b][i] = commands[b][i]
             \/ commands'[b][i] = command
        /\ b \in to => \E i \in DOMAIN commands'[b] : commands'[b][i] = command
  BY SentCommand
<1>2. \A c \in Starts(Agents) : c \in Starts(Agents)'
  BY <1>1 DEF Starts
<1>3. \A c \in Starts(Agents)' : c \in Starts(Agents) \/ command = [kind |-> "start", from |-> c]
  BY <1>1 DEF Starts
<1>4. ASSUME command.kind # "start" PROVE Starts(Agents)' = Starts(Agents)
  BY <1>2, <1>3, <1>4
<1>5. ASSUME NEW c \in Calls, to \in SUBSET Agents, to # {}, command = [kind |-> "start", from |-> c]
      PROVE  Starts(Agents)' = Starts(Agents) \cup {c}
  <2>1. c \in Starts(Agents)'
    BY <1>1, <1>5 DEF Starts
  <2>2. \A d \in Starts(Agents)' : d \in Starts(Agents) \/ d = c
    BY <1>3, <1>5
  <2> QED
    BY <1>2, <2>1, <2>2
<1> QED
  BY <1>4, <1>5

(* Harnesses that end give back exactly what they hold.                    *)
LEMMA CleanUpCounts ==
  ASSUME IInv, NEW as \in SUBSET Agents, CleanUp(as), Spawning' = Spawning
  PROVE  CapacityInv'
<1> DEFINE all == Starts(Agents)
           lost == Starts(as)
<1>1. lost \subseteq all
  BY DEF Starts
<1>2. /\ \A a \in as : commands'[a] = << >>
      /\ \A a \in Agents \ as : commands'[a] = commands[a]
  BY DEF CleanUp
<1>3. all' = all \ lost
  <2>1. \A c \in all' : c \in all \ lost
    <3> TAKE c \in all'
    <3>1. PICK b \in Agents : \E i \in DOMAIN commands'[b] : commands'[b][i] = [kind |-> "start", from |-> c]
      BY DEF Starts
    <3>2. PICK i \in DOMAIN commands'[b] : commands'[b][i] = [kind |-> "start", from |-> c]
      BY <3>1
    <3>3. b \notin as /\ commands'[b] = commands[b]
      <4>1. commands'[b] # << >>
        BY <3>2, EmptySeq, LenProperties
      <4> QED
        BY <1>2, <4>1
    <3>4. c \in all
      BY <3>2, <3>3 DEF Starts
    <3>5. \A a \in as : \A j \in DOMAIN commands[a] : commands[a][j] # [kind |-> "start", from |-> c]
      <4> DEFINE start == [kind |-> "start", from |-> c]
      <4>1. start.kind = "start" /\ commands[b][i] = start /\ i \in DOMAIN commands[b]
        BY <3>2, <3>3
      <4> HIDE DEF start
      <4>2. \A a \in as : \A j \in DOMAIN commands[a] : commands[a][j] # start
        BY <3>3, <4>1 DEF IInv, OnceInv
      <4> QED
        BY <4>2 DEF start
    <3> QED
      BY <3>4, <3>5 DEF Starts
  <2>2. \A c \in all \ lost : c \in all'
    BY <1>2 DEF Starts
  <2> QED
    BY <2>1, <2>2
<1>4. IsFiniteSet(holds) /\ IsFiniteSet(all)
  BY Counted DEF IInv
<1>5. holds' = holds \ as /\ reserved' = reserved - (Cardinality(lost) + Cardinality(holds \cap as))
  BY DEF CleanUp, DropCapacity
<1> HIDE DEF all, lost
<1>6. all \cap lost = lost
  BY <1>1
<1>7. Cardinality(holds') = Cardinality(holds) - Cardinality(holds \cap as)
  BY <1>4, <1>5, FS_Difference
<1>8. Cardinality(all') = Cardinality(all) - Cardinality(lost)
  <2>1. Cardinality(all \ lost) = Cardinality(all) - Cardinality(all \cap lost)
    BY <1>4, FS_Difference
  <2> QED
    BY <1>3, <1>6, <2>1
<1>9. IsFiniteSet(lost) /\ IsFiniteSet(holds \cap as)
  BY <1>1, <1>4, FS_Subset
<1>10. /\ Cardinality(lost) \in Nat /\ Cardinality(holds \cap as) \in Nat
       /\ Cardinality(holds) \in Nat /\ Cardinality(all) \in Nat
  BY <1>4, <1>9, FS_CardinalityType
<1>11. reserved = Cardinality(holds) + Cardinality(Spawning) + Cardinality(all) /\ Cardinality(Spawning) \in Nat
  BY Counts DEF IInv, CapacityInv, all
<1> QED
  BY <1>5, <1>7, <1>8, <1>10, <1>11 DEF CapacityInv, all

LEMMA CleanUpWakes ==
  ASSUME IInv, NEW as \in SUBSET Agents, CleanUp(as)
  PROVE  WakeInv'
<1> DEFINE n == Cardinality(Starts(as)) + Cardinality(holds \cap as)
<1>1. n \in Nat
  <2>1. IsFiniteSet(Starts(Agents)) /\ IsFiniteSet(holds)
    BY Counted DEF IInv
  <2>2. Starts(as) \subseteq Starts(Agents)
    BY DEF Starts
  <2>3. IsFiniteSet(Starts(as)) /\ IsFiniteSet(holds \cap as)
    BY <2>1, <2>2, FS_Subset
  <2>4. Cardinality(Starts(as)) \in Nat /\ Cardinality(holds \cap as) \in Nat
    BY <2>3, FS_CardinalityType
  <2>5. \A x, y \in Nat : x + y \in Nat
    OBVIOUS
  <2> QED
    BY <2>4, <2>5
<1>2. /\ reserved' = reserved - n /\ limit' = limit /\ dirty' = IF n > 0 THEN Agents ELSE dirty
      /\ holds' = holds \ as
      /\ \A a \in as : queued'[a] = EmptyBox
      /\ \A a \in Agents \ as : queued'[a] = queued[a] /\ hpc'[a] = hpc[a]
  BY DEF CleanUp, DropCapacity
<1>3. reserved \in Nat
  BY Counts
<1> HIDE DEF n
<1>4. CASE n = 0
  <2>1. reserved' = reserved /\ dirty' = dirty
    BY <1>2, <1>3, <1>4
  <2> QED
    BY <1>2, <2>1 DEF IInv, WakeInv, CanReserve
<1>5. CASE n # 0
  <2>1. dirty' = Agents
    BY <1>1, <1>2, <1>5
  <2> QED
    BY <2>1 DEF WakeInv
<1> QED
  BY <1>4, <1>5

LEMMA CapacityInvKept ==
  ASSUME IInv, Next
  PROVE  CapacityInv'
<1>counts. /\ reserved \in Nat /\ Cardinality(holds) \in Nat
           /\ Cardinality(Spawning) \in Nat /\ Cardinality(Starts(Agents)) \in Nat
           /\ \A x : x \notin holds => Cardinality(holds \cup {x}) = Cardinality(holds) + 1
           /\ \A x \in holds : Cardinality(holds \ {x}) = Cardinality(holds) - 1
           /\ \A c : c \notin Spawning => Cardinality(Spawning \cup {c}) = Cardinality(Spawning) + 1
           /\ \A c \in Spawning : Cardinality(Spawning \ {c}) = Cardinality(Spawning) - 1
           /\ \A c : c \notin Starts(Agents) =>
                Cardinality(Starts(Agents) \cup {c}) = Cardinality(Starts(Agents)) + 1
           /\ \A c \in Starts(Agents) :
                Cardinality(Starts(Agents) \ {c}) = Cardinality(Starts(Agents)) - 1
  BY Counts
<1>is. CapacityInv
  BY DEF IInv
<1>points. cpc \in [Calls -> CallPoints]
  BY DEF IInv, TypeInv, CallTypes
<1>1. ASSUME NEW a \in Agents, HarnessStep(a) PROVE CapacityInv'
  <2>1. CASE TakeStart(a)
    <3> DEFINE c == Head(commands[a]).from
    <3>1. commands[a] # << >> /\ CommandTaken(a) /\ Head(commands[a]).kind = "start"
      BY <2>1 DEF TakeStart, IsCommand, CommandTaken
    <3>2. c \in Starts(Agents) /\ Starts(Agents)' = Starts(Agents) \ {c}
      BY <3>1, StartTaken
    <3>3. Spawning' = Spawning
      BY <2>1 DEF TakeStart, Spawning
    <3>4. \/ a \notin holds /\ holds' = holds \cup {a} /\ reserved' = reserved
          \/ holds' = holds /\ reserved' = reserved - 1
      BY <2>1 DEF TakeStart, Prompting, IsCommand, DropCapacity, capacityVars, IInv, HarnessInv, TurnAt
    <3> HIDE DEF c
    <3> QED
      BY <3>2, <3>3, <3>4, <1>counts, <1>is DEF CapacityInv
  <2>2. CASE PromptFailed(a)
    <3>1. Spawning' = Spawning /\ Starts(Agents)' = Starts(Agents)
      BY <2>2, StartsKept DEF PromptFailed, Spawning, channelVars, callVars
    <3>2. a \in holds /\ holds' = holds \ {a} /\ reserved' = reserved - 1
      BY <2>2 DEF PromptFailed, IInv, HarnessInv, TurnAt, DropCapacity
    <3> QED
      BY <3>1, <3>2, <1>counts, <1>is DEF CapacityInv
  <2>3. ASSUME NEW m \in Messages, DeliverStart(a, m) PROVE CapacityInv'
    <3>1. Spawning' = Spawning /\ Starts(Agents)' = Starts(Agents)
      BY <2>3, StartsKept DEF DeliverStart, Spawning, channelVars, callVars
    <3>2. \/ a \notin holds /\ holds' = holds \cup {a} /\ reserved' = reserved + 1
          \/ holds' = holds /\ reserved' = reserved
      BY <2>3 DEF DeliverStart, IInv, HarnessInv, TurnAt, Acquire, Prompting, Accepting, CanDeliver
    <3> QED
      BY <3>1, <3>2, <1>counts, <1>is DEF CapacityInv
  <2>4. CASE StartPending(a)
    <3>1. Spawning' = Spawning /\ Starts(Agents)' = Starts(Agents)
      BY <2>4, StartsKept DEF StartPending, Spawning, channelVars, callVars
    <3>2. \/ a \notin holds /\ holds' = holds \cup {a} /\ reserved' = reserved + 1
          \/ holds' = holds /\ reserved' = reserved
      BY <2>4 DEF StartPending, IInv, HarnessInv, TurnAt, Acquire, Prompting
    <3> QED
      BY <3>1, <3>2, <1>counts, <1>is DEF CapacityInv
  <2>5. CASE TurnFinished(a)
    <3>1. Spawning' = Spawning /\ Starts(Agents)' = Starts(Agents)
      BY <2>5, StartsKept DEF TurnFinished, Spawning, channelVars, callVars
    <3>2. a \in holds /\ holds' = holds \ {a} /\ reserved' = reserved - 1
      BY <2>5 DEF TurnFinished, IInv, HarnessInv, TurnAt, DropCapacity, TurnOver, NoCommand, Outcomes
    <3> QED
      BY <3>1, <3>2, <1>counts, <1>is DEF CapacityInv
  <2>6. CASE TakeStop(a)
    <3>1. commands[a] # << >> /\ CommandTaken(a) /\ Head(commands[a]).kind # "start"
      BY <2>6 DEF TakeStop, IsCommand, CommandTaken
    <3>2. Starts(Agents)' = Starts(Agents)
      BY <3>1, StartTaken
    <3>3. Spawning' = Spawning /\ holds' = holds /\ reserved' = reserved
      BY <2>6 DEF TakeStop, Spawning, callVars, capacityVars
    <3> QED
      BY <3>2, <3>3, <1>is DEF CapacityInv
  <2>7. CASE Release(a)
    <3>1. Spawning' = Spawning /\ Starts(Agents)' = Starts(Agents)
      BY <2>7, StartsKept DEF Release, Spawning, channelVars, callVars
    <3>2. a \in holds /\ holds' = holds \ {a} /\ reserved' = reserved - 1
      BY <2>7 DEF Release, IInv, HarnessInv, TurnAt, DropCapacity
    <3> QED
      BY <3>1, <3>2, <1>counts, <1>is DEF CapacityInv
  <2>8. CASE HarnessClosed(a)
    <3>1. Spawning' = Spawning /\ CleanUp({a}) /\ {a} \in SUBSET Agents
      BY <2>8 DEF HarnessClosed, Spawning
    <3> QED
      BY <3>1, CleanUpCounts
  <2>9. ASSUME PromptAccepted(a) \/ TakeDelivery(a) \/ Abandoned(a) \/ (\E m \in
              Messages : Steer(a, m)) \/ (\E m \in Messages : DeliverQueue(a, m)) \/
              SteerAdmitted(a) \/ SteerRefused(a) \/ SteerFailed(a) \/
              CapacityChanged(a) \/ StopPending(a) \/ Publish(a) \/ RejectWaiting(a)
              \/ UrgentRejected(a) \/ AllRejected(a) \/ Shutdown(a) \/
              FinishActive(a)
       PROVE  CapacityInv'
    <3>1. UNCHANGED <<reserved, holds, commands, cpc>>
      BY <2>9
      DEF PromptAccepted, capacityVars, channelVars, TakeDelivery, callVars,
         Abandoned, Steer, DeliverQueue, SteerAdmitted, SteerRefused,
         SteerFailed, CapacityChanged, StopPending, Publish, RejectWaiting,
         harnessVars, UrgentRejected, AllRejected, Shutdown, FinishActive
    <3> QED BY <3>1  DEF CapacityInv, Spawning, Starts, IInv
  <2> QED BY <1>1, <2>1, <2>2, <2>3, <2>4, <2>5, <2>6, <2>7, <2>8, <2>9 DEF HarnessStep
<1>2. ASSUME NEW a \in Agents, LibraryStep(a) PROVE CapacityInv'
  <2>1. CASE EventsEnd(a)
    <3> DEFINE command == [kind |-> "close", from |-> Nobody]
    <3>1. command \in Command /\ command.kind # "start"
      BY DEF Command
    <3>2. commands' = commands \/ CommandSent({a}, command)
      BY <2>1, EventsSend DEF IInv, TypeInv
    <3>3. Spawning' = Spawning /\ holds' = holds /\ reserved' = reserved
      BY <2>1 DEF EventsEnd, Spawning, callVars, capacityVars, harnessVars
    <3> HIDE DEF command
    <3>4. Starts(Agents)' = Starts(Agents)
      BY <3>1, <3>2, StartSent, StartsKept DEF IInv, TypeInv
    <3> QED
      BY <3>3, <3>4, <1>is DEF CapacityInv
  <2>2. ASSUME (\E result \in Outcomes : TurnEnds(a, result)) \/ EventsDone(a)
       PROVE  CapacityInv'
    <3>1. UNCHANGED <<reserved, holds, commands, cpc>>
      BY <2>2
      DEF TurnEnds, capacityVars, channelVars, callVars, EventsDone,
         harnessVars
    <3> QED BY <3>1  DEF CapacityInv, Spawning, Starts, IInv
  <2> QED BY <1>2, <2>1, <2>2 DEF LibraryStep
<1>3. ASSUME NEW c \in Calls, CallStep(c) \/ CallDropped(c) PROVE CapacityInv'
  <2>1. CASE SpawnReserveId(c)
    <3>1. holds' = holds /\ Starts(Agents)' = Starts(Agents)
      BY <2>1, StartsKept DEF SpawnReserveId, harnessVars, channelVars, OnlyCalls
    <3>2. (c \in Spawning /\ Spawning' = Spawning \ {c} /\ reserved' = reserved - 1) \/ (Spawning' = Spawning /\ reserved' = reserved)
      BY <2>1, <1>points DEF SpawnReserveId, CallAt, DropCapacity, capacityVars, Spawning, Holding
    <3> QED
      BY <3>1, <3>2, <1>counts, <1>is DEF CapacityInv
  <2>2. CASE SpawnFails(c)
    <3>1. holds' = holds /\ Starts(Agents)' = Starts(Agents)
      BY <2>2, StartsKept DEF SpawnFails, harnessVars, channelVars, OnlyCalls
    <3>2. c \in Spawning /\ Spawning' = Spawning \ {c} /\ reserved' = reserved - 1
      BY <2>2, <1>points DEF SpawnFails, CallAt, DropCapacity, Spawning, Holding
    <3> QED
      BY <3>1, <3>2, <1>counts, <1>is DEF CapacityInv
  <2>3. CASE SpawnReturns(c)
    <3>1. holds' = holds /\ Starts(Agents)' = Starts(Agents)
      BY <2>3, StartsKept DEF SpawnReturns, harnessVars, channelVars, OnlyCalls
    <3>2. Spawning' = Spawning /\ reserved' = reserved
      BY <2>3, <1>points DEF SpawnReturns, CallAt, capacityVars, OnlyCalls, Spawning, Holding
    <3> QED
      BY <3>1, <3>2, <1>counts, <1>is DEF CapacityInv
  <2>4. ASSUME NEW a \in Agents, SpawnInsert(c, a) PROVE CapacityInv'
    <3>1. holds' = holds /\ Starts(Agents)' = Starts(Agents)
      BY <2>4, StartsKept DEF SpawnInsert, harnessVars, channelVars, OnlyCalls
    <3>2. Spawning' = Spawning /\ reserved' = reserved
      BY <2>4, <1>points DEF SpawnInsert, CallAt, capacityVars, OnlyCalls, Spawning, Holding
    <3> QED
      BY <3>1, <3>2, <1>counts, <1>is DEF CapacityInv
  <2>5. ASSUME NEW a \in Agents, SpawnLaunch(c, a) PROVE CapacityInv'
    <3> DEFINE command == [kind |-> "start", from |-> c]
    <3>1. command \in Command
      BY DEF Command
    <3>2. c \in Spawning /\ c \notin Starts(Agents)
      <4>1. cpc[c] = "spawn_start" /\ c # Nobody
        BY <2>5, SubagentAssumption DEF SpawnLaunch
      <4> QED
        BY <4>1 DEF Spawning, Holding, Starts, IInv, CommandInv, Reached
    <3>3. holds' = holds
      BY <2>5 DEF SpawnLaunch, harnessVars
    <3>4. Spawning' = Spawning \ {c}
      BY <2>5, <1>points DEF SpawnLaunch, Spawning, Holding, CallAt
    <3>5. CASE commands' = commands
      <4>1. reserved' = reserved - 1
        <5>1. commands[a] # Append(commands[a], command)
          <6>1. commands[a] \in Seq(Command)
            BY DEF IInv, TypeInv, ChannelTypes
          <6> HIDE DEF command
          <6> QED
            BY <3>1, <6>1, AppendProperties, LenProperties
        <5> QED
          BY <2>5, <3>5, <5>1 DEF SpawnLaunch, DropCapacity, IInv, TypeInv, ChannelTypes
      <4> QED
        BY <3>2, <3>3, <3>4, <3>5, <4>1, StartsKept, <1>counts, <1>is DEF CapacityInv
    <3>6. CASE commands' # commands
      <4>1. CommandSent({a}, command)
        BY <2>5, <3>6, SpawnSends DEF IInv, TypeInv
      <4>2. reserved' = reserved
        BY <2>5, <3>6 DEF SpawnLaunch, capacityVars
      <4>3. Starts(Agents)' = Starts(Agents) \cup {c}
        BY <3>1, <4>1, StartSent DEF IInv, TypeInv
      <4> QED
        BY <3>2, <3>3, <3>4, <4>2, <4>3, <1>counts, <1>is DEF CapacityInv
    <3> QED
      BY <3>5, <3>6
  <2>6. CASE StopSend(c)
    <3> DEFINE kind == IF cpc[c] = "close_send" THEN "close" ELSE "interrupt"
               command == [kind |-> kind, from |-> c]
               to == {a \in waits[c] : hpc[a] # "gone"}
    <3>1. command \in Command /\ command.kind # "start"
      BY DEF Command
    <3>2. CommandSent(to, command)
      BY <2>6, StopSends
    <3>3. Spawning' = Spawning /\ holds' = holds /\ reserved' = reserved
      BY <2>6, <1>points DEF StopSend, Spawning, Holding, CallAt, capacityVars, harnessVars
    <3> HIDE DEF command, to, kind
    <3>4. Starts(Agents)' = Starts(Agents)
      BY <3>1, <3>2, StartSent DEF IInv, TypeInv
    <3> QED
      BY <3>3, <3>4, <1>is DEF CapacityInv
  <2>7. CASE InterruptReturns(c)
    <3>1. holds' = holds /\ Starts(Agents)' = Starts(Agents)
      BY <2>7, StartsKept DEF InterruptReturns, harnessVars, channelVars, OnlyCalls
    <3>2. Spawning' = Spawning /\ reserved' = reserved
      BY <2>7, <1>points DEF InterruptReturns, CallAt, capacityVars, OnlyCalls, Returns, Spawning, Holding
    <3> QED
      BY <3>1, <3>2, <1>counts, <1>is DEF CapacityInv
  <2>8. CASE CloseInactive(c)
    <3>1. holds' = holds /\ Starts(Agents)' = Starts(Agents)
      BY <2>8, StartsKept DEF CloseInactive, harnessVars, channelVars, OnlyCalls
    <3>2. Spawning' = Spawning /\ reserved' = reserved
      BY <2>8, <1>points DEF CloseInactive, CallAt, capacityVars, OnlyCalls, Spawning, Holding
    <3> QED
      BY <3>1, <3>2, <1>counts, <1>is DEF CapacityInv
  <2>9. CASE FinishClose(c)
    <3>1. holds' = holds /\ Starts(Agents)' = Starts(Agents)
      BY <2>9, StartsKept DEF FinishClose, harnessVars, channelVars, OnlyCalls
    <3>2. Spawning' = Spawning /\ reserved' = reserved
      BY <2>9, <1>points DEF FinishClose, CallAt, capacityVars, OnlyCalls, Returns, Spawning, Holding
    <3> QED
      BY <3>1, <3>2, <1>counts, <1>is DEF CapacityInv
  <2>10. CASE CloseReturns(c)
    <3>1. holds' = holds /\ Starts(Agents)' = Starts(Agents)
      BY <2>10, StartsKept DEF CloseReturns, harnessVars, channelVars, OnlyCalls
    <3>2. Spawning' = Spawning /\ reserved' = reserved
      BY <2>10, <1>points DEF CloseReturns, CallAt, capacityVars, OnlyCalls, Returns, Spawning, Holding
    <3> QED
      BY <3>1, <3>2, <1>counts, <1>is DEF CapacityInv
  <2>11. CASE FinishLate(c)
    <3> DEFINE running == Unfinished(joinable \cap ids[c])
    <3>1. Spawning' = Spawning
      BY <2>11, <1>points DEF FinishLate, Spawning, Holding, Returns, CallAt
    <3>2. CleanUp(running) /\ running \in SUBSET Agents
      BY <2>11 DEF FinishLate, Unfinished, IInv, TypeInv, SessionTypes
    <3> HIDE DEF running
    <3> QED
      BY <3>1, <3>2, CleanUpCounts
  <2>12. CASE SendCommit(c)
    <3>1. holds' = holds /\ Starts(Agents)' = Starts(Agents)
      BY <2>12, StartsKept DEF SendCommit, harnessVars, channelVars, OnlyCalls
    <3>2. Spawning' = Spawning /\ reserved' = reserved
      BY <2>12, <1>points DEF SendCommit, CallAt, capacityVars, OnlyCalls, Spawning, Holding
    <3> QED
      BY <3>1, <3>2, <1>counts, <1>is DEF CapacityInv
  <2>13. CASE SendReturns(c)
    <3>1. holds' = holds /\ Starts(Agents)' = Starts(Agents)
      BY <2>13, StartsKept DEF SendReturns, harnessVars, channelVars, OnlyCalls
    <3>2. Spawning' = Spawning /\ reserved' = reserved
      BY <2>13, <1>points DEF SendReturns, CallAt, capacityVars, OnlyCalls, Returns, Spawning, Holding
    <3> QED
      BY <3>1, <3>2, <1>counts, <1>is DEF CapacityInv
  <2>14. CASE CallDropped(c)
    <3>1. holds' = holds /\ Starts(Agents)' = Starts(Agents)
      BY <2>14, StartsKept DEF CallDropped, harnessVars, channelVars, OnlyCalls
    <3>2. (c \in Spawning /\ Spawning' = Spawning \ {c} /\ reserved' = reserved - 1) \/ (Spawning' = Spawning /\ reserved' = reserved)
      BY <2>14, <1>points DEF CallDropped, CallAt, DropCapacity, capacityVars, Spawning, Holding
    <3> QED
      BY <3>1, <3>2, <1>counts, <1>is DEF CapacityInv
  <2> QED BY <1>3, <2>1, <2>2, <2>3, <2>4, <2>5, <2>6, <2>7, <2>8, <2>9,
   <2>10, <2>11, <2>12, <2>13, <2>14 DEF CallStep
<1>4. ASSUME NEW c \in Calls, NEW session \in Sessions, CallBegins(c, session) PROVE CapacityInv'
  <2>1. CASE SpawnReserveTurn(c, session)
    <3>1. holds' = holds /\ Starts(Agents)' = Starts(Agents)
      BY <2>1, StartsKept DEF SpawnReserveTurn, harnessVars, channelVars, OnlyCalls
    <3>2. c \notin Spawning /\ Spawning' = Spawning \cup {c} /\ reserved' = reserved + 1
      BY <2>1, <1>points DEF SpawnReserveTurn, Begins, CallAt, Acquire, Spawning, Holding
    <3> QED
      BY <3>1, <3>2, <1>counts, <1>is DEF CapacityInv
  <2>2. ASSUME NEW operation \in Stops, NEW target \in Sessions, StopRequest(c, session, operation, target) PROVE CapacityInv'
    <3>1. holds' = holds /\ Starts(Agents)' = Starts(Agents)
      BY <2>2, StartsKept DEF StopRequest, harnessVars, channelVars, OnlyCalls
    <3>2. Spawning' = Spawning /\ reserved' = reserved
      BY <2>2, <1>points DEF StopRequest, CallAt, capacityVars, OnlyCalls, Begins, Spawning, Holding
    <3> QED
      BY <3>1, <3>2, <1>counts, <1>is DEF CapacityInv
  <2>3. ASSUME NEW a \in Agents, NEW urgent \in BOOLEAN, NEW delegate \in BOOLEAN, SendPrepare(c, session, a, urgent, delegate) PROVE CapacityInv'
    <3>1. holds' = holds /\ Starts(Agents)' = Starts(Agents)
      BY <2>3, StartsKept DEF SendPrepare, harnessVars, channelVars, OnlyCalls
    <3>2. Spawning' = Spawning /\ reserved' = reserved
      BY <2>3, <1>points DEF SendPrepare, CallAt, capacityVars, OnlyCalls, Begins, Spawning, Holding
    <3> QED
      BY <3>1, <3>2, <1>counts, <1>is DEF CapacityInv
  <2> QED BY <1>4, <2>1, <2>2, <2>3 DEF CallBegins
<1>5. ASSUME Disturbance PROVE CapacityInv'
  <2>1. ASSUME NEW c \in Calls, StopTimesOut(c) PROVE CapacityInv'
    <3>1. holds' = holds /\ Starts(Agents)' = Starts(Agents)
      BY <2>1, StartsKept DEF StopTimesOut, harnessVars, channelVars, OnlyCalls
    <3>2. Spawning' = Spawning /\ reserved' = reserved
      BY <2>1, <1>points DEF StopTimesOut, CallAt, capacityVars, OnlyCalls, Returns, Spawning, Holding
    <3> QED
      BY <3>1, <3>2, <1>counts, <1>is DEF CapacityInv
  <2>2. ASSUME NEW c \in Calls, JoinTimesOut(c) PROVE CapacityInv'
    <3>1. holds' = holds /\ Starts(Agents)' = Starts(Agents)
      BY <2>2, StartsKept DEF JoinTimesOut, harnessVars, channelVars, OnlyCalls
    <3>2. Spawning' = Spawning /\ reserved' = reserved
      BY <2>2, <1>points DEF JoinTimesOut, CallAt, capacityVars, OnlyCalls, Returns, Spawning, Holding
    <3> QED
      BY <3>1, <3>2, <1>counts, <1>is DEF CapacityInv
  <2>3. ASSUME (\E a \in Agents : Submit(a)) \/ (\E a \in Agents : DriverDies(a)) \/
              (\E n \in Limits : SetLimit(n))
       PROVE  CapacityInv'
    <3>1. UNCHANGED <<reserved, holds, commands, cpc>>
      BY <2>3
      DEF Submit, capacityVars, harnessVars, channelVars, callVars,
         DriverDies, SetLimit
    <3> QED BY <3>1  DEF CapacityInv, Spawning, Starts, IInv
  <2> QED BY <1>5, <2>1, <2>2, <2>3 DEF Disturbance
<1> QED BY <1>1, <1>2, <1>3, <1>4, <1>5 DEF Next

LEMMA WakeInvKept ==
  ASSUME IInv, Next
  PROVE  WakeInv'
<1>numbers. reserved \in Nat /\ limit \in Nat
  BY Counts, SubagentAssumption DEF IInv, TypeInv, HarnessTypes
<1>1. ASSUME NEW a \in Agents, HarnessStep(a) PROVE WakeInv'
  <2>1. CASE TakeStart(a)
    BY <2>1, <1>numbers
    DEF WakeInv, CanReserve, IInv, HarnessInv, TurnAt, TypeInv, HarnessTypes,
       ChannelTypes, TakeStart, None, capacityVars, DropCapacity,
       CanStartTurn, Prompting, IsCommand, Startable, Goto
  <2>2. CASE PromptAccepted(a)
    BY <2>2, <1>numbers
    DEF WakeInv, CanReserve, IInv, HarnessInv, TurnAt, TypeInv, HarnessTypes,
       ChannelTypes, PromptAccepted, None, capacityVars, NoChange, Goto
  <2>3. CASE PromptFailed(a)
    BY <2>3, <1>numbers
    DEF WakeInv, CanReserve, IInv, HarnessInv, TurnAt, TypeInv, HarnessTypes,
       ChannelTypes, PromptFailed, None, DropCapacity, Goto
  <2>4. CASE TakeDelivery(a)
    BY <2>4, <1>numbers
    DEF WakeInv, CanReserve, IInv, HarnessInv, TurnAt, TypeInv, HarnessTypes,
       ChannelTypes, TakeDelivery, capacityVars, EmptyBox, Goto, NoCommand
  <2>5. CASE Abandoned(a)
    BY <2>5, <1>numbers
    DEF WakeInv, CanReserve, IInv, HarnessInv, TurnAt, TypeInv, HarnessTypes,
       ChannelTypes, Abandoned, None, capacityVars, Goto
  <2>6. ASSUME NEW m \in Messages, Steer(a, m) PROVE WakeInv'
    BY <2>6, <1>numbers
    DEF WakeInv, CanReserve, IInv, HarnessInv, TurnAt, TypeInv, HarnessTypes,
       ChannelTypes, Steer, capacityVars, Goto, Accepting, Steerable
  <2>7. ASSUME NEW m \in Messages, DeliverStart(a, m) PROVE WakeInv'
    BY <2>7, <1>numbers
    DEF WakeInv, CanReserve, IInv, HarnessInv, TurnAt, TypeInv, HarnessTypes,
       ChannelTypes, DeliverStart, None, Acquire, CanStartTurn, Goto,
       Prompting, Accepting, Steerable, CanDeliver, Startable, EmptyBox
  <2>8. ASSUME NEW m \in Messages, DeliverQueue(a, m) PROVE WakeInv'
    BY <2>8, <1>numbers
    DEF WakeInv, CanReserve, IInv, HarnessInv, TurnAt, TypeInv, HarnessTypes,
       ChannelTypes, DeliverQueue, capacityVars, Accepting, Steerable,
       QueueDelivery, CanDeliver, None, Goto, EmptyBox
  <2>9. CASE SteerAdmitted(a)
    BY <2>9, <1>numbers
    DEF WakeInv, CanReserve, IInv, HarnessInv, TurnAt, TypeInv, HarnessTypes,
       ChannelTypes, SteerAdmitted, None, capacityVars, NoChange, Goto
  <2>10. CASE SteerRefused(a)
    BY <2>10, <1>numbers
    DEF WakeInv, CanReserve, IInv, HarnessInv, TurnAt, TypeInv, HarnessTypes,
       ChannelTypes, SteerRefused, capacityVars, QueueDelivery, None, Goto
  <2>11. CASE SteerFailed(a)
    BY <2>11, <1>numbers
    DEF WakeInv, CanReserve, IInv, HarnessInv, TurnAt, TypeInv, HarnessTypes,
       ChannelTypes, SteerFailed, None, capacityVars, Goto
  <2>12. CASE CapacityChanged(a)
    BY <2>12, <1>numbers
    DEF WakeInv, CanReserve, IInv, HarnessInv, TurnAt, TypeInv, HarnessTypes,
       ChannelTypes, CapacityChanged, EmptyBox, Goto, NoCommand
  <2>13. CASE StartPending(a)
    BY <2>13, <1>numbers
    DEF WakeInv, CanReserve, IInv, HarnessInv, TurnAt, TypeInv, HarnessTypes,
       ChannelTypes, StartPending, EmptyBox, Acquire, CanStartTurn, Prompting,
       Startable, Goto
  <2>14. CASE StopPending(a)
    BY <2>14, <1>numbers
    DEF WakeInv, CanReserve, IInv, HarnessInv, TurnAt, TypeInv, HarnessTypes,
       ChannelTypes, StopPending, capacityVars, EmptyBox, Goto
  <2>15. CASE TurnFinished(a)
    BY <2>15, <1>numbers
    DEF WakeInv, CanReserve, IInv, HarnessInv, TurnAt, TypeInv, HarnessTypes,
       ChannelTypes, TurnFinished, EmptyBox, DropCapacity, Goto, NoCommand,
       TurnOver
  <2>16. CASE Publish(a)
    BY <2>16, <1>numbers
    DEF WakeInv, CanReserve, IInv, HarnessInv, TurnAt, TypeInv, HarnessTypes,
       ChannelTypes, Publish, capacityVars, Goto
  <2>17. CASE TakeStop(a)
    BY <2>17, <1>numbers
    DEF WakeInv, CanReserve, IInv, HarnessInv, TurnAt, TypeInv, HarnessTypes,
       ChannelTypes, TakeStop, capacityVars, Goto, IsCommand
  <2>18. CASE UrgentRejected(a)
    BY <2>18, <1>numbers
    DEF WakeInv, CanReserve, IInv, HarnessInv, TurnAt, TypeInv, HarnessTypes,
       ChannelTypes, UrgentRejected, capacityVars, Goto
  <2>19. CASE AllRejected(a)
    BY <2>19, <1>numbers
    DEF WakeInv, CanReserve, IInv, HarnessInv, TurnAt, TypeInv, HarnessTypes,
       ChannelTypes, AllRejected, capacityVars, Goto, FailPending, EmptyBox
  <2>20. CASE Shutdown(a)
    BY <2>20, <1>numbers
    DEF WakeInv, CanReserve, IInv, HarnessInv, TurnAt, TypeInv, HarnessTypes,
       ChannelTypes, Shutdown, capacityVars, Goto
  <2>21. CASE FinishActive(a)
    BY <2>21, <1>numbers
    DEF WakeInv, CanReserve, IInv, HarnessInv, TurnAt, TypeInv, HarnessTypes,
       ChannelTypes, FinishActive, capacityVars, Goto, TurnOver
  <2>22. CASE Release(a)
    BY <2>22, <1>numbers
    DEF WakeInv, CanReserve, IInv, HarnessInv, TurnAt, TypeInv, HarnessTypes,
       ChannelTypes, Release, DropCapacity, Goto
  <2>23. CASE HarnessClosed(a)
    <3>1. {a} \in SUBSET Agents /\ CleanUp({a}) /\ limit' = limit
      BY <2>23 DEF HarnessClosed, CleanUp, DropCapacity
    <3> QED
      BY <3>1, CleanUpWakes
  <2>24. ASSUME RejectWaiting(a)
       PROVE  WakeInv'
    <3>1. UNCHANGED <<reserved, limit, dirty, hpc, holds, queued>>
      BY <2>24
      DEF RejectWaiting, capacityVars, harnessVars
    <3> QED BY <3>1, <1>numbers  DEF WakeInv, CanReserve, IInv, HarnessInv, TurnAt, TypeInv,
         HarnessTypes, ChannelTypes
  <2> QED BY <1>1, <2>1, <2>2, <2>3, <2>4, <2>5, <2>6, <2>7, <2>8, <2>9,
   <2>10, <2>11, <2>12, <2>13, <2>14, <2>15, <2>16, <2>17, <2>18, <2>19,
   <2>20, <2>21, <2>22, <2>23, <2>24 DEF HarnessStep
<1>2. ASSUME NEW a \in Agents, LibraryStep(a) PROVE WakeInv'
  <2>1. ASSUME (\E result \in Outcomes : TurnEnds(a, result)) \/ EventsEnd(a) \/
              EventsDone(a)
       PROVE  WakeInv'
    <3>1. UNCHANGED <<reserved, limit, dirty, hpc, holds, queued>>
      BY <2>1
      DEF TurnEnds, capacityVars, EventsEnd, harnessVars, EventsDone
    <3> QED BY <3>1, <1>numbers  DEF WakeInv, CanReserve, IInv, HarnessInv, TurnAt, TypeInv,
         HarnessTypes, ChannelTypes
  <2> QED BY <1>2, <2>1 DEF LibraryStep
<1>3. ASSUME NEW c \in Calls, CallStep(c) \/ CallDropped(c) PROVE WakeInv'
  <2>1. CASE SpawnReserveId(c)
    BY <2>1, <1>numbers
    DEF WakeInv, CanReserve, IInv, HarnessInv, TurnAt, TypeInv, HarnessTypes,
       ChannelTypes, SpawnReserveId, capacityVars, harnessVars, DropCapacity,
       ParentStopped, Stopped, Root
  <2>2. CASE SpawnFails(c)
    BY <2>2, <1>numbers
    DEF WakeInv, CanReserve, IInv, HarnessInv, TurnAt, TypeInv, HarnessTypes,
       ChannelTypes, SpawnFails, harnessVars, DropCapacity, InsertRefused,
       ParentStopped, Stopped, Root
  <2>3. ASSUME NEW a \in Agents, SpawnInsert(c, a) PROVE WakeInv'
    BY <2>3, <1>numbers
    DEF WakeInv, CanReserve, IInv, HarnessInv, TurnAt, TypeInv, HarnessTypes,
       ChannelTypes, SpawnInv, AbsentAt, SpawnInsert, Goto, InsertRefused,
       ParentStopped, Stopped, Root
  <2>4. ASSUME NEW a \in Agents, SpawnLaunch(c, a) PROVE WakeInv'
    BY <2>4, <1>numbers
    DEF WakeInv, CanReserve, IInv, HarnessInv, TurnAt, TypeInv, HarnessTypes,
       ChannelTypes, SpawnLaunch, capacityVars, harnessVars, DropCapacity
  <2>5. CASE FinishLate(c)
    <3> DEFINE running == Unfinished(joinable \cap ids[c])
    <3>1. CleanUp(running) /\ running \in SUBSET Agents
      BY <2>5 DEF FinishLate, Unfinished, IInv, TypeInv, SessionTypes
    <3> HIDE DEF running
    <3> QED
      BY <3>1, CleanUpWakes
  <2>6. CASE CallDropped(c)
    BY <2>6, <1>numbers
    DEF WakeInv, CanReserve, IInv, HarnessInv, TurnAt, TypeInv, HarnessTypes,
       ChannelTypes, CallDropped, Root, capacityVars, harnessVars,
       DropCapacity, Holding
  <2>7. ASSUME SpawnReturns(c) \/ StopSend(c) \/ InterruptReturns(c) \/
              CloseInactive(c) \/ FinishClose(c) \/ CloseReturns(c) \/ SendCommit(c)
              \/ SendReturns(c)
       PROVE  WakeInv'
    <3>1. UNCHANGED <<reserved, limit, dirty, hpc, holds, queued>>
      BY <2>7
      DEF SpawnReturns, OnlyCalls, capacityVars, harnessVars, StopSend,
         InterruptReturns, CloseInactive, FinishClose, CloseReturns,
         SendCommit, SendReturns
    <3> QED BY <3>1, <1>numbers  DEF WakeInv, CanReserve, IInv, HarnessInv, TurnAt, TypeInv,
         HarnessTypes, ChannelTypes
  <2> QED BY <1>3, <2>1, <2>2, <2>3, <2>4, <2>5, <2>6, <2>7 DEF CallStep
<1>4. ASSUME NEW c \in Calls, NEW session \in Sessions, CallBegins(c, session) PROVE WakeInv'
  <2>1. CASE SpawnReserveTurn(c, session)
    BY <2>1, <1>numbers
    DEF WakeInv, CanReserve, IInv, HarnessInv, TurnAt, TypeInv, HarnessTypes,
       ChannelTypes, SpawnReserveTurn, harnessVars, Acquire, Begins, MayCall,
       Root
  <2>2. ASSUME (\E operation \in Stops, target \in Sessions : StopRequest(c, session,
              operation, target)) \/ (\E a \in Agents, urgent \in BOOLEAN, delegate
              \in BOOLEAN : SendPrepare(c, session, a, urgent, delegate))
       PROVE  WakeInv'
    <3>1. UNCHANGED <<reserved, limit, dirty, hpc, holds, queued>>
      BY <2>2
      DEF StopRequest, capacityVars, harnessVars, SendPrepare
    <3> QED BY <3>1, <1>numbers  DEF WakeInv, CanReserve, IInv, HarnessInv, TurnAt, TypeInv,
         HarnessTypes, ChannelTypes
  <2> QED BY <1>4, <2>1, <2>2 DEF CallBegins
<1>5. ASSUME Disturbance PROVE WakeInv'
  <2>1. ASSUME NEW n \in Limits, SetLimit(n) PROVE WakeInv'
    BY <2>1, <1>numbers
    DEF WakeInv, CanReserve, IInv, HarnessInv, TurnAt, TypeInv, HarnessTypes,
       ChannelTypes, SetLimit, harnessVars
  <2>2. ASSUME (\E c \in Calls : StopTimesOut(c)) \/ (\E c \in Calls :
              JoinTimesOut(c)) \/ (\E a \in Agents : Submit(a)) \/ (\E a \in Agents
              : DriverDies(a))
       PROVE  WakeInv'
    <3>1. UNCHANGED <<reserved, limit, dirty, hpc, holds, queued>>
      BY <2>2
      DEF StopTimesOut, OnlyCalls, capacityVars, harnessVars, JoinTimesOut,
         Submit, DriverDies
    <3> QED BY <3>1, <1>numbers  DEF WakeInv, CanReserve, IInv, HarnessInv, TurnAt, TypeInv,
         HarnessTypes, ChannelTypes
  <2> QED BY <1>5, <2>1, <2>2 DEF Disturbance
<1> QED BY <1>1, <1>2, <1>3, <1>4, <1>5 DEF Next

-----------------------------------------------------------------------------
LEMMA TypeInvKept ==
  ASSUME TypeInv, Next
  PROVE  TypeInv'
BY SessionTypesKept, HarnessTypesKept, ChannelTypesKept, MessageTypesKept, CallTypesKept,
   JobInvKept, LockInvKept, DrawnInvKept DEF TypeInv

LEMMA HarnessInvKept ==
  ASSUME IInv, Next
  PROVE  HarnessInv'
<1>1. ASSUME NEW b \in Agents PROVE (TurnAt(b) /\ WhyAt(b) /\ AliveAt(b) /\ AbsentAt(b))'
  BY TurnAtKept, WhyAtKept, AliveAtKept, AbsentAtKept
<1> QED
  BY <1>1 DEF HarnessInv

LEMMA StutterKeeps ==
  ASSUME IInv, UNCHANGED vars
  PROVE  IInv'
<1> USE DEF vars, sessionVars, turnVars, treeVars, ownerVars, capacityVars, harnessVars, stepVars,
            channelVars, libraryVars, messageVars, callVars, historyVars
<1>1. TypeInv'
  BY DEF IInv, TypeInv, SessionTypes, HarnessTypes, ChannelTypes, MessageTypes, CallTypes,
     JobInv, LockInv, DrawnInv
<1>2. HarnessInv'
  BY DEF IInv, HarnessInv, TurnAt, WhyAt, AliveAt, Over, AbsentAt
<1>3. CommandInv' /\ OnceInv'
  BY DEF IInv, CommandInv, Reached, OnceInv
<1>4. SpawnInv' /\ HandleInv' /\ CoverInv' /\ CloseInv'
  BY DEF IInv, SpawnInv, HandleInv, CoverInv, CloseInv, AllInactive, Born
<1>5. CapacityInv' /\ WakeInv'
  BY DEF IInv, CapacityInv, Spawning, Starts, WakeInv, CanReserve
<1> QED
  BY <1>1, <1>2, <1>3, <1>4, <1>5 DEF IInv

LEMMA InitTypes == Init => TypeInv
<1> SUFFICES ASSUME Init PROVE TypeInv
  OBVIOUS
<1>1. SessionTypes
  BY SubagentAssumption DEF Init, SessionTypes, Statuses, SlotStates
<1>2. HarnessTypes
  BY SubagentAssumption DEF Init, HarnessTypes, HarnessPoints, Reasons, Outcomes, NoChange
<1>3. ChannelTypes
  BY EmptyBoxIs, EmptySeq DEF Init, ChannelTypes
<1>4. MessageTypes
  BY SubagentAssumption DEF Init, MessageTypes, Envelope, Agents
<1>5. CallTypes
  BY DEF Init, CallTypes, CallPoints
<1>6. JobInv /\ LockInv
  BY DEF Init, JobInv, LockInv, Locking
<1>7. DrawnInv
  <2>1. MaxMessages \in 0 .. MaxMessages
    BY SubagentAssumption
  <2>2. 0 \in 0 .. MaxMessages /\ \A m \in Messages : commit[m] = "unsent" <=> m > 0
    BY SubagentAssumption DEF Init, Messages
  <2> QED
    BY <2>2 DEF DrawnInv
<1> QED
  BY <1>1, <1>2, <1>3, <1>4, <1>5, <1>6, <1>7 DEF TypeInv

LEMMA InitHolds == Init => IInv
<1> SUFFICES ASSUME Init PROVE IInv
  OBVIOUS
<1>1. TypeInv
  BY InitTypes
<1>2. HarnessInv
  BY SubagentAssumption DEF Init, HarnessInv, TurnAt, WhyAt, Stopping, AliveAt, Over, AbsentAt
<1>3. CommandInv /\ OnceInv
  <2>1. \A a \in Agents : commands[a] = << >> /\ DOMAIN commands[a] = {} /\ asker[a] = Nobody
    BY EmptySeq DEF Init
  <2> QED
    BY <2>1 DEF CommandInv, OnceInv
<1>4. Born = {}
  BY DEF Init, Born
<1>5. SpawnInv /\ HandleInv /\ CoverInv /\ CloseInv
  BY <1>4 DEF Init, SpawnInv, HandleInv, CoverInv, CloseInv, ClosingPoints, AllInactive
<1>6. CapacityInv
  <2>1. \A a \in Agents : DOMAIN commands[a] = {}
    BY EmptySeq DEF Init
  <2>2. holds = {} /\ Spawning = {} /\ Starts(Agents) = {} /\ reserved = 0
    BY <2>1 DEF Init, Spawning, Holding, Starts
  <2> QED
    BY <2>2, FS_EmptySet DEF CapacityInv
<1>7. WakeInv
  BY DEF Init, WakeInv
<1> QED
  BY <1>1, <1>2, <1>3, <1>5, <1>6, <1>7 DEF IInv

LEMMA StepKeeps == IInv /\ [Next]_vars => IInv'
<1>1. CASE Next
  BY <1>1, TypeInvKept, HarnessInvKept, CommandInvKept, OnceInvKept, SpawnInvKept, HandleInvKept,
     CoverInvKept, CloseInvKept, CapacityInvKept, WakeInvKept DEF IInv
<1>2. CASE UNCHANGED vars
  BY <1>2, StutterKeeps
<1> QED
  BY <1>1, <1>2

THEOREM Invariant == Spec => []IInv
<1> QED BY InitHolds, StepKeeps, PTL DEF Spec

-----------------------------------------------------------------------------
(* Every variable keeps its type, whatever the bounds, the limits and the  *)
(* plans of the calls (the state of crates/subagents/src/runtime).         *)
THEOREM Typing == Spec => []TypeOK
<1>1. IInv => TypeOK
  BY Counts DEF IInv, TypeInv, TypeOK
<1> QED
  BY <1>1, Invariant, PTL

(* Capacity is neither lost nor made up, and no turn runs without it       *)
(* (capacity.rs, spawn_agent, start_turn, finish_active).                  *)
THEOREM CapacityIsConserved == Spec => []CapacityConserved
<1>1. IInv => CapacityConserved
  <2> SUFFICES ASSUME IInv PROVE CapacityConserved
    OBVIOUS
  <2>1. \A a \in Agents : turn[a] = "live" => a \in holds
    BY DEF IInv, HarnessInv, TurnAt, Outcomes
  <2> QED
    BY <2>1 DEF IInv, CapacityInv, CapacityConserved, Spawning, Starts
<1> QED
  BY <1>1, Invariant, PTL

(* A child with queued messages learns of a capacity that is free          *)
(* (next_event, Capacity::changed).                                        *)
THEOREM WakeupsAreKept == Spec => []NoLostWakeup
<1>1. IInv => NoLostWakeup
  BY DEF IInv, HarnessInv, TurnAt, WakeInv, NoLostWakeup
<1> QED
  BY <1>1, Invariant, PTL

(* A close covers every descendant that a child has or will ever get,      *)
(* although spawns are in progress (RegistryState::insert).                *)
THEOREM ClosesCoverSubtrees == Spec => []CloseCoversSubtree
<1>1. IInv => CloseCoversSubtree
  <2> SUFFICES ASSUME IInv, NEW a \in covered, NEW d \in Subtree(a) PROVE status[d] \in Stopped
    BY DEF CloseCoversSubtree
  <2>1. covered \in SUBSET Born /\ \A n \in Born : parent[n] \in covered => n \in covered
    BY DEF IInv, CoverInv
  <2>2. d \in covered
    BY <2>1 DEF Subtree
  <2> QED
    BY <2>2 DEF IInv, CoverInv
<1> QED
  BY <1>1, Invariant, PTL

(* A close that says so has left nothing at work, and none finds a turn    *)
(* open when it finishes (stop_and_close, finish_close).                   *)
THEOREM ClosedIsQuiet == Spec => []ClosedMeansQuiet
<1>1. IInv => ClosedMeansQuiet
  <2> SUFFICES ASSUME IInv PROVE ClosedMeansQuiet
    OBVIOUS
  <2>1. \A a \in shut : /\ a \in Agents /\ status[a] \in Stopped /\ slot[a] = "idle"
                         /\ hpc[a] = "gone"
    BY DEF IInv, CloseInv, CoverInv, AllInactive, Born
  <2>2. \A a \in shut : a \notin alive /\ turn[a] = "none" /\ a \notin holds
    BY <2>1 DEF IInv, HarnessInv, AliveAt, Over, TurnAt
  <2> QED
    BY <2>1, <2>2 DEF IInv, CloseInv, ClosedMeansQuiet
<1> QED
  BY <1>1, Invariant, PTL
==============================================================================
