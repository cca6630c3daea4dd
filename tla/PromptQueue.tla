----------------------------- MODULE PromptQueue -----------------------------
(***************************************************************************)
(* The queue of prompts a pane shows while a turn runs:                    *)
(* tui/components/queue.rs.  A queue is [items, early]: the items in their *)
(* order, and how many steers the agent reported as applied before their   *)
(* admission was (applied_steers_waiting_for_ack).  Selection, focus and   *)
(* wording are left out.                                                   *)
(***************************************************************************)
EXTENDS Integers, FiniteSets, Sequences, SequencesExt

EmptyQueue == [items |-> <<>>, early |-> 0]

Item(id, state) == [id |-> id, state |-> state]

Steering(item) == item.state \in {"submitting", "admitted"}
InLane(item)   == Steering(item) \/ item.state = "cancelled"
Waiting(item)  == ~InLane(item)

IdsOf(q) == {q.items[i].id : i \in DOMAIN q.items}

StateOf(q, id) ==
  IF id \in IdsOf(q) THEN q.items[CHOOSE i \in DOMAIN q.items : q.items[i].id = id].state
  ELSE "gone"

HasPendingSteer(q) == \E i \in DOMAIN q.items : Steering(q.items[i])

(* How many of the first items are in the lane, or can be drained.         *)
PrefixLen(items, Test(_)) ==
  CHOOSE n \in 0..Len(items) :
    /\ \A i \in 1..n : Test(items[i])
    /\ n < Len(items) => ~Test(items[n + 1])

LaneLen(items) == PrefixLen(items, InLane)

Ready(item) == item.state \in {"queued", "cancelled"}

Without(items, id) ==
  LET other(item) == item.id # id IN SelectSeq(items, other)

Marked(q, id, state) ==
  [q EXCEPT !.items =
     [i \in DOMAIN q.items |->
        IF q.items[i].id = id THEN Item(id, state) ELSE q.items[i]]]

Removed(q, id) == [q EXCEPT !.items = Without(q.items, id)]
-----------------------------------------------------------------------------
Pushed(q, id) == [q EXCEPT !.items = Append(@, Item(id, "queued"))]

(* steer and steer_failed put an item behind the lane.                     *)
BehindTheLane(q, id, state) ==
  LET others == Without(q.items, id) IN
  [q EXCEPT !.items = InsertAt(others, LaneLen(others) + 1, Item(id, state))]

SteerStarted(q, id) == BehindTheLane(q, id, "submitting")
SteerFailed(q, id) ==
  IF id \in IdsOf(q) THEN BehindTheLane(q, id, "queued") ELSE q

DrainLen(items) == PrefixLen(items, Ready)

Drained(q) == SubSeq(q.items, 1, DrainLen(q.items))
AfterDrain(q) ==
  [q EXCEPT !.items = SubSeq(@, DrainLen(@) + 1, Len(@))]
-----------------------------------------------------------------------------
(* The agent may report a steer as applied before the worker reports its   *)
(* admission: such a report is kept for the next admission.                *)
(* fault: the report is not kept. *)
FaultyEarlyReport(q) == q
EarlyReport(q) ==
  IF \E i \in DOMAIN q.items : q.items[i].state = "submitting"
  THEN [q EXCEPT !.early = @ + 1] ELSE q

(* steer_admitted: the queue, and whether the item was applied already.    *)
AppliedEarly(q, id) == id \in IdsOf(q) /\ q.early > 0

SteerAdmitted(q, id) ==
  IF id \notin IdsOf(q) THEN q
  ELSE IF q.early > 0 THEN [Removed(q, id) EXCEPT !.early = @ - 1]
  ELSE Marked(q, id, "admitted")

(* steer_applied: the report is taken to be about the first item that is   *)
(* admitted, or was before an interrupt.  An agent that drops the steers   *)
(* of an interrupted turn leaves it to be sent again.                      *)
Applicable(q) ==
  {i \in DOMAIN q.items : q.items[i].state \in {"admitted", "cancelled"}}

FirstApplicable(q) ==
  q.items[CHOOSE i \in Applicable(q) : \A j \in Applicable(q) : i <= j]

(* fault: an interrupted steer is sent again whatever the agent did. *)
FaultySentAgain(item, discarded, interrupting) ==
  interrupting \/ item.state = "cancelled"
SentAgain(item, discarded, interrupting) ==
  discarded /\ (interrupting \/ item.state = "cancelled")

SteerApplied(q, discarded, interrupting) ==
  IF Applicable(q) = {} THEN EarlyReport(q)
  ELSE LET item == FirstApplicable(q) IN
       IF SentAgain(item, discarded, interrupting) THEN Marked(q, item.id, "queued")
       ELSE Removed(q, item.id)

(* cancel_steers: the lane first, its steers to be sent again.             *)
(* fault: the steers are dropped with the turn. *)
FaultySteersCancelled(q) ==
  [items |-> SelectSeq(q.items, Waiting), early |-> 0]
SteersCancelled(q) ==
  LET sorted == SelectSeq(q.items, InLane) \o SelectSeq(q.items, Waiting) IN
  [items |-> [i \in DOMAIN sorted |->
                IF InLane(sorted[i]) THEN Item(sorted[i].id, "cancelled") ELSE sorted[i]],
   early |-> 0]
==============================================================================
