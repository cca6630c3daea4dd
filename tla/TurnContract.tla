---------------------------- MODULE TurnContract ----------------------------
(***************************************************************************)
(* What turn tokens promise (crates/subagents/src/turn.rs:1-6, stated      *)
(* without the slot that implements it): a child works on one prompt at a  *)
(* time; every prompt of a turn carries a number never used before; an     *)
(* urgent message replaces the prompt only while there is no result; and a *)
(* result is accepted at most once per turn, for the prompt being worked   *)
(* on, and never while a replacement is on its way.                        *)
(***************************************************************************)
EXTENDS Naturals

VARIABLES prompt,       \* the prompt being worked on, 0 when no turn is open
          result,       \* the prompt the accepted result answers, 0 for none
          next,         \* the number drawn for a prompt on its way, or 0
          last          \* the last number drawn

vars == <<prompt, result, next, last>>

Init == prompt = 0 /\ result = 0 /\ next = 0 /\ last = 0

Draw == /\ result = 0 /\ next = 0
        /\ last' = last + 1
        /\ next' = last + 1
        /\ UNCHANGED <<prompt, result>>

Give == /\ next # 0
        /\ prompt' = next
        /\ next' = 0
        /\ UNCHANGED <<result, last>>

(* The replacement is refused and the turn goes on under its old prompt.   *)
Withdraw == /\ prompt # 0 /\ next # 0
            /\ next' = 0
            /\ UNCHANGED <<prompt, result, last>>

Accept == /\ prompt # 0 /\ result = 0 /\ next = 0
          /\ result' = prompt
          /\ UNCHANGED <<prompt, next, last>>

End == /\ prompt' = 0 /\ result' = 0 /\ next' = 0
       /\ UNCHANGED last

Next == Draw \/ Give \/ Withdraw \/ Accept \/ End

Spec == Init /\ [][Next]_vars
=============================================================================
