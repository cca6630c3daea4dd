------------------------------ MODULE TurnSlot ------------------------------
(***************************************************************************)
(* The turn slot of one child session: crates/subagents/src/turn.rs.       *)
(*                                                                         *)
(* A slot is a record, the operators below are the methods of TurnSlot.  A *)
(* token is a value of the u64 counter "issued"; 0 is never issued and     *)
(* stands for the None of the Option fields.  An output is represented by  *)
(* the token of the prompt it was produced for, which is all that the      *)
(* properties distinguish about it.                                        *)
(***************************************************************************)
EXTENDS Naturals

CONSTANT MaxToken            \* u64::MAX, where checked_add gives None

ASSUME MaxTokenAssumption == MaxToken \in Nat \ {0}

None   == 0
Tokens == 1 .. MaxToken

SlotKinds == {"idle", "running", "steering"}

Slots == [issued : 0 .. MaxToken, kind : SlotKinds, token : 0 .. MaxToken,
          previous : 0 .. MaxToken, submitted : 0 .. MaxToken]

(* TurnSlot::default() *)
FreshSlot == [issued |-> 0, kind |-> "idle", token |-> None,
              previous |-> None, submitted |-> None]

IsActive(s) == s.kind # "idle"

(* The definitions named Faulty... are not part of the specification: each *)
(* is the definition after it with one plausible fault, to show that the   *)
(* properties notice it.                                                   *)

(* issue(): whether the counter can still be incremented.                  *)
CanIssue(s) == s.issued < MaxToken

(* start() returns a token exactly when CanStart; the token is then        *)
(* s.issued + 1.                                                           *)
CanStart(s) == ~IsActive(s) /\ CanIssue(s)

Started(s) == [issued |-> s.issued + 1, kind |-> "running",
               token |-> s.issued + 1, previous |-> None, submitted |-> None]

(* submit(token, output, validator) accepts; otherwise it reports why      *)
(* (NoActiveTurn, TurnSteering, StaleTurnToken, AlreadySubmitted,          *)
(* OutputMismatch) and leaves the slot alone.                              *)
Accepts(s, token, valid) ==
  s.kind = "running" /\ s.token = token /\ s.submitted = None /\ valid

AfterSubmit(s, token, output, valid) ==
  IF Accepts(s, token, valid)
  THEN [issued |-> s.issued, kind |-> "running", token |-> token,
        previous |-> None, submitted |-> output]
  ELSE s

(* fault: a turn that already has its result is steered                    *)
FaultyCanSteer(s) == s.kind = "running" /\ CanIssue(s)

(* begin_steer(): only a running turn without a result is steered.         *)
CanSteer(s) == s.kind = "running" /\ s.submitted = None /\ CanIssue(s)

SteerBegun(s) == [issued |-> s.issued + 1, kind |-> "steering",
                  token |-> s.issued + 1, previous |-> s.token,
                  submitted |-> None]

(* fault: an admitted steer leaves the turn under its previous token       *)
FaultySteerFinished(s, steer, committed) ==
  IF s.kind = "steering" /\ s.token = steer
  THEN [issued |-> s.issued, kind |-> "running", token |-> s.previous,
        previous |-> None, submitted |-> None]
  ELSE s

(* finish_steer(steer, committed): a turn that ended or was replaced in    *)
(* the meantime is left untouched.                                         *)
SteerFinished(s, steer, committed) ==
  IF s.kind = "steering" /\ s.token = steer
  THEN [issued |-> s.issued, kind |-> "running",
        token |-> IF committed THEN s.token ELSE s.previous,
        previous |-> None, submitted |-> None]
  ELSE s

(* fault: a turn that is being steered is not ended                        *)
FaultyFinished(s) ==
  IF s.kind = "steering" THEN s
  ELSE [issued |-> s.issued, kind |-> "idle", token |-> None,
        previous |-> None, submitted |-> None]

(* finish(): the slot becomes idle; its caller reads s.submitted of the    *)
(* slot it took, which is None while steering.                             *)
Finished(s) == [issued |-> s.issued, kind |-> "idle", token |-> None,
                previous |-> None, submitted |-> None]
=============================================================================
