------------------------ MODULE SubagentTablesProofs ------------------------
(***************************************************************************)
(* Proofs about the tables of the subagent runtime: the turns of one       *)
(* child, for every number of tokens, a front-end's roster, for any number *)
(* of children, and the message threads, for any number of messages.       *)
(***************************************************************************)
EXTENDS SubagentTables, Sequences, FiniteSetTheorems, TLAPS

-----------------------------------------------------------------------------
(* The inductive invariant: what the slot holds at each point of the       *)
(* harness, which is why a token that was told to the child and is not the *)
(* prompt's can never be the slot's token while results are accepted.      *)

SlotShape ==
  /\ slot.kind = "idle" => slot.token = None
  /\ slot.kind # "idle" => slot.token \in 1 .. slot.issued
  /\ slot.submitted # None => slot.kind = "running"

HarnessKnowsSlot ==
  /\ harness \notin {"idle", "gone"} => IsActive(slot) \/ status \in Stopped
  /\ IsActive(slot) =>
    /\ harness \in {"prompting", "active", "steering", "steered"}
    /\ harness \in {"prompting", "active"} <=> slot.kind = "running"
    /\ harness = "prompting" => /\ slot.token = quoted
                                /\ slot.submitted = None
                                /\ prompt = None
    /\ harness = "active"    => slot.token = prompt
    /\ harness = "steering"  => /\ slot.token = quoted
                                /\ slot.previous = prompt
                                /\ prompt \in 1 .. slot.issued
    /\ harness = "steered"   => slot.token = quoted /\ quoted = prompt

(* A token on its way has been told to nobody.                             *)
ToldBefore ==
  /\ \A t \in told : t <= slot.issued
  /\ harness \in {"prompting", "steering"} =>
       quoted \in 1 .. slot.issued /\ quoted \notin told

Answered == slot.submitted # None => slot.submitted = slot.token

WaitSees ==
  /\ terminals > 0 => outcome \in WaitTerminal
  /\ waiter # "none" => seen <= terminals
  /\ waiter = "owed" => terminals > seen

TurnInv == /\ TypeOK /\ SlotShape /\ HarnessKnowsSlot /\ ToldBefore
           /\ Answered /\ OpenTurnIsOwned /\ OneOutcomePerTurn /\ WaitSees

-----------------------------------------------------------------------------
(* Every step of the child's turns preserves the invariant.                *)
LEMMA StepKeepsTurnInv == TurnInv /\ [Next]_vars => TurnInv'
<1> SUFFICES ASSUME TurnInv, [Next]_vars PROVE TurnInv'
  OBVIOUS
<1> USE MaxTokenAssumption
<1> USE DEF TurnInv, TypeOK, SlotShape, HarnessKnowsSlot, ToldBefore, Answered,
            OpenTurnIsOwned, OneOutcomePerTurn, WaitSees, Slots, SlotKinds,
            Tokens, None, Statuses, WaitTerminal, Stopped, HarnessStates,
            IsActive
<1>1. CASE StartTurn
  BY <1>1 DEF StartTurn, Startable, CanStart, CanIssue, Started, waitVars
<1>2. CASE PromptAccepted
  BY <1>2 DEF PromptAccepted, registryVars, waitVars
<1>3. CASE PromptFailed
  <2> USE <1>3 DEF PromptFailed, TurnEnds, Finished, SetStatus, childVars, waitVars
  <2>1. TypeOK' OBVIOUS
  <2>2. (SlotShape /\ HarnessKnowsSlot /\ ToldBefore /\ Answered)' OBVIOUS
  <2>3. (OpenTurnIsOwned /\ OneOutcomePerTurn)' OBVIOUS
  <2>4. WaitSees' OBVIOUS
  <2> QED BY <2>1, <2>2, <2>3, <2>4
<1>4. CASE BeginTurnSteer
  BY <1>4 DEF BeginTurnSteer, CanSteer, CanIssue, SteerBegun, childVars, waitVars
<1>5. CASE SteerAdmitted
  BY <1>5 DEF SteerAdmitted, registryVars, waitVars
<1>6. CASE FinishTurnSteer
  BY <1>6 DEF FinishTurnSteer, SteerFinished, childVars, waitVars
<1>7. CASE SubmitResult
  BY <1>7 DEF SubmitResult, AfterSubmit, Accepts, childVars, waitVars
<1>8. CASE \E result \in Results : FinishTurn(result)
  <2> USE <1>8 DEF FinishTurn, StatusAfter, Results, TurnEnds, Finished, SetStatus, registryVars,
              childVars, waitVars
  <2>1. TypeOK' OBVIOUS
  <2>2. (SlotShape /\ HarnessKnowsSlot /\ ToldBefore /\ Answered)' OBVIOUS
  <2>3. (OpenTurnIsOwned /\ OneOutcomePerTurn)' OBVIOUS
  <2>4. WaitSees' OBVIOUS
  <2> QED BY <2>1, <2>2, <2>3, <2>4
<1>9. CASE RequestClose
  BY <1>9 DEF RequestClose, childVars, waitVars
<1>10. CASE FinishClose
  BY <1>10 DEF FinishClose, childVars, waitVars
<1>11. CASE HarnessClosed
  <2> USE <1>11 DEF HarnessClosed, TurnEnds, Finished, childVars, waitVars
  <2>1. TypeOK' OBVIOUS
  <2>2. (SlotShape /\ HarnessKnowsSlot /\ ToldBefore /\ Answered)' OBVIOUS
  <2>3. (OpenTurnIsOwned /\ OneOutcomePerTurn)' OBVIOUS
  <2>4. WaitSees' OBVIOUS
  <2> QED BY <2>1, <2>2, <2>3, <2>4
<1>12. CASE WaitBegins
  BY <1>12 DEF WaitBegins, registryVars, childVars
<1>13. CASE WaitReturns
  BY <1>13 DEF WaitReturns, registryVars, childVars
<1>14. CASE UNCHANGED vars
  BY <1>14 DEF vars, registryVars, childVars, waitVars
<1> QED
  BY <1>1, <1>2, <1>3, <1>4, <1>5, <1>6, <1>7, <1>8, <1>9, <1>10, <1>11, <1>12,
     <1>13, <1>14 DEF Next

-----------------------------------------------------------------------------
(* The invariant holds of every behaviour.                                 *)
LEMMA TurnInvariant == Spec => []TurnInv
<1>1. Init => TurnInv
  BY MaxTokenAssumption
     DEF Init, FreshSlot, TurnInv, TypeOK, SlotShape, HarnessKnowsSlot,
         ToldBefore, Answered, OpenTurnIsOwned, OneOutcomePerTurn, WaitSees,
         Slots, SlotKinds, None, Statuses, Stopped, WaitTerminal,
         HarnessStates, IsActive
<1> QED
  BY <1>1, StepKeepsTurnInv, PTL DEF Spec

(* Every variable keeps its type, the slot's fields included.              *)
THEOREM TypeCorrect == Spec => []TypeOK
<1>1. TurnInv => TypeOK
  BY DEF TurnInv
<1> QED
  BY <1>1, TurnInvariant, PTL

(* An accepted result answers the prompt the child works on: rotating the  *)
(* token shuts out results of earlier turns and of replaced prompts.       *)
THEOREM ResultsAnswerPrompt == Spec => []ResultAnswersPrompt
<1>1. TurnInv => ResultAnswersPrompt
  BY DEF TurnInv, TypeOK, Slots, SlotShape, HarnessKnowsSlot, Answered,
         ResultAnswersPrompt, IsActive, None
<1> QED
  BY <1>1, TurnInvariant, PTL

(* No turn is left open without a harness that will finish it.             *)
THEOREM OpenTurnsAreOwned == Spec => []OpenTurnIsOwned
<1>1. TurnInv => OpenTurnIsOwned
  BY DEF TurnInv
<1> QED
  BY <1>1, TurnInvariant, PTL

(* Turns and outcomes correspond one to one until the child is closed.     *)
THEOREM OutcomesMatchTurns == Spec => []OneOutcomePerTurn
<1>1. TurnInv => OneOutcomePerTurn
  BY DEF TurnInv
<1> QED
  BY <1>1, TurnInvariant, PTL

(* Every turn has an owner while it is open and one outcome afterwards,    *)
(* for every number of steers, late submissions and closes (turn.rs,       *)
(* runtime/mod.rs).                                                        *)
THEOREM TurnsAreSettled == Spec => []TurnsAreAccountedFor
<1>1. OpenTurnIsOwned /\ OneOutcomePerTurn => TurnsAreAccountedFor
  BY DEF TurnsAreAccountedFor
<1> QED
  BY <1>1, OpenTurnsAreOwned, OutcomesMatchTurns, PTL

(* A waiting caller is told of every turn that ended while it waited.      *)
THEOREM WaitersMissNothing == Spec => []NoMissedOutcome
<1>1. TurnInv => NoMissedOutcome
  BY DEF TurnInv, TypeOK, WaitSees, NoMissedOutcome, StatusSince
<1> QED
  BY <1>1, TurnInvariant, PTL

(* Closing and Closed are never left, and no turn is opened in them.       *)
THEOREM StoppedStaysStopped == Spec => StoppedForGood
<1>1. TurnInv /\ [Next]_vars =>
        [(status \in Stopped) => (status' \in Stopped /\ started' = started)]_vars
  BY DEF Next, vars, registryVars, childVars, waitVars, Stopped, Startable,
         SetStatus, StartTurn, PromptAccepted, PromptFailed, BeginTurnSteer,
         SteerAdmitted, FinishTurnSteer, SubmitResult, FinishTurn, StatusAfter,
         RequestClose, FinishClose, HarnessClosed, WaitBegins, WaitReturns
<1> QED
  BY <1>1, TurnInvariant, PTL DEF Spec, StoppedForGood

-----------------------------------------------------------------------------
(* The turns of a child implement the contract of turn tokens: a prompt is *)
(* drawn when a turn or a steer begins and given when the child admits it. *)
THEOREM TurnsKeepContract == Spec => KeepsContract
<1> USE DEF Contract!vars, OnItsWay, IsActive, None
<1>1. Init => Contract!Init
  BY DEF Init, FreshSlot, Contract!Init
<1>2. TurnInv /\ [Next]_vars => [Contract!Next]_(Contract!vars)
  <2> SUFFICES ASSUME TurnInv, [Next]_vars
               PROVE  [Contract!Next]_(Contract!vars)
    OBVIOUS
  <2> USE DEF TurnInv, TypeOK, Slots, SlotShape, HarnessKnowsSlot, ToldBefore,
              Answered, OpenTurnIsOwned, HarnessStates, SlotKinds,
              Contract!Next
  <2>1. CASE StartTurn
    BY <2>1 DEF StartTurn, CanStart, CanIssue, Started, Contract!Draw
  <2>2. CASE PromptAccepted
    BY <2>2 DEF PromptAccepted, registryVars, Contract!Give
  <2>3. CASE PromptFailed
    BY <2>3 DEF PromptFailed, TurnEnds, Finished, Contract!End
  <2>4. CASE BeginTurnSteer
    BY <2>4 DEF BeginTurnSteer, CanSteer, CanIssue, SteerBegun, childVars,
                Contract!Draw
  <2>5. CASE SteerAdmitted
    BY <2>5 DEF SteerAdmitted, registryVars, Contract!Give
  <2>6. CASE FinishTurnSteer
    BY <2>6 DEF FinishTurnSteer, SteerFinished, childVars, Contract!Withdraw
  <2>7. CASE SubmitResult
    BY <2>7 DEF SubmitResult, AfterSubmit, Accepts, Tokens, childVars,
                Contract!Accept
  <2>8. CASE \E result \in Results : FinishTurn(result)
    BY <2>8 DEF FinishTurn, TurnEnds, Finished, registryVars, childVars,
                Contract!End
  <2>9. CASE RequestClose \/ FinishClose
    BY <2>9 DEF RequestClose, FinishClose, childVars
  <2>10. CASE HarnessClosed
    BY <2>10 DEF HarnessClosed, TurnEnds, Finished, childVars, Contract!End
  <2>11. CASE WaitBegins \/ WaitReturns
    BY <2>11 DEF WaitBegins, WaitReturns, registryVars, childVars
  <2>12. CASE UNCHANGED vars
    BY <2>12 DEF vars, registryVars, childVars, waitVars
  <2> QED
    BY <2>1, <2>2, <2>3, <2>4, <2>5, <2>6, <2>7, <2>8, <2>9, <2>10, <2>11,
       <2>12 DEF Next
<1> QED
  BY <1>1, <1>2, TurnInvariant, PTL DEF Spec, KeepsContract, Contract!Spec

-----------------------------------------------------------------------------
(* The roster: for every child, what is shown of it and which updates are  *)
(* on their way.                                                           *)
(* A child that was not announced yet: nothing but that is to be sent, and *)
(* nothing has begun.                                                      *)
Unannounced(a) ==
  /\ roster[a] = "unknown"
  /\ a \notin launched \cup open \cup gone \cup closing
  /\ unsent[a]["harness"] = "none" /\ unsent[a]["closer"] = "none"
  /\ unsent[a]["events"] = "none"
  /\ \/ known[a] = "absent" /\ unsent[a]["spawner"] = "none"
     \/ known[a] = "pending" /\ unsent[a]["spawner"] = "added"

ShownAs(a) == IF known[a] = "pending" THEN "running" ELSE known[a]

(* What is sent last is the status: the harness's update is, or, of a      *)
(* child whose harness has closed, the one of the close or of its events.  *)
ShownAtLast(a) ==
  \/ /\ unsent[a]["closer"] = "none" /\ unsent[a]["events"] = "none"
     /\ \/ unsent[a]["harness"] \in {"none", "added"} /\ roster[a] = ShownAs(a)
        \/ unsent[a]["harness"] = known[a] /\ known[a] # "pending"
  \/ /\ known[a] = "closed" /\ a \in gone \ open /\ unsent[a]["harness"] = "none"
     /\ {unsent[a]["closer"], unsent[a]["events"]} \subseteq {"none", "closed"}
     /\ "closed" \in {unsent[a]["closer"], unsent[a]["events"]}

Announced(a) ==
  /\ roster[a] # "unknown" /\ known[a] # "absent"
  /\ unsent[a]["spawner"] = "none" /\ unsent[a]["events"] \in {"none", "closed"}
  /\ known[a] = "closing" => a \in closing
  /\ a \notin closing => ShownAtLast(a)

ShownAt(a) == a \notin early => Unannounced(a) \/ Announced(a)

RosterInv == Shows!TypeOK /\ \A a \in Shown : ShownAt(a)

-----------------------------------------------------------------------------
LEMMA RosterStepTypes ==
  ASSUME Shows!TypeOK, Shows!Next PROVE Shows!TypeOK'
<1> USE DEF Shows!TypeOK, Shows!Statuses, Shows!Updates, Shows!Tasks, Shows!Stopped,
            Shows!Startable, Shows!Becomes, Shows!Free, Shows!ownVars
<1>1. ASSUME NEW a \in Shown, NEW t \in Shows!Tasks, Shows!Send(a, t)
      PROVE  Shows!TypeOK'
  BY <1>1 DEF Shows!Send, Shows!Applied
<1>2. ASSUME NEW a \in Shown,
             \/ Shows!Insert(a) \/ Shows!Launch(a) \/ Shows!Described(a)
             \/ Shows!TurnStarted(a)
      PROVE  Shows!TypeOK'
  BY <1>2 DEF Shows!Insert, Shows!Launch, Shows!Described, Shows!TurnStarted
<1>3. ASSUME NEW a \in Shown, NEW st \in {"completed", "interrupted", "failed"},
             Shows!TurnFinished(a, st)
      PROVE  Shows!TypeOK'
  BY <1>3 DEF Shows!TurnFinished
<1>4. ASSUME NEW a \in Shown,
             \/ Shows!RequestClose(a) \/ Shows!FinishClose(a)
             \/ Shows!HarnessClosed(a) \/ Shows!EventsClosed(a)
      PROVE  Shows!TypeOK'
  BY <1>4 DEF Shows!RequestClose, Shows!FinishClose, Shows!HarnessClosed,
              Shows!EventsClosed, Shows!WhileUnknown
<1> QED
  BY <1>1, <1>2, <1>3, <1>4 DEF Shows!Next

(* A step of another child.                                                *)
LEMMA OthersAreShown ==
  ASSUME NEW a, ShownAt(a),
         known'[a] = known[a], roster'[a] = roster[a], unsent'[a] = unsent[a],
         a \in launched' <=> a \in launched, a \in open' <=> a \in open,
         a \in gone' <=> a \in gone, a \in closing' <=> a \in closing,
         a \in early' <=> a \in early
  PROVE  ShownAt(a)'
BY DEF ShownAt, Unannounced, Announced, ShownAtLast, ShownAs

LEMMA RosterStepOthers ==
  ASSUME Shows!TypeOK, NEW a \in Shown, NEW b \in Shown, b # a, ShownAt(b),
         \/ \E t \in Shows!Tasks : Shows!Send(a, t)
         \/ Shows!Insert(a) \/ Shows!Launch(a) \/ Shows!Described(a)
         \/ Shows!TurnStarted(a)
         \/ \E st \in {"completed", "interrupted", "failed"} : Shows!TurnFinished(a, st)
         \/ Shows!RequestClose(a) \/ Shows!FinishClose(a)
         \/ Shows!HarnessClosed(a) \/ Shows!EventsClosed(a)
  PROVE  ShownAt(b)'
<1> SUFFICES /\ known'[b] = known[b] /\ roster'[b] = roster[b] /\ unsent'[b] = unsent[b]
             /\ b \in launched' <=> b \in launched
             /\ b \in open' <=> b \in open
             /\ b \in gone' <=> b \in gone
             /\ b \in closing' <=> b \in closing
             /\ b \in early' <=> b \in early
  BY OthersAreShown
<1> USE DEF Shows!TypeOK, Shows!Becomes, Shows!ownVars, Shows!WhileUnknown
<1>1. CASE \E t \in Shows!Tasks : Shows!Send(a, t)
  BY <1>1 DEF Shows!Send
<1>2. CASE Shows!Insert(a) \/ Shows!Launch(a) \/ Shows!Described(a) \/ Shows!TurnStarted(a)
  BY <1>2 DEF Shows!Insert, Shows!Launch, Shows!Described, Shows!TurnStarted
<1>3. CASE \E st \in {"completed", "interrupted", "failed"} : Shows!TurnFinished(a, st)
  BY <1>3 DEF Shows!TurnFinished
<1>4. CASE Shows!RequestClose(a) \/ Shows!FinishClose(a)
  BY <1>4 DEF Shows!RequestClose, Shows!FinishClose
<1>5. CASE Shows!HarnessClosed(a) \/ Shows!EventsClosed(a)
  BY <1>5 DEF Shows!HarnessClosed, Shows!EventsClosed
<1> QED
  BY <1>1, <1>2, <1>3, <1>4, <1>5

(* What a change of one task's update leaves of the others.                *)
LEMMA OneUpdate ==
  ASSUME Shows!TypeOK, NEW a \in Shown, NEW t \in Shows!Tasks, NEW u,
         unsent' = [unsent EXCEPT ![a][t] = u]
  PROVE  /\ unsent'[a][t] = u
         /\ \A s \in Shows!Tasks \ {t} : unsent'[a][s] = unsent[a][s]
BY DEF Shows!TypeOK

(* A step of the child.                                                    *)
LEMMA RosterStepAt ==
  ASSUME Shows!TypeOK, NEW a \in Shown, ShownAt(a),
         \/ \E t \in Shows!Tasks : Shows!Send(a, t)
         \/ Shows!Insert(a) \/ Shows!Launch(a) \/ Shows!Described(a)
         \/ Shows!TurnStarted(a)
         \/ \E st \in {"completed", "interrupted", "failed"} : Shows!TurnFinished(a, st)
         \/ Shows!RequestClose(a) \/ Shows!FinishClose(a)
         \/ Shows!HarnessClosed(a) \/ Shows!EventsClosed(a)
  PROVE  ShownAt(a)'
<1> USE DEF ShownAt, Unannounced, Announced, ShownAtLast, ShownAs
<1> USE DEF Shows!TypeOK, Shows!Statuses, Shows!Updates, Shows!Tasks, Shows!Stopped,
            Shows!Startable, Shows!Becomes, Shows!Free, Shows!ownVars, Shows!WhileUnknown
<1>1. ASSUME NEW t \in Shows!Tasks, Shows!Send(a, t) PROVE ShownAt(a)'
  <2>1. /\ unsent[a][t] # "none" /\ unsent'[a][t] = "none"
        /\ \A s \in Shows!Tasks \ {t} : unsent'[a][s] = unsent[a][s]
        /\ roster'[a] = Shows!Applied(roster[a], unsent[a][t])
        /\ UNCHANGED <<known, launched, open, gone, closing, early>>
    BY <1>1, OneUpdate DEF Shows!Send
  <2>2. ASSUME Unannounced(a) PROVE Announced(a)'
    BY <2>1, <2>2 DEF Shows!Applied
  <2>3. ASSUME Announced(a), t = "harness" PROVE Announced(a)'
    BY <2>1, <2>3 DEF Shows!Applied
  <2>4. ASSUME Announced(a), t = "closer" PROVE Announced(a)'
    BY <2>1, <2>4 DEF Shows!Applied
  <2>5. ASSUME Announced(a), t = "events" PROVE Announced(a)'
    BY <2>1, <2>5 DEF Shows!Applied
  <2>6. t # "spawner" \/ ~Announced(a)
    BY <2>1
  <2> QED
    BY <2>1, <2>2, <2>3, <2>4, <2>5, <2>6
<1>2. CASE Shows!Insert(a)
  BY <1>2, OneUpdate DEF Shows!Insert
<1>3. CASE Shows!Launch(a)
  BY <1>3 DEF Shows!Launch
<1>4. CASE Shows!Described(a)
  BY <1>4, OneUpdate DEF Shows!Described
<1>5. CASE Shows!TurnStarted(a)
  BY <1>5, OneUpdate DEF Shows!TurnStarted
<1>6. ASSUME NEW st \in {"completed", "interrupted", "failed"}, Shows!TurnFinished(a, st)
      PROVE  ShownAt(a)'
  BY <1>6, OneUpdate DEF Shows!TurnFinished
<1>7. CASE Shows!RequestClose(a)
  BY <1>7, OneUpdate DEF Shows!RequestClose
<1>8. CASE Shows!FinishClose(a)
  BY <1>8, OneUpdate DEF Shows!FinishClose
<1>9. CASE Shows!HarnessClosed(a)
  BY <1>9, OneUpdate DEF Shows!HarnessClosed
<1>10. CASE Shows!EventsClosed(a)
  BY <1>10, OneUpdate DEF Shows!EventsClosed
<1> QED
  BY <1>1, <1>2, <1>3, <1>4, <1>5, <1>6, <1>7, <1>8, <1>9, <1>10

(* The invariant holds of every behaviour of the tables.                   *)
LEMMA RosterInvHolds == TablesSpec => []RosterInv
<1>1. TablesInit => RosterInv
  BY DEF TablesInit, RosterInv, Shows!Init, Shows!TypeOK, Shows!Statuses, Shows!Updates,
         Shows!Tasks, ShownAt, Unannounced
<1>2. ASSUME RosterInv, Shows!Next PROVE RosterInv'
  <2>1. PICK a \in Shown :
          \/ \E t \in Shows!Tasks : Shows!Send(a, t)
          \/ Shows!Insert(a) \/ Shows!Launch(a) \/ Shows!Described(a)
          \/ Shows!TurnStarted(a)
          \/ \E st \in {"completed", "interrupted", "failed"} : Shows!TurnFinished(a, st)
          \/ Shows!RequestClose(a) \/ Shows!FinishClose(a)
          \/ Shows!HarnessClosed(a) \/ Shows!EventsClosed(a)
    BY <1>2 DEF Shows!Next
  <2>2. Shows!TypeOK'
    BY <1>2, RosterStepTypes DEF RosterInv
  <2>3. ShownAt(a)'
    BY <1>2, <2>1, RosterStepAt DEF RosterInv
  <2>4. ASSUME NEW b \in Shown, b # a PROVE ShownAt(b)'
    BY <1>2, <2>1, <2>4, RosterStepOthers DEF RosterInv
  <2> QED
    BY <2>2, <2>3, <2>4 DEF RosterInv
<1>3. ASSUME RosterInv, UNCHANGED rosterVars PROVE RosterInv'
  <2>1. Shows!TypeOK'
    BY <1>3 DEF RosterInv, Shows!TypeOK, rosterVars
  <2>2. ASSUME NEW a \in Shown PROVE ShownAt(a)'
    BY <1>3, <2>2, OthersAreShown DEF RosterInv, rosterVars
  <2> QED
    BY <2>1, <2>2 DEF RosterInv
<1>4. RosterInv /\ [TablesNext]_allVars => RosterInv'
  BY <1>2, <1>3 DEF TablesNext, allVars
<1> QED
  BY <1>1, <1>4, PTL DEF TablesSpec

(* Once everything is sent, a child that no close works on and that was    *)
(* announced before it was closed is shown as the registry has it, though  *)
(* its spawner, harness, closer and event task send what they took under   *)
(* the lock after it, in any order (roster.rs, runtime/mod.rs).            *)
THEOREM RosterFollows == TablesSpec => []RosterCatchesUp
<1>1. RosterInv => RosterCatchesUp
  BY DEF RosterInv, RosterCatchesUp, Shows!RosterCatchesUp, Shows!Quiet, Shows!Free,
         Shows!TypeOK, Shows!Statuses, Shows!Updates, Shows!Tasks, ShownAt, Unannounced,
         Announced, ShownAtLast, ShownAs
<1> QED
  BY <1>1, RosterInvHolds, PTL

-----------------------------------------------------------------------------
(* Sequences, by their lengths and places.                                 *)
IsSequence(s) == s \in Seq({s[i] : i \in DOMAIN s})

LEMMA SequenceIs ==
  ASSUME NEW s, IsSequence(s)
  PROVE  /\ Len(s) \in Nat /\ DOMAIN s = 1 .. Len(s)
         /\ s # << >> <=> Len(s) # 0
BY DEF IsSequence

LEMMA EmptyIsSequence == IsSequence(<< >>) /\ Len(<< >>) = 0
BY DEF IsSequence

LEMMA OneIsSequence ==
  ASSUME NEW x PROVE IsSequence(<<x>>) /\ Len(<<x>>) = 1 /\ <<x>>[1] = x
<1>1. DOMAIN <<x>> = {1} /\ <<x>>[1] = x
  OBVIOUS
<1>2. <<x>> \in Seq({x})
  OBVIOUS
<1>3. {<<x>>[i] : i \in DOMAIN <<x>>} = {x}
  BY <1>1
<1> QED
  BY <1>1, <1>2, <1>3 DEF IsSequence

LEMMA AppendIs ==
  ASSUME NEW s, IsSequence(s), NEW x
  PROVE  LET t == Append(s, x) IN
         /\ IsSequence(t) /\ Len(t) = Len(s) + 1
         /\ DOMAIN t = DOMAIN s \cup {Len(s) + 1}
         /\ \A i \in DOMAIN s : t[i] = s[i]
         /\ t[Len(s) + 1] = x
<1> DEFINE A == {s[i] : i \in DOMAIN s} \cup {x}
           t == Append(s, x)
<1>1. s \in Seq(A) /\ x \in A
  BY DEF IsSequence
<1>2. t \in Seq(A) /\ Len(t) = Len(s) + 1
  BY <1>1
<1>3. /\ Len(s) \in Nat /\ DOMAIN s = 1 .. Len(s) /\ DOMAIN t = 1 .. Len(t)
      /\ \A i \in 1 .. Len(s) : t[i] = s[i]
      /\ t[Len(s) + 1] = x
  BY <1>1, <1>2
<1>4. A = {t[i] : i \in DOMAIN t}
  <2>1. \A i \in DOMAIN t : t[i] \in A
    BY <1>2, <1>3
  <2>2. \A a \in A : \E i \in DOMAIN t : t[i] = a
    <3>1. x = t[Len(s) + 1] /\ Len(s) + 1 \in DOMAIN t
      BY <1>2, <1>3
    <3>2. \A i \in DOMAIN s : s[i] = t[i] /\ i \in DOMAIN t
      BY <1>2, <1>3
    <3> QED
      BY <3>1, <3>2
  <2> HIDE DEF A, t
  <2> QED
    BY <2>1, <2>2
<1> HIDE DEF A, t
<1> QED
  BY <1>2, <1>3, <1>4 DEF IsSequence, t

-----------------------------------------------------------------------------
(* What stands at some places of a sequence.  The threads count with the   *)
(* Cardinality of their own instance.                                      *)
LEMMA SameCardinality == \A S : Threads!Cardinality(S) = Cardinality(S)
BY DEF Threads!Cardinality, Cardinality

IsPlaces(places) == IsFiniteSet(places) /\ places \subseteq Nat

LEMMA UpTo ==
  ASSUME NEW n \in Nat PROVE IsFiniteSet(1 .. n) /\ Cardinality(1 .. n) = n
<1>1. 1 \in Int /\ n \in Int
  OBVIOUS
<1>2. IsFiniteSet(1 .. n) /\ Cardinality(1 .. n) = IF 1 > n THEN 0 ELSE n - 1 + 1
  BY <1>1, FS_Interval
<1> QED
  BY <1>2

(* Ranks count the places through.                                         *)
LEMMA RanksCount ==
  ASSUME NEW P, IsPlaces(P)
  PROVE  /\ Cardinality(P) \in Nat
         /\ \A i \in P : Threads!Rank(i, P) \in 1 .. Cardinality(P)
         /\ \A i, j \in P : i < j => Threads!Rank(i, P) < Threads!Rank(j, P)
         /\ \A k \in 1 .. Cardinality(P) : \E i \in P : Threads!Rank(i, P) = k
<1> DEFINE low(i) == {j \in P : j <= i}
           n == Cardinality(P)
           f == [i \in P |-> Threads!Rank(i, P)]
<1>1. n \in Nat
  BY FS_CardinalityType DEF IsPlaces
<1>2. ASSUME NEW i \in P
      PROVE  IsFiniteSet(low(i)) /\ Cardinality(low(i)) \in 1 .. n
  <2>1. low(i) \subseteq P /\ i \in low(i)
    BY DEF IsPlaces
  <2>2. IsFiniteSet(low(i)) /\ Cardinality(low(i)) <= n /\ Cardinality(low(i)) \in Nat
    BY <2>1, FS_Subset, FS_CardinalityType DEF IsPlaces
  <2>3. Cardinality(low(i)) # 0
    BY <2>1, <2>2, FS_EmptySet
  <2> QED
    BY <1>1, <2>2, <2>3
<1>3. ASSUME NEW i \in P, NEW j \in P, i < j
      PROVE  Cardinality(low(i)) < Cardinality(low(j))
  <2>1. low(i) \subseteq low(j) /\ j \in low(j) /\ j \notin low(i)
    <3>1. \A k \in P : k <= i => k <= j
      BY <1>3 DEF IsPlaces
    <3>2. j <= j /\ ~(j <= i)
      BY <1>3 DEF IsPlaces
    <3> QED
      BY <3>1, <3>2
  <2>2. IsFiniteSet(low(i)) /\ IsFiniteSet(low(j))
        /\ Cardinality(low(i)) \in Nat /\ Cardinality(low(j)) \in Nat
    BY <1>2
  <2>3. Cardinality(low(i)) <= Cardinality(low(j))
        /\ (Cardinality(low(i)) = Cardinality(low(j)) => low(i) = low(j))
    BY <2>1, <2>2, FS_Subset
  <2> QED
    BY <2>1, <2>2, <2>3
<1>4. \A i \in P : Threads!Rank(i, P) = Cardinality(low(i))
  BY SameCardinality DEF Threads!Rank
<1> HIDE DEF low
<1>5. f \in Injection(P, 1 .. n)
  <2>1. f \in [P -> 1 .. n]
    BY <1>2, <1>4
  <2>2. ASSUME NEW i \in P, NEW j \in P, f[i] = f[j] PROVE i = j
    <3>1. i \in Nat /\ j \in Nat
      BY DEF IsPlaces
    <3>2. Cardinality(low(i)) = Cardinality(low(j)) /\ Cardinality(low(i)) \in Nat
      BY <1>2, <1>4, <2>2
    <3>3. ~(i < j) /\ ~(j < i)
      BY <1>3, <3>2
    <3> QED
      BY <3>1, <3>3
  <2> QED
    BY <2>1, <2>2 DEF Injection, IsInjective
<1>6. IsFiniteSet(1 .. n) /\ Cardinality(1 .. n) = n
  BY <1>1, UpTo
<1>7. f \in Surjection(P, 1 .. n)
  BY <1>5, <1>6, FS_Injection
<1>8. \A k \in 1 .. n : \E i \in P : f[i] = k
  BY <1>7 DEF Surjection
<1> QED
  BY <1>1, <1>2, <1>3, <1>4, <1>8

(* What retain leaves: the values at the places, each once.                *)
LEMMA RetainIs ==
  ASSUME NEW s, IsSequence(s), NEW P \in SUBSET DOMAIN s
  PROVE  LET r == Threads!Retain(s, P) IN
         /\ IsSequence(r) /\ Len(r) = Cardinality(P)
         /\ \A k \in DOMAIN r : \E i \in P : r[k] = s[i]
         /\ \A i \in P : \E k \in DOMAIN r : r[k] = s[i]
         /\ \A k, l \in DOMAIN r : k # l =>
              \E i, j \in P : i # j /\ r[k] = s[i] /\ r[l] = s[j]
<1> DEFINE n == Cardinality(P)
           at(k) == CHOOSE i \in P : Threads!Rank(i, P) = k
           r == Threads!Retain(s, P)
<1>1. IsPlaces(P)
  <2>1. Len(s) \in Nat /\ P \subseteq 1 .. Len(s)
    BY SequenceIs
  <2>2. IsFiniteSet(1 .. Len(s))
    BY <2>1, UpTo
  <2> QED
    BY <2>1, <2>2, FS_Subset DEF IsPlaces
<1>2. n \in Nat
  BY <1>1, RanksCount
<1>3. r = [k \in 1 .. n |-> s[at(k)]]
  BY SameCardinality DEF Threads!Retain
<1>4. \A k \in 1 .. n : at(k) \in P /\ Threads!Rank(at(k), P) = k
  BY <1>1, RanksCount
<1>5. \A i \in P : Threads!Rank(i, P) \in 1 .. n /\ at(Threads!Rank(i, P)) = i
  <2> TAKE i \in P
  <2> DEFINE k == Threads!Rank(i, P)
  <2>1. k \in 1 .. n /\ at(k) \in P /\ Threads!Rank(at(k), P) = k
    BY <1>1, <1>4, RanksCount
  <2>2. i \in Nat /\ at(k) \in Nat /\ ~(i < at(k)) /\ ~(at(k) < i)
    BY <1>1, <2>1, RanksCount DEF IsPlaces
  <2> QED
    BY <2>1, <2>2
<1> HIDE DEF at, r, n
<1>6. r \in Seq({r[k] : k \in DOMAIN r}) /\ Len(r) = n /\ DOMAIN r = 1 .. n
  BY <1>2, <1>3
<1>7. \A k \in DOMAIN r : at(k) \in P /\ r[k] = s[at(k)]
  BY <1>3, <1>4, <1>6
<1>8. \A i \in P : \E k \in DOMAIN r : r[k] = s[i]
  <2> TAKE i \in P
  <2>1. Threads!Rank(i, P) \in DOMAIN r /\ r[Threads!Rank(i, P)] = s[i]
    BY <1>3, <1>5, <1>6
  <2> QED
    BY <2>1
<1>9. \A k, l \in DOMAIN r : k # l => at(k) # at(l)
  BY <1>4, <1>6
<1>10. \A k, l \in DOMAIN r : k # l => \E i, j \in P : i # j /\ r[k] = s[i] /\ r[l] = s[j]
  BY <1>7, <1>9
<1> QED
  BY <1>6, <1>7, <1>8, <1>10 DEF IsSequence, r, n
-----------------------------------------------------------------------------
(* The message history.                                                    *)
MessageIs(m, last) ==
  /\ m.id \in Nat \ {0} /\ m.id <= last
  /\ m.in_reply_to \in Nat /\ m.in_reply_to < m.id

(* Two messages of one thread.                                             *)
Converse(a, b) ==
  /\ {a.from, a.to} = {b.from, b.to}
  /\ b.in_reply_to = a.id => b.to = a.from /\ b.from = a.to

ThreadIs(t) ==
  /\ t \in Nat \ {0} /\ t <= next_message_id
  /\ IsSequence(threads[t]) /\ threads[t] # << >>
  /\ \A i \in DOMAIN threads[t] :
       /\ MessageIs(threads[t][i], next_message_id)
       /\ threads[t][i].id \in DOMAIN thread_by_message
       /\ thread_by_message[threads[t][i].id] = t
  /\ \A i, j \in DOMAIN threads[t] :
       /\ threads[t][i].id = threads[t][j].id => i = j
       /\ Converse(threads[t][i], threads[t][j])

(* The history lists each message of the index once, and each is in its    *)
(* thread.                                                                 *)
HistoryIs ==
  /\ next_message_id \in Nat
  /\ IsSequence(retained_order)
  /\ DOMAIN thread_by_message = {retained_order[i] : i \in DOMAIN retained_order}
  /\ \A i, j \in DOMAIN retained_order : retained_order[i] = retained_order[j] => i = j
  /\ pending \subseteq DOMAIN thread_by_message
  /\ DOMAIN thread_by_message \subseteq 1 .. next_message_id
  /\ \A id \in DOMAIN thread_by_message :
       /\ thread_by_message[id] \in DOMAIN threads
       /\ \E i \in DOMAIN threads[thread_by_message[id]] :
            threads[thread_by_message[id]][i].id = id

SettledFit == Cardinality(DOMAIN thread_by_message \ pending) <= MaxRetained

(* A prepared message has the last id, and fits its thread if there still  *)
(* is one.                                                                 *)
PreparedIs ==
  prepared # Threads!NoMessage =>
    /\ MessageIs(prepared, next_message_id) /\ prepared.id = next_message_id
    /\ prepared.id \notin DOMAIN thread_by_message
    /\ prepared.thread \in Nat \ {0} /\ prepared.thread <= next_message_id
    /\ prepared.thread \in DOMAIN threads =>
         \A i \in DOMAIN threads[prepared.thread] :
           Converse(threads[prepared.thread][i], prepared)

ThreadsInv ==
  /\ HistoryIs /\ SettledFit /\ PreparedIs
  /\ \A t \in DOMAIN threads : ThreadIs(t)

(* A message is drawn.                                                     *)
LEMMA PreparedMessage ==
  ASSUME ThreadsInv, NEW from, NEW to, NEW r \in {Threads!None} \cup Threads!MessageIds,
         Threads!Prepare(from, to, r)
  PROVE  ThreadsInv'
<1> USE DEF Threads!None, Threads!NextId, Threads!state
<1>1. /\ UNCHANGED <<threads, thread_by_message, retained_order, pending>>
      /\ next_message_id' = next_message_id + 1 /\ next_message_id \in Nat
      /\ prepared = Threads!NoMessage
  BY DEF Threads!Prepare, ThreadsInv, HistoryIs
<1>2. HistoryIs' /\ SettledFit'
  <2>1. 1 .. next_message_id \subseteq 1 .. next_message_id' /\ next_message_id' \in Nat
    BY <1>1
  <2>2. HistoryIs'
    BY <1>1, <2>1 DEF ThreadsInv, HistoryIs
  <2>3. SettledFit'
    BY <1>1 DEF ThreadsInv, SettledFit
  <2> QED
    BY <2>2, <2>3
<1>3. ASSUME NEW m, MessageIs(m, next_message_id)
      PROVE  MessageIs(m, next_message_id')
  BY <1>1, <1>3 DEF MessageIs
<1>4. ASSUME NEW t \in DOMAIN threads PROVE ThreadIs(t)'
  <2>1. ThreadIs(t)
    BY DEF ThreadsInv
  <2>2. \A i \in DOMAIN threads[t] : MessageIs(threads[t][i], next_message_id')
    BY <1>1, <1>3, <2>1 DEF ThreadIs
  <2>3. t <= next_message_id'
    BY <1>1, <2>1 DEF ThreadIs
  <2> QED
    BY <1>1, <2>1, <2>2, <2>3 DEF ThreadIs, Converse
<1>5. PreparedIs'
  <2>1. next_message_id + 1 \notin DOMAIN thread_by_message
        /\ next_message_id + 1 \notin DOMAIN threads
    BY <1>1 DEF ThreadsInv, HistoryIs, ThreadIs
  <2>2. CASE r = 0
    <3>1. prepared' = [id |-> next_message_id + 1, thread |-> next_message_id + 1,
                       from |-> from, to |-> to, in_reply_to |-> 0]
      BY <2>2 DEF Threads!Prepare
    <3> QED
      BY <1>1, <2>1, <3>1 DEF PreparedIs, MessageIs
  <2>3. CASE r # 0 /\ Threads!MayReply(r, from, to)
    <3> DEFINE t == thread_by_message[r]
               m == Threads!Message(r)
    <3>1. /\ r \in DOMAIN thread_by_message /\ from = m.to /\ to = m.from
          /\ prepared' = [id |-> next_message_id + 1, thread |-> t,
                          from |-> from, to |-> to, in_reply_to |-> r]
      BY <2>3 DEF Threads!Prepare, Threads!MayReply, Threads!Known
    <3>2. t \in DOMAIN threads /\ ThreadIs(t) /\ r \in 1 .. next_message_id
      BY <3>1 DEF ThreadsInv, HistoryIs
    <3>3. PICK i \in DOMAIN threads[t] : threads[t][i] = m /\ m.id = r
      <4>1. m = CHOOSE x \in {threads[t][i] : i \in DOMAIN threads[t]} : x.id = r
        BY DEF Threads!Message, Threads!ToSet
      <4>2. \E x \in {threads[t][i] : i \in DOMAIN threads[t]} : x.id = r
        BY <3>1 DEF ThreadsInv, HistoryIs
      <4>3. m \in {threads[t][i] : i \in DOMAIN threads[t]} /\ m.id = r
        BY <4>1, <4>2
      <4> QED
        BY <4>3
    <3> HIDE DEF t, m
    <3>4. \A j \in DOMAIN threads[t] : Converse(threads[t][j], prepared')
      <4> TAKE j \in DOMAIN threads[t]
      <4>1. Converse(threads[t][j], threads[t][i])
            /\ (threads[t][j].id = r => j = i)
        BY <3>2, <3>3 DEF ThreadIs
      <4> QED
        BY <3>1, <3>3, <4>1 DEF Converse
    <3>5. t \in Nat \ {0} /\ t <= next_message_id'
      BY <1>1, <3>2 DEF ThreadIs
    <3>6. MessageIs(prepared', next_message_id') /\ prepared'.id = next_message_id'
      BY <1>1, <3>1, <3>2 DEF MessageIs
    <3>7. prepared'.thread = t
      BY <3>1
    <3> QED
      BY <1>1, <2>1, <3>4, <3>5, <3>6, <3>7 DEF PreparedIs, Converse, MessageIs
  <2>4. CASE r # 0 /\ ~Threads!MayReply(r, from, to)
    BY <2>4 DEF Threads!Prepare, PreparedIs
  <2> QED
    BY <2>2, <2>3, <2>4
<1> QED
  BY <1>1, <1>2, <1>4, <1>5 DEF ThreadsInv

(* A prepared message is dropped.                                          *)
LEMMA DroppedMessage ==
  ASSUME ThreadsInv, Threads!EnqueueFails PROVE ThreadsInv'
<1>1. /\ UNCHANGED <<threads, thread_by_message, retained_order, pending>>
      /\ next_message_id' = next_message_id /\ prepared' = Threads!NoMessage
  BY DEF Threads!EnqueueFails, Threads!state
<1>2. HistoryIs'
  BY <1>1 DEF ThreadsInv, HistoryIs
<1>3. SettledFit'
  BY <1>1 DEF ThreadsInv, SettledFit
<1>4. PreparedIs'
  BY <1>1 DEF PreparedIs
<1>5. \A t \in DOMAIN threads : ThreadIs(t)'
  BY <1>1 DEF ThreadsInv, ThreadIs
<1> QED
  BY <1>1, <1>2, <1>3, <1>4, <1>5 DEF ThreadsInv

(* The prepared message joins its thread, which it opens if there is none. *)
LEMMA CommittedMessage ==
  ASSUME ThreadsInv, Threads!Commit PROVE ThreadsInv'
<1> DEFINE m == prepared
           before == IF m.thread \in DOMAIN threads THEN threads[m.thread] ELSE << >>
           ids == DOMAIN thread_by_message
<1>1. /\ m # Threads!NoMessage
      /\ threads' = [t \in DOMAIN threads \cup {m.thread} |->
                       IF t = m.thread THEN Append(before, m) ELSE threads[t]]
      /\ thread_by_message' = [id \in ids \cup {m.id} |->
                                 IF id = m.id THEN m.thread ELSE thread_by_message[id]]
      /\ retained_order' = Append(retained_order, m.id)
      /\ pending' = pending \cup {m.id}
      /\ prepared' = Threads!NoMessage /\ UNCHANGED next_message_id
  BY DEF Threads!Commit
<1>2. /\ MessageIs(m, next_message_id) /\ m.id = next_message_id /\ m.id \notin ids
      /\ m.thread \in Nat \ {0} /\ m.thread <= next_message_id
      /\ \A i \in DOMAIN before : Converse(before[i], m)
  BY <1>1, EmptyIsSequence DEF ThreadsInv, PreparedIs
<1>3. /\ IsSequence(before)
      /\ \A i \in DOMAIN before :
           /\ MessageIs(before[i], next_message_id) /\ before[i].id \in ids
           /\ thread_by_message[before[i].id] = m.thread
      /\ \A i, j \in DOMAIN before :
           /\ before[i].id = before[j].id => i = j
           /\ Converse(before[i], before[j])
  BY EmptyIsSequence DEF ThreadsInv, ThreadIs
<1> HIDE DEF before
<1>4. LET s == Append(before, m) IN
      /\ IsSequence(s) /\ s # << >>
      /\ DOMAIN s = DOMAIN before \cup {Len(before) + 1}
      /\ \A i \in DOMAIN before : s[i] = before[i]
      /\ s[Len(before) + 1] = m
  BY <1>3, AppendIs, SequenceIs
<1>5. Converse(m, m)
  BY <1>2 DEF Converse, MessageIs
<1>6. \A i \in DOMAIN before : Converse(m, before[i])
  <2> TAKE i \in DOMAIN before
  <2>1. Converse(before[i], m) /\ MessageIs(before[i], next_message_id) /\ before[i].id \in 1 .. m.id
        /\ before[i].id # m.id
    BY <1>2, <1>3 DEF ThreadsInv, HistoryIs
  <2>2. before[i].in_reply_to # m.id
    BY <1>2, <2>1 DEF MessageIs
  <2> QED
    BY <2>1, <2>2 DEF Converse
<1>7. ASSUME NEW t \in DOMAIN threads', t = m.thread PROVE ThreadIs(t)'
  <2>1. threads'[t] = Append(before, m)
    BY <1>1, <1>7
  <2>2. t \in Nat \ {0} /\ t <= next_message_id'
    BY <1>1, <1>2, <1>7
  <2>3. \A id \in ids : id \in DOMAIN thread_by_message' /\ thread_by_message'[id] = thread_by_message[id]
    BY <1>1, <1>2
  <2>4. m.id \in DOMAIN thread_by_message' /\ thread_by_message'[m.id] = m.thread
    BY <1>1
  <2> DEFINE s == Append(before, m)
  <2>5. \A i \in DOMAIN s :
          /\ MessageIs(s[i], next_message_id') /\ s[i].id \in DOMAIN thread_by_message'
          /\ thread_by_message'[s[i].id] = t
    BY <1>1, <1>2, <1>3, <1>4, <1>7, <2>3, <2>4 DEF MessageIs
  <2>6. \A i, j \in DOMAIN s :
          (s[i].id = s[j].id => i = j) /\ Converse(s[i], s[j])
    <3> TAKE i, j \in DOMAIN s
    <3>1. CASE i \in DOMAIN before /\ j \in DOMAIN before
      BY <1>3, <1>4, <3>1
    <3>2. CASE i \in DOMAIN before /\ j = Len(before) + 1
      BY <1>2, <1>3, <1>4, <3>2
    <3>3. CASE i = Len(before) + 1 /\ j \in DOMAIN before
      BY <1>2, <1>3, <1>4, <1>6, <3>3
    <3>4. CASE i = Len(before) + 1 /\ j = Len(before) + 1
      BY <1>4, <1>5, <3>4
    <3> QED
      BY <1>4, <3>1, <3>2, <3>3, <3>4
  <2> HIDE DEF s
  <2> QED
    BY <1>4, <2>1, <2>2, <2>5, <2>6 DEF ThreadIs, s
<1>8. ASSUME NEW t \in DOMAIN threads', t # m.thread PROVE ThreadIs(t)'
  <2>1. t \in DOMAIN threads /\ threads'[t] = threads[t] /\ ThreadIs(t)
    BY <1>1, <1>8 DEF ThreadsInv
  <2>2. \A i \in DOMAIN threads[t] :
          /\ threads[t][i].id \in DOMAIN thread_by_message'
          /\ thread_by_message'[threads[t][i].id] = t
    BY <1>1, <1>2, <2>1 DEF ThreadIs
  <2>3. next_message_id' = next_message_id
    BY <1>1
  <2> QED
    BY <2>1, <2>2, <2>3 DEF ThreadIs
<1>9. LET s == retained_order' IN
      /\ IsSequence(s)
      /\ DOMAIN s = DOMAIN retained_order \cup {Len(retained_order) + 1}
      /\ \A i \in DOMAIN retained_order : s[i] = retained_order[i]
      /\ s[Len(retained_order) + 1] = m.id
  BY <1>1, AppendIs DEF ThreadsInv, HistoryIs
<1>10. DOMAIN thread_by_message' = ids \cup {m.id}
  BY <1>1
<1>11. HistoryIs'
  <2>1. /\ next_message_id' \in Nat /\ pending' \subseteq DOMAIN thread_by_message'
        /\ DOMAIN thread_by_message' \subseteq 1 .. next_message_id'
    BY <1>1, <1>2, <1>10 DEF ThreadsInv, HistoryIs, MessageIs
  <2>2. DOMAIN thread_by_message' = {retained_order'[i] : i \in DOMAIN retained_order'}
    BY <1>9, <1>10 DEF ThreadsInv, HistoryIs
  <2>3. \A i, j \in DOMAIN retained_order' :
          retained_order'[i] = retained_order'[j] => i = j
    BY <1>2, <1>9 DEF ThreadsInv, HistoryIs
  <2>4. ASSUME NEW id \in DOMAIN thread_by_message'
        PROVE  /\ thread_by_message'[id] \in DOMAIN threads'
               /\ \E i \in DOMAIN threads'[thread_by_message'[id]] :
                    threads'[thread_by_message'[id]][i].id = id
    <3>1. CASE id = m.id
      <4>1. thread_by_message'[id] = m.thread /\ m.thread \in DOMAIN threads'
            /\ threads'[m.thread] = Append(before, m)
        BY <1>1, <3>1
      <4> QED
        BY <1>4, <3>1, <4>1
    <3>2. CASE id # m.id
      <4> DEFINE t == thread_by_message[id]
      <4>1. id \in ids /\ thread_by_message'[id] = t
        BY <1>1, <1>10, <3>2
      <4>2. t \in DOMAIN threads
        BY <4>1 DEF ThreadsInv, HistoryIs
      <4>3. PICK i \in DOMAIN threads[t] : threads[t][i].id = id
        BY <4>1 DEF ThreadsInv, HistoryIs
      <4>4. t \in DOMAIN threads' /\ i \in DOMAIN threads'[t] /\ threads'[t][i].id = id
        <5>1. CASE t = m.thread
          BY <1>1, <1>4, <4>2, <4>3, <5>1 DEF before
        <5>2. CASE t # m.thread
          BY <1>1, <4>2, <4>3, <5>2
        <5> QED
          BY <5>1, <5>2
      <4> QED
        BY <4>1, <4>4
    <3> QED
      BY <3>1, <3>2
  <2> QED
    BY <1>9, <2>1, <2>2, <2>3, <2>4 DEF HistoryIs
<1>12. SettledFit'
  <2>1. DOMAIN thread_by_message' \ pending' = ids \ pending
    BY <1>1, <1>2, <1>10
  <2> QED
    BY <2>1 DEF ThreadsInv, SettledFit
<1>13. PreparedIs'
  BY <1>1 DEF PreparedIs
<1> QED
  BY <1>7, <1>8, <1>11, <1>12, <1>13 DEF ThreadsInv

(* Messages that are not pending any more go.                              *)
LEMMA RemovedMessages ==
  ASSUME ThreadsInv, NEW ids, Threads!RemoveRetained(ids), Threads!RemoveMessages(ids),
         pending' \subseteq pending \ ids, UNCHANGED <<next_message_id, prepared>>
  PROVE  /\ HistoryIs' /\ PreparedIs' /\ \A t \in DOMAIN threads' : ThreadIs(t)'
         /\ DOMAIN thread_by_message' = DOMAIN thread_by_message \ ids
<1> DEFINE old == DOMAIN thread_by_message
           stays(t) == {i \in DOMAIN threads[t] : threads[t][i].id \notin ids}
           kept == {i \in DOMAIN retained_order : retained_order[i] \notin ids}
<1>1. /\ thread_by_message' = [id \in old \ ids |-> thread_by_message[id]]
      /\ DOMAIN threads' = {u \in DOMAIN threads : stays(u) # {}}
      /\ \A t \in DOMAIN threads' : threads'[t] = Threads!Retain(threads[t], stays(t))
      /\ retained_order' = Threads!Retain(retained_order, kept)
  BY DEF Threads!RemoveRetained, Threads!RemoveMessages
<1> HIDE DEF stays, kept
<1>2. ASSUME NEW t \in DOMAIN threads'
      PROVE  /\ t \in DOMAIN threads /\ ThreadIs(t) /\ IsSequence(threads'[t])
             /\ threads'[t] # << >>
             /\ \A k \in DOMAIN threads'[t] : \E i \in stays(t) : threads'[t][k] = threads[t][i]
             /\ \A i \in stays(t) : \E k \in DOMAIN threads'[t] : threads'[t][k] = threads[t][i]
             /\ \A k, l \in DOMAIN threads'[t] : k # l =>
                  \E i, j \in stays(t) :
                    i # j /\ threads'[t][k] = threads[t][i] /\ threads'[t][l] = threads[t][j]
  <2>1. t \in DOMAIN threads /\ stays(t) # {} /\ ThreadIs(t) /\ IsSequence(threads[t])
    BY <1>1 DEF ThreadsInv, ThreadIs
  <2>2. stays(t) \in SUBSET DOMAIN threads[t]
    BY DEF stays
  <2>3. threads'[t] = Threads!Retain(threads[t], stays(t))
    BY <1>1
  <2>4. /\ IsSequence(threads'[t])
        /\ \A k \in DOMAIN threads'[t] : \E i \in stays(t) : threads'[t][k] = threads[t][i]
        /\ \A i \in stays(t) : \E k \in DOMAIN threads'[t] : threads'[t][k] = threads[t][i]
        /\ \A k, l \in DOMAIN threads'[t] : k # l =>
             \E i, j \in stays(t) :
               i # j /\ threads'[t][k] = threads[t][i] /\ threads'[t][l] = threads[t][j]
    BY <2>1, <2>2, <2>3, RetainIs
  <2>5. threads'[t] # << >>
    BY <2>1, <2>4, EmptyIsSequence, SequenceIs
  <2> QED
    BY <2>1, <2>4, <2>5
<1>3. /\ IsSequence(retained_order')
      /\ \A k \in DOMAIN retained_order' : \E i \in kept : retained_order'[k] = retained_order[i]
      /\ \A i \in kept : \E k \in DOMAIN retained_order' : retained_order'[k] = retained_order[i]
      /\ \A k, l \in DOMAIN retained_order' : k # l =>
           \E i, j \in kept :
             i # j /\ retained_order'[k] = retained_order[i] /\ retained_order'[l] = retained_order[j]
  <2>1. kept \in SUBSET DOMAIN retained_order /\ IsSequence(retained_order)
    BY DEF kept, ThreadsInv, HistoryIs
  <2> QED
    BY <1>1, <2>1, RetainIs
<1>4. DOMAIN thread_by_message' = old \ ids
      /\ \A id \in old \ ids : thread_by_message'[id] = thread_by_message[id]
  BY <1>1
<1>5. ASSUME NEW t \in DOMAIN threads' PROVE ThreadIs(t)'
  <2>1. \A i \in stays(t) :
          /\ i \in DOMAIN threads[t] /\ threads[t][i].id \notin ids
          /\ MessageIs(threads[t][i], next_message_id)
          /\ threads[t][i].id \in DOMAIN thread_by_message'
          /\ thread_by_message'[threads[t][i].id] = t
    BY <1>2, <1>4 DEF stays, ThreadIs
  <2>2. \A i, j \in stays(t) :
          /\ threads[t][i].id = threads[t][j].id => i = j
          /\ Converse(threads[t][i], threads[t][j])
    BY <1>2, <2>1 DEF ThreadIs
  <2>3. \A k \in DOMAIN threads'[t] :
          /\ MessageIs(threads'[t][k], next_message_id)
          /\ threads'[t][k].id \in DOMAIN thread_by_message'
          /\ thread_by_message'[threads'[t][k].id] = t
    BY <1>2, <2>1
  <2>4. \A k, l \in DOMAIN threads'[t] :
          /\ threads'[t][k].id = threads'[t][l].id => k = l
          /\ Converse(threads'[t][k], threads'[t][l])
    <3> TAKE k, l \in DOMAIN threads'[t]
    <3>1. Converse(threads'[t][k], threads'[t][l])
      BY <1>2, <2>2
    <3>2. ASSUME k # l PROVE threads'[t][k].id # threads'[t][l].id
      <4>1. PICK i \in stays(t), j \in stays(t) :
              i # j /\ threads'[t][k] = threads[t][i] /\ threads'[t][l] = threads[t][j]
        BY <1>2, <3>2
      <4> QED
        BY <2>2, <4>1
    <3> QED
      BY <3>1, <3>2
  <2>5. t \in Nat \ {0} /\ t <= next_message_id /\ next_message_id' = next_message_id
    BY <1>2 DEF ThreadIs
  <2> QED
    BY <1>2, <2>3, <2>4, <2>5 DEF ThreadIs
<1>6. HistoryIs'
  <2>1. /\ next_message_id' \in Nat /\ pending' \subseteq DOMAIN thread_by_message'
        /\ DOMAIN thread_by_message' \subseteq 1 .. next_message_id'
    BY <1>4 DEF ThreadsInv, HistoryIs
  <2>2. /\ old = {retained_order[i] : i \in DOMAIN retained_order}
        /\ \A i, j \in DOMAIN retained_order : retained_order[i] = retained_order[j] => i = j
    BY DEF ThreadsInv, HistoryIs
  <2>3. DOMAIN thread_by_message' = {retained_order'[k] : k \in DOMAIN retained_order'}
    <3>1. ASSUME NEW id \in old \ ids
          PROVE  \E k \in DOMAIN retained_order' : retained_order'[k] = id
      <4>1. PICK i \in DOMAIN retained_order : retained_order[i] = id
        BY <2>2
      <4>2. i \in kept
        BY <4>1 DEF kept
      <4> QED
        BY <1>3, <4>1, <4>2
    <3>2. ASSUME NEW k \in DOMAIN retained_order' PROVE retained_order'[k] \in old \ ids
      <4>1. PICK i \in kept : retained_order'[k] = retained_order[i]
        BY <1>3
      <4> QED
        BY <2>2, <4>1 DEF kept
    <3> QED
      BY <1>4, <3>1, <3>2
  <2>4. \A k, l \in DOMAIN retained_order' :
          retained_order'[k] = retained_order'[l] => k = l
    <3> SUFFICES ASSUME NEW k \in DOMAIN retained_order', NEW l \in DOMAIN retained_order',
                        k # l
                 PROVE  retained_order'[k] # retained_order'[l]
      OBVIOUS
    <3>1. PICK i \in kept, j \in kept :
            i # j /\ retained_order'[k] = retained_order[i] /\ retained_order'[l] = retained_order[j]
      BY <1>3
    <3> QED
      BY <2>2, <3>1 DEF kept
  <2>5. ASSUME NEW id \in DOMAIN thread_by_message'
        PROVE  /\ thread_by_message'[id] \in DOMAIN threads'
               /\ \E k \in DOMAIN threads'[thread_by_message'[id]] :
                    threads'[thread_by_message'[id]][k].id = id
    <3> DEFINE t == thread_by_message[id]
    <3>1. id \in old \ ids /\ thread_by_message'[id] = t
      BY <1>4
    <3>2. t \in DOMAIN threads
      BY <3>1 DEF ThreadsInv, HistoryIs
    <3>3. PICK i \in DOMAIN threads[t] : threads[t][i].id = id
      BY <3>1 DEF ThreadsInv, HistoryIs
    <3> HIDE DEF t
    <3>4. i \in stays(t) /\ t \in DOMAIN threads'
      BY <1>1, <3>1, <3>2, <3>3 DEF stays
    <3>5. PICK k \in DOMAIN threads'[t] : threads'[t][k] = threads[t][i]
      BY <1>2, <3>4
    <3> QED
      BY <3>1, <3>3, <3>4, <3>5
  <2> QED
    BY <1>3, <2>1, <2>3, <2>4, <2>5 DEF HistoryIs
<1>7. PreparedIs'
  <2> SUFFICES ASSUME prepared # Threads!NoMessage PROVE PreparedIs'
    BY DEF PreparedIs
  <2>1. /\ MessageIs(prepared, next_message_id) /\ prepared.id = next_message_id
        /\ prepared.id \notin DOMAIN thread_by_message'
        /\ prepared.thread \in Nat \ {0} /\ prepared.thread <= next_message_id
    BY <1>4 DEF ThreadsInv, PreparedIs
  <2>2. ASSUME prepared.thread \in DOMAIN threads',
               NEW k \in DOMAIN threads'[prepared.thread]
        PROVE  Converse(threads'[prepared.thread][k], prepared)
    <3>1. PICK i \in stays(prepared.thread) :
            threads'[prepared.thread][k] = threads[prepared.thread][i]
      BY <1>2, <2>2
    <3> QED
      BY <1>2, <2>2, <3>1 DEF ThreadsInv, PreparedIs, stays
  <2> QED
    BY <2>1, <2>2 DEF PreparedIs
<1> QED
  BY <1>4, <1>5, <1>6, <1>7

(* However many of them were kept because they were pending, the settled   *)
(* messages fit the history again once it is trimmed.                      *)
LEMMA TrimmedHistoryFits ==
  ASSUME ThreadsInv, NEW ps, NEW ids, ids = Threads!Trimmed(ps)
  PROVE  Cardinality((DOMAIN thread_by_message \ ids) \ ps) <= MaxRetained
<1> DEFINE s == retained_order
           old == DOMAIN thread_by_message
           over == Len(s) - MaxRetained
           S == {i \in DOMAIN s : s[i] \notin ps}
           T == {k \in S : Threads!Rank(k, S) <= over}
<1>1. /\ IsSequence(s) /\ Len(s) \in Nat /\ DOMAIN s = 1 .. Len(s)
      /\ old = {s[i] : i \in DOMAIN s}
      /\ \A i, j \in DOMAIN s : s[i] = s[j] => i = j
  BY SequenceIs DEF ThreadsInv, HistoryIs
<1>2. ids = {s[i] : i \in T}
  BY DEF Threads!Trimmed
<1>3. IsFiniteSet(1 .. Len(s)) /\ Cardinality(1 .. Len(s)) = Len(s) /\ MaxRetained \in Nat
  <2>1. Len(s) \in Nat
    BY <1>1
  <2>2. IsFiniteSet(1 .. Len(s)) /\ Cardinality(1 .. Len(s)) = Len(s)
    BY <2>1, UpTo
  <2> QED
    BY <2>2, TablesAssumption
<1>4. IsPlaces(S)
  BY <1>1, <1>3, FS_Subset DEF IsPlaces
<1>5. IsFiniteSet(old) /\ Cardinality(old) = Len(s)
  <2> DEFINE f == [i \in 1 .. Len(s) |-> s[i]]
  <2>1. f \in Bijection(1 .. Len(s), old)
    BY <1>1 DEF Bijection, Injection, Surjection, IsInjective
  <2> QED
    BY <1>3, <2>1, FS_Bijection DEF ExistsBijection
<1> DEFINE rest == (old \ ids) \ ps
<1> SUFFICES Cardinality(rest) <= MaxRetained
  OBVIOUS
<1>11. rest \in SUBSET old
  OBVIOUS
<1> HIDE DEF S, T, over, old, rest
<1>6. over \in Int /\ over = Len(s) - MaxRetained
  BY <1>1, <1>3 DEF over
<1>7. CASE over <= 0
  <2>1. Cardinality(rest) <= Cardinality(old) /\ Cardinality(rest) \in Nat
    BY <1>5, <1>11, FS_Subset, FS_CardinalityType
  <2> QED
    <3>1. Len(s) \in Nat /\ MaxRetained \in Nat
      BY <1>1, <1>3
    <3>2. Len(s) <= MaxRetained
      BY <1>6, <1>7, <3>1
    <3> QED
      BY <1>5, <2>1, <3>1, <3>2
<1>8. CASE over >= Cardinality(S)
  <2>1. \A i \in S : i \in T
    BY <1>4, <1>6, <1>8, RanksCount DEF T
  <2>2. ASSUME NEW x \in rest PROVE FALSE
    <3>1. PICK i \in DOMAIN s : s[i] = x
      BY <1>1, <1>11 DEF old
    <3>2. i \in S
      BY <3>1 DEF S, rest
    <3> QED
      BY <1>2, <2>1, <3>1, <3>2 DEF rest
  <2>3. rest = {}
    BY <2>2
  <2> QED
    BY <1>3, <2>3, FS_EmptySet
<1>9. CASE 0 < over /\ over < Cardinality(S)
  <2>1. /\ T \subseteq S /\ S \subseteq Nat /\ over \in Nat
        /\ \A i \in T : Threads!Rank(i, S) \in 1 .. over
        /\ \A i, j \in T : i < j => Threads!Rank(i, S) < Threads!Rank(j, S)
        /\ \A k \in 1 .. over : \E i \in T : Threads!Rank(i, S) = k
    <3>1. /\ Cardinality(S) \in Nat /\ S \subseteq Nat
          /\ \A i \in S : Threads!Rank(i, S) \in 1 .. Cardinality(S)
          /\ \A i, j \in S : i < j => Threads!Rank(i, S) < Threads!Rank(j, S)
          /\ \A k \in 1 .. Cardinality(S) : \E i \in S : Threads!Rank(i, S) = k
      BY <1>4, RanksCount DEF IsPlaces
    <3>2. over \in Nat /\ T \subseteq S
          /\ \A i \in S : i \in T <=> Threads!Rank(i, S) <= over
      BY <1>6, <1>9 DEF T
    <3>3. \A k \in 1 .. over : k \in 1 .. Cardinality(S) /\ k <= over
      BY <1>9, <3>1, <3>2
    <3>4. \A k \in 1 .. over : \E i \in T : Threads!Rank(i, S) = k
      BY <3>1, <3>2, <3>3
    <3> QED
      BY <3>1, <3>2, <3>4
  <2>2. IsFiniteSet(T)
    BY <1>4, <2>1, FS_Subset DEF IsPlaces
  <2>3. Cardinality(T) = over
    <3> DEFINE f == [i \in T |-> Threads!Rank(i, S)]
    <3>1. \A i, j \in T : f[i] = f[j] => i = j
      <4> TAKE i, j \in T
      <4>1. i \in Nat /\ j \in Nat /\ f[i] \in Nat /\ f[j] \in Nat
        BY <2>1
      <4>2. ~(f[i] = f[j] /\ i < j) /\ ~(f[i] = f[j] /\ j < i)
        BY <2>1, <4>1
      <4> QED
        BY <4>1, <4>2
    <3>2. f \in Bijection(T, 1 .. over)
      BY <2>1, <3>1 DEF Bijection, Injection, Surjection, IsInjective
    <3>3. Cardinality(1 .. over) = over
      BY <2>1, UpTo
    <3> QED
      BY <2>2, <3>2, <3>3, FS_Bijection DEF ExistsBijection
  <2>4. Cardinality(ids) = over /\ ids \subseteq old
    <3> DEFINE f == [i \in T |-> s[i]]
    <3>1. T \subseteq DOMAIN s
      BY <2>1 DEF S
    <3>2. f \in Bijection(T, ids)
      BY <1>1, <1>2, <3>1 DEF Bijection, Injection, Surjection, IsInjective
    <3>3. Cardinality(ids) = over
      BY <2>2, <2>3, <3>2, FS_Bijection DEF ExistsBijection
    <3> QED
      BY <1>1, <1>2, <3>1, <3>3 DEF old
  <2>5. IsFiniteSet(old \ ids) /\ Cardinality(old \ ids) = Len(s) - over
    <3>1. old \cap ids = ids
      BY <2>4
    <3>2. IsFiniteSet(old \ ids)
          /\ Cardinality(old \ ids) = Cardinality(old) - Cardinality(old \cap ids)
      BY <1>5, FS_Difference
    <3> QED
      BY <1>5, <2>4, <3>1, <3>2
  <2>6. rest \in SUBSET (old \ ids)
    BY DEF rest
  <2>7. Cardinality(rest) <= Cardinality(old \ ids) /\ Cardinality(rest) \in Nat
    BY <2>5, <2>6, FS_Subset, FS_CardinalityType
  <2> QED
    BY <1>1, <1>3, <1>6, <2>5, <2>7
<1>10. Cardinality(S) \in Nat
  BY <1>4, RanksCount
<1> QED
  BY <1>6, <1>7, <1>8, <1>9, <1>10

(* A message is settled, or rolled back.                                   *)
LEMMA SettledMessage ==
  ASSUME ThreadsInv, NEW id, Threads!MarkTerminal(id) PROVE ThreadsInv'
<1> DEFINE ids == Threads!Trimmed(pending \ {id})
<1>1. /\ pending' = pending \ {id}
      /\ Threads!RemoveRetained(ids) /\ Threads!RemoveMessages(ids)
      /\ UNCHANGED <<next_message_id, prepared>>
  BY DEF Threads!MarkTerminal
<1>2. pending' \subseteq pending \ ids
  BY <1>1 DEF Threads!Trimmed
<1>3. Cardinality((DOMAIN thread_by_message \ ids) \ (pending \ {id})) <= MaxRetained
  BY TrimmedHistoryFits
<1> HIDE DEF ids
<1>4. /\ HistoryIs' /\ PreparedIs' /\ \A t \in DOMAIN threads' : ThreadIs(t)'
      /\ DOMAIN thread_by_message' = DOMAIN thread_by_message \ ids
  BY <1>1, <1>2, RemovedMessages
<1>5. SettledFit'
  BY <1>1, <1>3, <1>4 DEF SettledFit
<1> QED
  BY <1>4, <1>5 DEF ThreadsInv

LEMMA RolledBackMessage ==
  ASSUME ThreadsInv, NEW id, Threads!Rollback(id) PROVE ThreadsInv'
<1>1. /\ pending' = pending \ {id}
      /\ Threads!RemoveRetained({id}) /\ Threads!RemoveMessages({id})
      /\ UNCHANGED <<next_message_id, prepared>>
  BY DEF Threads!Rollback
<1>2. /\ HistoryIs' /\ PreparedIs' /\ \A t \in DOMAIN threads' : ThreadIs(t)'
      /\ DOMAIN thread_by_message' = DOMAIN thread_by_message \ {id}
  BY <1>1, RemovedMessages
<1>3. SettledFit'
  <2> DEFINE S == DOMAIN thread_by_message \ pending
             T == (DOMAIN thread_by_message \ pending)'
  <2>1. T \subseteq S
    BY <1>1, <1>2
  <2>2. S \subseteq 1 .. next_message_id /\ next_message_id \in Nat
    BY DEF ThreadsInv, HistoryIs
  <2>3. IsFiniteSet(S)
    <3>1. IsFiniteSet(1 .. next_message_id)
      BY <2>2, UpTo
    <3> QED
      BY <2>2, <3>1, FS_Subset
  <2>4. Cardinality(T) <= Cardinality(S) /\ Cardinality(T) \in Nat /\ Cardinality(S) \in Nat
    BY <2>1, <2>3, FS_Subset, FS_CardinalityType
  <2> HIDE DEF S, T
  <2>5. Cardinality(S) <= MaxRetained /\ MaxRetained \in Nat
    BY TablesAssumption DEF ThreadsInv, SettledFit, S
  <2>6. Cardinality(T) <= MaxRetained
    BY <2>4, <2>5
  <2> QED
    BY <2>6 DEF SettledFit, T
<1> QED
  BY <1>2, <1>3 DEF ThreadsInv

(* So the history keeps its shape whatever the tables do.                  *)
LEMMA ThreadsInvHolds == TablesSpec => []ThreadsInv
<1>1. TablesInit => ThreadsInv
  <2> SUFFICES ASSUME Threads!Init PROVE ThreadsInv
    BY DEF TablesInit
  <2>1. /\ threads = << >> /\ thread_by_message = << >> /\ retained_order = << >>
        /\ pending = {} /\ next_message_id = 0 /\ prepared = Threads!NoMessage
    BY DEF Threads!Init
  <2>2. HistoryIs
    BY <2>1, EmptyIsSequence DEF HistoryIs
  <2>3. SettledFit
    BY <2>1, TablesAssumption, FS_EmptySet DEF SettledFit
  <2> QED
    BY <2>1, <2>2, <2>3 DEF ThreadsInv, PreparedIs
<1>2. ASSUME ThreadsInv, Threads!Next PROVE ThreadsInv'
  <2>1. CASE \E from \in Threads!Senders, to \in Agents,
             r \in {Threads!None} \cup Threads!MessageIds : Threads!Prepare(from, to, r)
    BY <1>2, <2>1, PreparedMessage
  <2>2. CASE Threads!EnqueueFails
    BY <1>2, <2>2, DroppedMessage
  <2>3. CASE Threads!Commit
    BY <1>2, <2>3, CommittedMessage
  <2>4. CASE \E id \in Threads!MessageIds : Threads!MarkTerminal(id)
    BY <1>2, <2>4, SettledMessage
  <2>5. CASE \E id \in Threads!MessageIds : Threads!Rollback(id)
    BY <1>2, <2>5, RolledBackMessage
  <2> QED
    BY <1>2, <2>1, <2>2, <2>3, <2>4, <2>5 DEF Threads!Next
<1>3. ASSUME ThreadsInv, UNCHANGED threadVars PROVE ThreadsInv'
  <2>1. /\ UNCHANGED <<threads, thread_by_message, retained_order, pending>>
        /\ next_message_id' = next_message_id /\ prepared' = prepared
    BY <1>3 DEF threadVars
  <2>2. HistoryIs'
    BY <1>3, <2>1 DEF ThreadsInv, HistoryIs
  <2>3. SettledFit'
    BY <1>3, <2>1 DEF ThreadsInv, SettledFit
  <2>4. PreparedIs'
    BY <1>3, <2>1 DEF ThreadsInv, PreparedIs
  <2>5. \A t \in DOMAIN threads : ThreadIs(t)'
    BY <1>3, <2>1 DEF ThreadsInv, ThreadIs
  <2> QED
    BY <2>1, <2>2, <2>3, <2>4, <2>5 DEF ThreadsInv
<1>4. ThreadsInv /\ [TablesNext]_allVars => ThreadsInv'
  BY <1>2, <1>3 DEF TablesNext, allVars
<1> QED
  BY <1>1, <1>4, PTL DEF TablesSpec

(* The three indexes of the message history agree, at most MaxRetained     *)
(* settled messages are kept, and a thread is a conversation of two in     *)
(* which a reply goes back to the sender of what it answers, for any       *)
(* number of messages and however they are settled, trimmed and rolled     *)
(* back while others are prepared (message.rs).                            *)
THEOREM ThreadsAreWhole == TablesSpec => []ThreadsStayWhole
<1>1. ASSUME ThreadsInv PROVE ThreadsStayWhole
  <2> USE DEF Threads!Retained, Threads!ToSet, Threads!Known
  <2>1. Len(retained_order) = Cardinality({retained_order[i] : i \in DOMAIN retained_order})
    <3> DEFINE S == {retained_order[i] : i \in DOMAIN retained_order}
               f == [i \in 1 .. Len(retained_order) |-> retained_order[i]]
    <3>1. /\ IsSequence(retained_order) /\ Len(retained_order) \in Nat
          /\ DOMAIN retained_order = 1 .. Len(retained_order)
          /\ \A i, j \in DOMAIN retained_order : retained_order[i] = retained_order[j] => i = j
      BY <1>1, SequenceIs DEF ThreadsInv, HistoryIs
    <3>2. f \in Bijection(1 .. Len(retained_order), S)
      BY <3>1 DEF Bijection, Injection, Surjection, IsInjective
    <3>3. IsFiniteSet(1 .. Len(retained_order))
          /\ Cardinality(1 .. Len(retained_order)) = Len(retained_order)
      BY <3>1, UpTo
    <3> QED
      BY <3>2, <3>3, FS_Bijection DEF ExistsBijection
  <2>2. Threads!IndexesAgree
    <3>1. /\ DOMAIN thread_by_message = Threads!Retained
          /\ Len(retained_order) = Threads!Cardinality(Threads!Retained)
          /\ pending \subseteq Threads!Retained
      BY <1>1, <2>1, SameCardinality DEF ThreadsInv, HistoryIs
    <3>2. \A t \in DOMAIN threads :
            /\ threads[t] # << >>
            /\ \A i \in DOMAIN threads[t] :
                 /\ threads[t][i].id \in DOMAIN thread_by_message
                 /\ thread_by_message[threads[t][i].id] = t
      BY <1>1 DEF ThreadsInv, ThreadIs
    <3>3. ASSUME NEW id \in Threads!Retained
          PROVE  /\ thread_by_message[id] \in DOMAIN threads
                 /\ \E m \in Threads!ToSet(threads[thread_by_message[id]]) : m.id = id
      <4>1. /\ thread_by_message[id] \in DOMAIN threads
            /\ \E i \in DOMAIN threads[thread_by_message[id]] :
                 threads[thread_by_message[id]][i].id = id
        BY <1>1 DEF ThreadsInv, HistoryIs
      <4> QED
        BY <4>1
    <3> QED
      BY <3>1, <3>2, <3>3 DEF Threads!IndexesAgree
  <2>3. Threads!HistoryBounded
    <3>1. Threads!Retained = DOMAIN thread_by_message
      BY <1>1 DEF ThreadsInv, HistoryIs
    <3> QED
      BY <1>1, <2>1, <3>1, SameCardinality DEF Threads!HistoryBounded, ThreadsInv, SettledFit
  <2>4. Threads!TwoParty
    <3>1. \A t \in DOMAIN threads : \A i, j \in DOMAIN threads[t] :
            Converse(threads[t][i], threads[t][j])
      BY <1>1 DEF ThreadsInv, ThreadIs
    <3>2. \A a, b : Converse(a, b) =>
            /\ {a.from, a.to} = {b.from, b.to}
            /\ b.in_reply_to = a.id => b.to = a.from /\ b.from = a.to
      BY DEF Converse
    <3> QED
      BY <3>1, <3>2 DEF Threads!TwoParty
  <2> QED
    BY <2>2, <2>3, <2>4 DEF ThreadsStayWhole
<1> QED
  BY <1>1, ThreadsInvHolds, PTL
=============================================================================
