------------------------------- MODULE Prompts -------------------------------
(***************************************************************************)
(* The prompts of one pane, from the key that sends them to the agent that *)
(* takes them: the pane's queue and ledger (tui/components/root.rs) and    *)
(* the event loop (tui/event_loop), which applies one event at a time and  *)
(* all its effects, over the turn worker.  The loop takes the worker's     *)
(* reports and the agent's events in any order of the two channels.        *)
(*                                                                         *)
(* Prompts are numbered as they are entered; messages of other sessions,   *)
(* whose queue ids count down from u64::MAX, have negative numbers.        *)
(***************************************************************************)
EXTENDS PromptQueue, TurnLedger, TurnWorker

CONSTANTS
  MaxPrompts, MaxMessages,   \* bounds on what is sent
  MaxTurns,                  \* bound on the turn ids users and messages draw
  MaxInterrupts,             \* bound on interrupts
  MaxShells,                 \* bound on the shell commands at a time
  Disturbances               \* which of the other operations take place

VARIABLES
  queue, ledger,
  interrupting,              \* interrupt_in_flight
  blocking,                  \* blocking_task: whether a compaction runs
  next_turn,
  shells, held,              \* shell commands, the submission they hold back
  entered, messages,         \* how many prompts and messages were sent
  interrupts,
  withdrawn,                 \* history: prompts the user deleted
  shown,                     \* history: prompts recorded as steered
  raced,                     \* history: steered while an interrupt was under way
  crowded                    \* history: two turns of the conversation at once

paneVars == <<queue, ledger, interrupting, blocking, next_turn, shells, held>>
countVars == <<entered, messages, interrupts>>
historyVars == <<withdrawn, shown, raced, crowded>>
vars == <<workerVars, paneVars, countVars, historyVars>>

Init ==
  /\ WorkerInit
  /\ queue = EmptyQueue /\ ledger = NoTurns
  /\ interrupting = FALSE /\ blocking = FALSE /\ next_turn = 1
  /\ shells = 0 /\ held = <<>>
  /\ entered = 0 /\ messages = 0 /\ interrupts = 0
  /\ withdrawn = {} /\ shown = {} /\ raced = {} /\ crowded = FALSE

Editing == \E i \in DOMAIN queue.items : queue.items[i].state = "editing"

(* Keys reach the composer and the queue unless a compaction runs or the   *)
(* keys belong to the editor of a queued prompt.                           *)
TakesKeys == ~blocking /\ ~Editing

Busy == TurnRunning(ledger) \/ HasPendingSteer(queue)

Conversation == {t \in DOMAIN turns : turns[t].kind = "conversation"}

Others == <<backend, stream, turns, compacting, given, refused, strayed>>
-----------------------------------------------------------------------------
(* submit: the prompt gets a turn id and goes to the worker, or waits for  *)
(* the pane's shells.                                                      *)
Submission(texts) ==
  [command |-> "submit", kind |-> "conversation", id |-> next_turn, texts |-> texts]

Submits(texts) ==
  /\ next_turn' = next_turn + 1
  /\ IF shells > 0
     THEN held' = <<Submission(texts)>> /\ UNCHANGED commands
     ELSE commands' = Append(commands, Submission(texts)) /\ UNCHANGED held

SendsNothing == UNCHANGED <<commands, next_turn, held>>

(* submit_next_queued, of a pane whose queue and ledger have become q, l.  *)
HoldsQueue(q, l) == TurnRunning(l) \/ HasPendingSteer(q)

SubmitNextQueued(q, l) ==
  IF HoldsQueue(q, l) \/ Drained(q) = <<>>
  THEN queue' = q /\ ledger' = l /\ SendsNothing
  ELSE /\ queue' = AfterDrain(q)
       /\ ledger' = TurnStarted(l)
       /\ Submits({Drained(q)[i].id : i \in DOMAIN Drained(q)})
-----------------------------------------------------------------------------
(* A steer is under way to the worker; an interrupt is, or its report.     *)
SteerCommand(text) == [command |-> "steer", id |-> next_turn, text |-> text]

CancelUnderWay ==
  \/ \E i \in DOMAIN commands : commands[i].command = "cancel_all"
  \/ \E i \in DOMAIN updates : updates[i].event = "turns_cancelled"

Steers(q, id) ==
  /\ queue' = SteerStarted(q, id)
  /\ commands' = Append(commands, SteerCommand(id))
  /\ next_turn' = next_turn + 1
  /\ raced' = IF CancelUnderWay THEN raced \cup {id} ELSE raced
  /\ UNCHANGED <<ledger, held>>

(* update_composer_with: a prompt, to be steered or queued if the pane is  *)
(* busy.                                                                   *)
Enter(steer) ==
  /\ TakesKeys /\ entered < MaxPrompts /\ next_turn <= MaxTurns
  /\ entered' = entered + 1
  /\ LET id == entered + 1 IN
     CASE ~Busy ->
            /\ ledger' = TurnStarted(ledger) /\ Submits({id})
            /\ UNCHANGED <<queue, raced>>
       [] Busy /\ steer /\ TurnRunning(ledger) -> Steers(Pushed(queue, id), id)
       [] OTHER ->
            /\ queue' = Pushed(queue, id)
            /\ SendsNothing /\ UNCHANGED <<ledger, raced>>
  /\ UNCHANGED <<Others, updates, interrupting, blocking, shells, messages,
                 interrupts, withdrawn, shown, crowded>>

(* Enter on a queued prompt.                                               *)
SteerQueued(id) ==
  /\ TakesKeys /\ StateOf(queue, id) = "queued" /\ next_turn <= MaxTurns
  /\ Steers(queue, id)
  /\ UNCHANGED <<Others, updates, interrupting, blocking, shells, countVars,
                 withdrawn, shown, crowded>>

Delete(id) ==
  /\ "delete" \in Disturbances
  /\ TakesKeys /\ StateOf(queue, id) = "queued"
  /\ queue' = Removed(queue, id)
  /\ withdrawn' = withdrawn \cup {id}
  /\ UNCHANGED <<workerVars, ledger, interrupting, blocking, next_turn, shells,
                 held, countVars, shown, raced, crowded>>

BeginEdit(id) ==
  /\ "edit" \in Disturbances
  /\ TakesKeys /\ StateOf(queue, id) = "queued"
  /\ queue' = Marked(queue, id, "editing")
  /\ UNCHANGED <<workerVars, ledger, interrupting, blocking, next_turn, shells,
                 held, countVars, historyVars>>

(* finish_queue_edit: the prompt, unless its new text is blank, waits      *)
(* again, and what waited behind it may go.                                *)
FinishEdit(id, blank) ==
  /\ ~blocking /\ StateOf(queue, id) = "editing"
  /\ SubmitNextQueued(IF blank THEN Removed(queue, id) ELSE Marked(queue, id, "queued"),
                      ledger)
  /\ withdrawn' = IF blank THEN withdrawn \cup {id} ELSE withdrawn
  /\ UNCHANGED <<Others, updates, interrupting, blocking, shells, countVars,
                 shown, raced, crowded>>

Interrupt ==
  /\ TakesKeys /\ interrupts < MaxInterrupts
  /\ interrupting' = TRUE
  /\ commands' = Append(commands, [command |-> "cancel_all"])
  /\ interrupts' = interrupts + 1
  /\ UNCHANGED <<Others, updates, queue, ledger, blocking, next_turn, shells,
                 held, entered, messages, historyVars>>

(* compaction_allowed, start_compaction *)
StartCompaction ==
  /\ "compact" \in Disturbances
  /\ TakesKeys /\ ~TurnRunning(ledger) /\ shells = 0 /\ queue.items = <<>>
  /\ blocking' = TRUE
  /\ commands' = Append(commands, [command |-> "compact"])
  /\ UNCHANGED <<Others, updates, queue, ledger, interrupting, next_turn,
                 shells, held, countVars, historyVars>>

RunShell ==
  /\ "shell" \in Disturbances
  /\ TakesKeys /\ shells < MaxShells
  /\ shells' = shells + 1
  /\ UNCHANGED <<workerVars, queue, ledger, interrupting, blocking, next_turn,
                 held, countVars, historyVars>>

(* on_shell_finished: the submission it held back goes.                    *)
ShellFinished ==
  /\ shells > 0
  /\ shells' = shells - 1
  /\ IF shells = 1
     THEN commands' = commands \o held /\ held' = <<>>
     ELSE UNCHANGED <<commands, held>>
  /\ UNCHANGED <<Others, updates, queue, ledger, interrupting, blocking,
                 next_turn, countVars, historyVars>>

(* apply_subagent_update: a child that completed continues an idle pane.   *)
ContinueSubagent ==
  /\ "subagent" \in Disturbances
  /\ ~TurnRunning(ledger) /\ ~blocking /\ next_turn <= MaxTurns
  /\ ledger' = TurnStarted(ledger) /\ Submits({})
  /\ UNCHANGED <<Others, updates, queue, interrupting, blocking, shells,
                 countVars, historyVars>>

(* on_live_session_message *)
LiveMessage ==
  /\ messages < MaxMessages /\ next_turn <= MaxTurns
  /\ messages' = messages + 1
  /\ commands' = Append(commands, SteerCommand(-messages - 1))
  /\ next_turn' = next_turn + 1
  /\ UNCHANGED <<Others, updates, queue, ledger, interrupting, blocking, shells,
                 held, entered, interrupts, historyVars>>

(* on_auxiliary_request: a job of the web interface beside the session.    *)
AuxiliaryRequest ==
  /\ "auxiliary" \in Disturbances /\ next_turn <= MaxTurns
  /\ commands' = Append(commands,
       [command |-> "submit", kind |-> "auxiliary", id |-> next_turn, texts |-> {}])
  /\ next_turn' = next_turn + 1
  /\ UNCHANGED <<Others, updates, queue, ledger, interrupting, blocking, shells,
                 held, countVars, historyVars>>
-----------------------------------------------------------------------------
(* The worker's reports.                                                   *)
Takes(event) ==
  /\ updates # <<>> /\ Head(updates).event = event
  /\ updates' = Tail(updates)
  /\ UNCHANGED <<Others, shells, countVars, withdrawn, raced, crowded>>

Shows(ids) == shown' = shown \cup ids

OnTurnFinished ==
  LET end == Head(updates).end IN
  /\ Takes("finished")
  /\ IF IsOver(ledger, end)
     THEN SubmitNextQueued(queue, EndRecorded(ledger, end))
     ELSE ledger' = EndRecorded(ledger, end) /\ UNCHANGED queue /\ SendsNothing
  /\ UNCHANGED <<interrupting, blocking, shown>>

OnSteerAdmitted ==
  LET id == Head(updates).text IN
  /\ Takes("steer_admitted")
  /\ SubmitNextQueued(SteerAdmitted(queue, id), ledger)
  /\ Shows(IF AppliedEarly(queue, id) THEN {id} ELSE {})
  /\ UNCHANGED <<interrupting, blocking>>

OnSteerPromoted ==
  LET id == Head(updates).text IN
  /\ Takes("steer_promoted")
  /\ queue' = Removed(queue, id)
  /\ ledger' = TurnStarted(ledger)
  /\ SendsNothing
  /\ UNCHANGED <<interrupting, blocking, shown>>

OnSteerFailed ==
  /\ Takes("steer_failed")
  /\ SubmitNextQueued(SteerFailed(queue, Head(updates).text), ledger)
  /\ UNCHANGED <<interrupting, blocking, shown>>

OnTurnsCancelled ==
  /\ Takes("turns_cancelled")
  /\ queue' = SteersCancelled(queue)
  /\ interrupting' = FALSE
  /\ SendsNothing
  /\ UNCHANGED <<ledger, blocking, shown>>

OnCompactionFinished ==
  /\ Takes("compacted")
  /\ blocking' = FALSE
  /\ SendsNothing
  /\ UNCHANGED <<queue, ledger, interrupting, shown>>
-----------------------------------------------------------------------------
(* The agent's events.  run.steered does not say which steer it is about.  *)
Discards == backend = "claude"

OnSteered ==
  /\ stream # <<>> /\ Head(stream).event = "steered"
  /\ stream' = Tail(stream)
  /\ SubmitNextQueued(SteerApplied(queue, Discards, interrupting), ledger)
  /\ Shows(IF Applicable(queue) # {}
              /\ ~SentAgain(FirstApplicable(queue), Discards, interrupting)
           THEN {FirstApplicable(queue).id} ELSE {})
  /\ UNCHANGED <<backend, updates, turns, compacting, given, refused, strayed,
                 interrupting, blocking, shells, countVars, withdrawn, raced,
                 crowded>>

OnTerminal ==
  /\ stream # <<>> /\ Head(stream).event = "terminal"
  /\ stream' = Tail(stream)
  /\ IF IsOver(ledger, "terminal")
     THEN SubmitNextQueued(queue, EndRecorded(ledger, "terminal"))
     ELSE ledger' = EndRecorded(ledger, "terminal") /\ UNCHANGED queue /\ SendsNothing
  /\ UNCHANGED <<backend, updates, turns, compacting, given, refused, strayed,
                 interrupting, blocking, shells, countVars, historyVars>>

-----------------------------------------------------------------------------
WorkerSteps ==
  /\ WorkerNext
  /\ crowded' = (crowded \/ Cardinality(Conversation \ In("over"))' > 1)
  /\ UNCHANGED <<paneVars, countVars, withdrawn, shown, raced>>

Next ==
  \/ \E steer \in BOOLEAN : Enter(steer)
  \/ \E id \in IdsOf(queue) :
       \/ SteerQueued(id) \/ Delete(id) \/ BeginEdit(id)
       \/ \E blank \in BOOLEAN : FinishEdit(id, blank)
  \/ Interrupt \/ StartCompaction \/ RunShell \/ ShellFinished
  \/ ContinueSubagent \/ LiveMessage \/ AuxiliaryRequest
  \/ OnTurnFinished \/ OnSteerAdmitted \/ OnSteerPromoted \/ OnSteerFailed
  \/ OnTurnsCancelled \/ OnCompactionFinished \/ OnSteered \/ OnTerminal
  \/ WorkerSteps

Spec == Init /\ [][Next]_vars
-----------------------------------------------------------------------------
Pending(channel, Test(_)) == Cardinality({i \in DOMAIN channel : Test(channel[i])})

(* The turns a pane counts are those it started whose end it has not seen  *)
(* from both sides, whatever the order of the two signals: no turn is      *)
(* counted twice or ended twice, be it submitted, started by a message or  *)
(* a late steer, or refused.  A signal waits for the other of its turn     *)
(* (components/root/turns.rs:19-29).                                       *)
TurnsAreCounted ==
  LET ended(u)    == u.event = "finished" /\ u.end = "worker"
      rejected(u) == u.event = "finished" /\ u.end = "rejected"
      promoted(u) == u.event = "steer_promoted"
      terminal(e) == e.event = "terminal"
      asked(c)    == c.command = "submit" /\ c.kind = "conversation"
      byWorker    == Cardinality(Conversation) + Pending(updates, ended) + ledger.worker
      byAgent     == Cardinality(Conversation \ In("over")) + Pending(stream, terminal)
                       + ledger.agent
  IN
  /\ byWorker = byAgent /\ (ledger.worker = 0 \/ ledger.agent = 0)
  /\ ledger.turns + Pending(updates, promoted) =
       byWorker + Pending(commands, asked) + Len(held) + Pending(updates, rejected)

(* The loop takes each report of the agent for the steer it is about,      *)
(* though no report says which, but for four cases: a message of another   *)
(* session came too, the pane had two turns at once, an auxiliary job took *)
(* a steer, or one was sent before the interrupt under way was reported.   *)
PairsReports == messages = 0 /\ ~crowded /\ strayed = {} /\ raced = {}

(* A prompt that was entered and not deleted is in the queue, on its way   *)
(* to the agent, in the conversation, or the user was told that it failed: *)
(* no steer, interrupt or edit loses it.  Claude may drop a steer it has   *)
(* applied, but only after the pane has shown it.                          *)
(* (components/queue.rs:15-17, 232-311)                                       *)
PromptsAreKept ==
  PairsReports =>
  \A p \in 1..entered \ withdrawn :
    \/ p \in IdsOf(queue) \/ given[p] > 0 \/ p \in refused
    \/ \E i \in DOMAIN commands :
         \/ commands[i].command = "submit" /\ p \in commands[i].texts
         \/ commands[i].command = "steer" /\ p = commands[i].text
    \/ \E i \in DOMAIN held : p \in held[i].texts
    \/ Discards /\ p \in shown

(* Codex's conversation takes no prompt twice, though an interrupt sends   *)
(* pending steers again and the reports of a steer come in any order       *)
(* (root/tests.rs:1943).                                                   *)
GivenOnce ==
  backend = "codex" /\ PairsReports => \A p \in 1..entered : given[p] <= 1

(* When nothing is under way any more, the pane knows it: no turn is       *)
(* counted, no steer is awaited, no compaction blocks the keys, and only a *)
(* prompt that is being edited holds back what is queued behind it.        *)
NothingStuck ==
  (/\ commands = <<>> /\ updates = <<>> /\ stream = <<>> /\ turns = <<>>
   /\ compacting = "none" /\ shells = 0 /\ PairsReports) =>
    /\ ledger = NoTurns /\ ~HasPendingSteer(queue) /\ ~blocking
    /\ Drained(queue) = <<>>

(* A checkpoint of the conversation never races a turn of it               *)
(* (worker.rs:14-16).                                                      *)
CompactsAlone == compacting = "running" => turns = <<>>

(* An auxiliary job is isolated from the pane's conversation               *)
(* (worker.rs:547): it takes none of the steers.                           *)
SteersReachTheConversation == strayed = {}
==============================================================================
