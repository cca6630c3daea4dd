------------------------------ MODULE TurnWorker ------------------------------
(***************************************************************************)
(* The turn worker of one pane: core/worker.rs.  It takes the commands of  *)
(* the event loop in order, lets the pane's agent run turns, and reports   *)
(* on a channel of its own; the agent's events reach the loop on another.  *)
(*                                                                         *)
(* The agent (nanocode) is external.  A turn that runs takes steers and    *)
(* applies them in order, reporting each (run.steered); it ends by itself  *)
(* when it has applied what it took, or because it was cancelled, and then *)
(* delivers a terminal event.  Texts are the ids of prompts and messages.  *)
(***************************************************************************)
EXTENDS Integers, FiniteSets, Sequences, FiniteSetsExt

CONSTANTS
  Texts,                     \* what is sent to the agent
  MayFail,                   \* whether the agent may refuse a prompt or a steer
  Backends                   \* a subset of {"codex", "claude"}

VARIABLES
  backend,
  commands, updates,         \* WorkerCommand, WorkerEvent
  stream,                    \* the agent's events
  turns,                     \* ActiveTurns: controls and tasks
  compacting,                \* the pane's compaction: none, running or done
  given,                     \* history: how often the conversation took a text
  refused,                   \* history: prompts the loop was told have failed
  strayed                    \* history: steers an auxiliary job took

workerVars == <<backend, commands, updates, stream, turns, compacting, given,
                refused, strayed>>

WorkerInit ==
  /\ backend \in Backends
  /\ commands = <<>> /\ updates = <<>> /\ stream = <<>>
  /\ turns = <<>> /\ compacting = "none"
  /\ given = [t \in Texts |-> 0] /\ refused = {} /\ strayed = {}

Started(kind) == [kind |-> kind, phase |-> "running", steers |-> <<>>, applied |-> {}]

In(phase) == {t \in DOMAIN turns : turns[t].phase = phase}

WithTurn(id, kind) == [t \in DOMAIN turns \cup {id} |->
                         IF t = id THEN Started(kind) ELSE turns[t]]

Report(update) == updates' = Append(updates, update)

Given(texts) == given' = [t \in Texts |-> IF t \in texts THEN given[t] + 1 ELSE given[t]]
-----------------------------------------------------------------------------
(* The agent.                                                              *)
Applies(t) ==
  /\ turns[t].phase = "running" /\ turns[t].steers # <<>>
  /\ LET text == Head(turns[t].steers) IN
     /\ turns' = [turns EXCEPT ![t].steers = Tail(@), ![t].applied = @ \cup {text}]
     /\ IF turns[t].kind = "conversation"
        THEN /\ stream' = Append(stream, [event |-> "steered", text |-> text])
             /\ Given({text})
        ELSE UNCHANGED <<stream, given>>
  /\ UNCHANGED <<backend, commands, updates, compacting, refused, strayed>>

(* A cancelled turn drops what it has not applied; Claude's also drops     *)
(* what it has.                                                            *)
Ends(t) ==
  /\ \/ turns[t].phase = "running" /\ turns[t].steers = <<>>
     \/ turns[t].phase = "stopping"
  /\ turns' = [turns EXCEPT ![t].phase = "over"]
  /\ stream' = IF turns[t].kind = "conversation"
               THEN Append(stream, [event |-> "terminal"]) ELSE stream
  /\ given' = IF backend = "claude" /\ turns[t].phase = "stopping"
              THEN [x \in Texts |-> IF x \in turns[t].applied
                                    THEN given[x] - 1 ELSE given[x]]
              ELSE given
  /\ UNCHANGED <<backend, commands, updates, compacting, refused, strayed>>

CompactionEnds ==
  /\ compacting = "running"
  /\ compacting' = "done"
  /\ UNCHANGED <<backend, commands, updates, stream, turns, given, refused,
                 strayed>>
-----------------------------------------------------------------------------
(* The loop's preferences: compactions, then turns, then commands.  A turn *)
(* that is over still takes a checkpoint before the loop can see its end,  *)
(* so commands may come between.                                           *)
FinishCompaction ==
  /\ compacting = "done"
  /\ compacting' = "none"
  /\ Report([event |-> "compacted"])
  /\ UNCHANGED <<backend, commands, stream, turns, given, refused, strayed>>

(* finish: the turn's control goes and its outcome is reported; that of an *)
(* auxiliary job goes to whoever asked for it.                             *)
FinishTurn(t) ==
  /\ compacting # "done" /\ turns[t].phase = "over"
  /\ turns' = [s \in DOMAIN turns \ {t} |-> turns[s]]
  /\ IF turns[t].kind = "conversation"
     THEN Report([event |-> "finished", end |-> "worker"]) ELSE UNCHANGED updates
  /\ UNCHANGED <<backend, commands, stream, compacting, given, refused,
                 strayed>>

Handles(command) ==
  /\ compacting # "done"
  /\ commands # <<>> /\ Head(commands).command = command
  /\ commands' = Tail(commands)
  /\ UNCHANGED backend

(* Nothing else is admitted while the pane compacts.                       *)
Idle == compacting = "none"

(* start: a conversation turn, or an auxiliary job on an agent of its own. *)
Submit ==
  LET request == Head(commands) IN
  /\ Handles("submit")
  /\ LET busy    == backend = "claude" /\ request.kind = "conversation" /\ turns # <<>>
         started ==
           /\ turns' = WithTurn(request.id, request.kind)
           /\ Given(request.texts)
           /\ UNCHANGED <<updates, refused>>
         rejected ==
           /\ IF request.kind = "conversation"
              THEN Report([event |-> "finished", end |-> "rejected"])
              ELSE UNCHANGED updates
           /\ refused' = refused \cup request.texts
           /\ UNCHANGED <<turns, given>>
     IN
     \/ Idle /\ ~busy /\ started
     \/ (~Idle \/ busy \/ MayFail) /\ rejected
  /\ UNCHANGED <<stream, compacting, strayed>>

(* steer: the oldest turn that takes it, or a turn of its own.             *)
Steerable == In("running")

Steer ==
  LET request == Head(commands)
      told(event) == Report([event |-> event, text |-> request.text])
      failed == told("steer_failed") /\ UNCHANGED <<turns, given, strayed>>
  IN
  /\ Handles("steer")
  /\ IF ~Idle THEN failed
     ELSE IF turns # <<>> /\ Steerable # {}
     THEN \/ /\ turns' = [turns EXCEPT ![Min(Steerable)].steers = Append(@, request.text)]
             /\ strayed' = IF turns[Min(Steerable)].kind = "auxiliary"
                           THEN strayed \cup {request.text} ELSE strayed
             /\ told("steer_admitted")
             /\ UNCHANGED given
          \/ MayFail /\ failed
     ELSE IF backend = "claude" /\ turns # <<>> THEN failed
     ELSE \/ /\ turns' = WithTurn(request.id, "conversation")
             /\ Given({request.text})
             /\ told("steer_promoted")
             /\ UNCHANGED strayed
          \/ MayFail /\ failed
  /\ UNCHANGED <<stream, compacting, refused>>

(* cancel: every turn of the pane that still runs, auxiliary jobs too.     *)
CancelAll ==
  /\ Handles("cancel_all")
  /\ turns' = [t \in DOMAIN turns |->
       IF turns[t].phase = "running" THEN [turns[t] EXCEPT !.phase = "stopping"]
       ELSE turns[t]]
  /\ Report([event |-> "turns_cancelled"])
  /\ UNCHANGED <<stream, compacting, given, refused, strayed>>

(* compact: only of a pane without turns.                                  *)
(* fault: turns do not keep it from starting. *)
FaultyMayCompact == Idle
MayCompact == Idle /\ turns = <<>>

Compact ==
  /\ Handles("compact")
  /\ IF MayCompact
     THEN compacting' = "running" /\ UNCHANGED updates
     ELSE Report([event |-> "compacted"]) /\ UNCHANGED compacting
  /\ UNCHANGED <<stream, turns, given, refused, strayed>>

WorkerNext ==
  \/ Submit \/ Steer \/ CancelAll \/ Compact
  \/ FinishCompaction \/ CompactionEnds
  \/ \E t \in DOMAIN turns : FinishTurn(t) \/ Applies(t) \/ Ends(t)
==============================================================================
