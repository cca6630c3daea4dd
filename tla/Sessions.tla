------------------------------- MODULE Sessions -------------------------------
(***************************************************************************)
(* The live sessions of the Tact processes that share one session          *)
(* database: their panes, journals and locks (tui/event_loop/panes.rs),    *)
(* opening, resuming and forking (opens.rs, sessions.rs), messages between *)
(* the sessions of a process (live_messages.rs), shutdown (lifecycle.rs),  *)
(* and crashes.                                                            *)
(*                                                                         *)
(* Sessions, panes and journals are numbered as they are made.  A process  *)
(* is its event loop: one step applies one event and all its effects, and  *)
(* a step that awaits a flush keeps the loop until it is done.             *)
(***************************************************************************)
EXTENDS Journal

CONSTANTS
  Processes,
  Messages,                  \* messages to sessions
  MaxSessions,               \* bound on session ids
  MaxOpens,                  \* bound on sessions opened, resumed and forked
  MaxSequence,               \* bound on a journal's numbers
  MaxTrouble,                \* bound on crashes and failed writers
  Features                   \* which of the other operations take place

ASSUME SessionsAssumption == MaxSessions \in Nat \ {0}

VARIABLES
  stored,                    \* the rows of each session in the database
  born,                      \* how many session ids were drawn
  journals,                  \* every journal: its handle and its writer
  panes,                     \* per process: PaneRuntimes and the panes shown
  tasks,                     \* per process: opens that are being configured
  forks,                     \* per process: forks at the worker
  loop,                      \* per process: what the event loop awaits
  message,                   \* where each message is
  opens, trouble,            \* how many opens, crashes and failures there were
  inherited                  \* history: what each fork was to inherit

vars == <<stored, born, journals, panes, tasks, forks, loop, message, opens,
          trouble, inherited>>

Ids == 1..MaxSessions

Free == [awaits |-> "nothing", pane |-> 0]
None == "none"
Away == [at |-> "sender", process |-> None, pane |-> 0]

(* A session that an earlier process recorded, before it crashed.          *)
Earlier == <<Record(1, "start", 0), Record(2, "prompt", 1)>>

Init ==
  /\ born \in {0, 1}
  /\ stored = [s \in Ids |-> IF s <= born THEN Earlier ELSE <<>>]
  /\ journals = <<>>
  /\ panes = [p \in Processes |-> <<>>]
  /\ tasks = [p \in Processes |-> {}] /\ forks = [p \in Processes |-> {}]
  /\ loop = [p \in Processes |-> Free]
  /\ message = [m \in Messages |-> Away]
  /\ opens = 0 /\ trouble = 0
  /\ inherited = [s \in Ids |-> [session |-> 0, through |-> 0]]

(* A pane is shown until it is closed; its runtime outlasts it until the   *)
(* agent's stream ends.  0 stands for no runtime.                          *)
Shown(p, k) == k \in DOMAIN panes[p] /\ panes[p][k].shown
JournalOf(p, k) == IF k \in DOMAIN panes[p] THEN panes[p][k].journal ELSE 0

Live(p) == {k \in DOMAIN panes[p] : panes[p][k].journal # 0}
SessionOf(p, k) == journals[panes[p][k].journal].session

(* The lock of a session is shared by its runtime and the task that awaits *)
(* its writer; the task that loads it holds it before.                     *)
Loading(s) ==
  \E p \in Processes : \E t \in tasks[p] : t.session = s /\ t.phase # "failed"
HasRuntime(s) == \E p \in Processes : \E k \in Live(p) : SessionOf(p, k) = s
HasWriter(s) ==
  \E j \in DOMAIN journals :
    journals[j].session = s /\ journals[j].writer \in {"open", "closed"}

(* fault: the lock goes with the runtime, while the writer still drains. *)
FaultyLocked(s) == Loading(s) \/ HasRuntime(s)
Locked(s) == Loading(s) \/ HasRuntime(s) \/ HasWriter(s)

Ready(p) == loop[p] = Free
MayOpen(p) == Ready(p) /\ opens < MaxOpens
Opens == opens' = opens + 1

Sessionless == [shown |-> TRUE, journal |-> 0]
NewPane(p) == Len(panes[p]) + 1
-----------------------------------------------------------------------------
(* Journals of open panes take the user's prompts, and in their turns the  *)
(* agent's events.                                                         *)
Appends(p, k, kind) ==
  /\ Ready(p) /\ k \in Live(p)
  /\ LET j == panes[p][k].journal IN
     /\ journals[j].writer = "open" /\ journals[j].next < MaxSequence
     /\ kind # "prompt" => journals[j].turn > 0
     /\ journals' = [journals EXCEPT ![j] =
          IF kind = "prompt" THEN AppendPrompt(@) ELSE AppendAgent(@, kind)]
  /\ UNCHANGED <<stored, born, panes, tasks, forks, loop, message, trouble,
                 inherited, opens>>

(* The writer commits in one transaction the records that were queued when *)
(* it drained the queue, or fails.                                         *)
Commits(j) ==
  /\ journals[j].writer \in {"open", "closed"}
  /\ \E n \in 1..Len(journals[j].queue) :
       LET batch == SubSeq(journals[j].queue, 1, n) IN
       /\ stored' = [stored EXCEPT ![journals[j].session] = WithRows(@, batch)]
       /\ journals' = [journals EXCEPT ![j].queue = SubSeq(@, n + 1, Len(@))]
  /\ UNCHANGED <<born, panes, tasks, forks, loop, message, trouble, inherited,
                 opens>>

CommitFails(j) ==
  /\ trouble < MaxTrouble
  /\ journals[j].writer \in {"open", "closed"} /\ journals[j].queue # <<>>
  /\ journals' = [journals EXCEPT ![j].queue = <<>>, ![j].writer = "failed"]
  /\ trouble' = trouble + 1
  /\ UNCHANGED <<stored, born, panes, tasks, forks, loop, message, inherited,
                 opens>>

WriterEnds(j) ==
  /\ journals[j].writer = "closed" /\ journals[j].queue = <<>>
  /\ journals' = [journals EXCEPT ![j] = Gone]
  /\ UNCHANGED <<stored, born, panes, tasks, forks, loop, message, trouble,
                 inherited, opens>>
-----------------------------------------------------------------------------
(* Opening: a new session or a stored one, in a pane of its own or in one  *)
(* whose session it replaces.                                              *)
Task(k, session, waits) ==
  [pane |-> k, session |-> session, phase |-> "loading", next |-> 1, waits |-> waits]

OpensIn(p, k, session) ==
  IF k = NewPane(p)
  THEN panes' = [panes EXCEPT ![p] = Append(@, Sessionless)]
  ELSE panes' = panes

Resumable(s) == stored[s] # <<>> /\ ~Locked(s)

(* spawn_fresh, new_session: s = 0; resume, resume_session.                *)
Open(p, k, s) ==
  /\ MayOpen(p)
  /\ IF k = NewPane(p) THEN TRUE
     ELSE /\ "replace" \in Features /\ Shown(p, k) /\ k \in Live(p)
          /\ ~\E t \in tasks[p] : t.pane = k
  /\ s # 0 => Resumable(s)
  /\ OpensIn(p, k, s) /\ Opens
  /\ tasks' = [tasks EXCEPT ![p] = @ \cup {Task(k, s, k = NewPane(p))}]
  /\ UNCHANGED <<stored, born, journals, forks, loop, message, trouble,
                 inherited>>

(* A session can be loaded if the boundary of each fork it descends from   *)
(* is a record of its parent.                                              *)
ParentOf(s) == FirstStart(stored[s]).parent

Ancestry(s) ==
  LET up[n \in 0..MaxSessions] ==
        IF n = 0 THEN {s}
        ELSE up[n - 1] \cup {ParentOf(a) : a \in up[n - 1] \ {0}}
  IN up[MaxSessions] \ {0}

BoundaryFound(s) ==
  LET start == FirstStart(stored[s]) IN
  start.through > 0 => HasRow(stored[start.parent], start.through)

Loadable(s) == \A a \in Ancestry(s) : BoundaryFound(a)

(* restore_session reads the database; either kind may fail to configure.  *)
Loads(p, t) ==
  /\ t \in tasks[p] /\ t.phase = "loading"
  /\ \/ /\ t.session # 0 => Loadable(t.session)
        /\ tasks' = [tasks EXCEPT ![p] = (@ \ {t}) \cup
             {[t EXCEPT !.phase = "ready",
                        !.next = IF t.session = 0 THEN 1
                                 ELSE NextSequence(stored[t.session])]}]
     \/ /\ "failure" \in Features \/ (t.session # 0 /\ ~Loadable(t.session))
        /\ tasks' = [tasks EXCEPT ![p] = (@ \ {t}) \cup {[t EXCEPT !.phase = "failed"]}]
  /\ UNCHANGED <<stored, born, journals, panes, forks, loop, message, trouble,
                 inherited, opens>>

(* install: the journal of a session that is replaced is closed.  As any   *)
(* append to it, this fails once its writer has: the loop then shuts down. *)
WithJournal(p, k, journal) ==
  /\ k \in Live(p) => journals[panes[p][k].journal].writer = "open"
  /\ panes' = [panes EXCEPT ![p][k].journal = Len(journals) + 1]
  /\ journals' = Append([j \in DOMAIN journals |->
         IF j = panes[p][k].journal THEN Closed(journals[j]) ELSE journals[j]], journal)

Waiting(p, k) ==
  {m \in Messages : message[m] = [at |-> "opening", process |-> p, pane |-> k]}

Moved(ms, place, p, k) ==
  message' = [m \in Messages |->
    IF m \in ms THEN [at |-> place, process |-> p, pane |-> k] ELSE message[m]]

(* Delivered, rejected or dropped with its channel: the sender is told.    *)
Answered(ms) == Moved(ms, "answered", None, 0)

(* Once the pane's session is live, the messages that waited for it are    *)
(* steered; they are rejected if it is not to be.                          *)
(* fault: a pane that was closed while it opened forgets its messages. *)
FaultyAnsweredBy(p, t) == IF t.phase = "failed" THEN Waiting(p, t.pane) ELSE {}
AnsweredBy(p, t) == Waiting(p, t.pane)

OpenFinished(p, t) ==
  /\ Ready(p) /\ t \in tasks[p] /\ t.phase # "loading"
  /\ tasks' = [tasks EXCEPT ![p] = @ \ {t}]
  /\ IF t.phase = "ready" /\ Shown(p, t.pane)
     THEN /\ t.session = 0 => born < MaxSessions
          /\ born' = IF t.session = 0 THEN born + 1 ELSE born
          /\ LET session == IF t.session = 0 THEN born + 1 ELSE t.session IN
             WithJournal(p, t.pane, Opened(p, session, t.next, StartOf(0, 0)))
          /\ Moved(Waiting(p, t.pane), "worker", p, t.pane)
     ELSE /\ panes' = IF t.waits /\ t.phase = "failed"
                      THEN [panes EXCEPT ![p][t.pane].shown = FALSE] ELSE panes
          /\ Answered(AnsweredBy(p, t))
          /\ UNCHANGED <<born, journals>>
  /\ UNCHANGED <<stored, forks, loop, trouble, inherited, opens>>

ClosePane(p, k) ==
  /\ "close" \in Features /\ Ready(p) /\ Shown(p, k)
  /\ panes' = [panes EXCEPT ![p][k].shown = FALSE]
  /\ UNCHANGED <<stored, born, journals, tasks, forks, loop, message, trouble,
                 inherited, opens>>

(* agent_stream_ended, of a pane that is closing                           *)
StreamEnds(p, k) ==
  /\ Ready(p) /\ k \in Live(p) /\ ~Shown(p, k)
  /\ journals[panes[p][k].journal].writer = "open"
  /\ journals' = [journals EXCEPT ![panes[p][k].journal] = Closed(@)]
  /\ panes' = [panes EXCEPT ![p][k].journal = 0]
  /\ UNCHANGED <<stored, born, tasks, forks, loop, message, trouble, inherited,
                 opens>>
-----------------------------------------------------------------------------
(* request_fork: the parent's records are flushed; its last one is where   *)
(* the fork begins.                                                        *)
RequestFork(p, k) ==
  /\ "fork" \in Features /\ MayOpen(p) /\ Shown(p, k) /\ k \in Live(p)
  /\ panes' = [panes EXCEPT ![p] = Append(@, Sessionless)]
  /\ loop' = [loop EXCEPT ![p] = [awaits |-> "flush", pane |-> k]]
  /\ Opens
  /\ UNCHANGED <<stored, born, journals, tasks, forks, message, trouble,
                 inherited>>

Awaited(p) == journals[panes[p][loop[p].pane].journal]

(* fault: the parent's records are not awaited. *)
FaultyFlushed(j) == j.writer = "open"
Flushed(j) == j.writer = "open" /\ j.queue = <<>>

ForkSent(p) ==
  /\ loop[p].awaits = "flush" /\ Flushed(Awaited(p))
  /\ forks' = [forks EXCEPT ![p] = @ \cup
       {[pane |-> Len(panes[p]), parent |-> loop[p].pane,
         through |-> Awaited(p).last, of |-> Awaited(p).session]}]
  /\ loop' = [loop EXCEPT ![p] = Free]
  /\ UNCHANGED <<stored, born, journals, panes, tasks, message, trouble,
                 inherited, opens>>

Abandoned(p, k) == panes' = [panes EXCEPT ![p][k].shown = FALSE]

(* on_fork_opened: the fork's parent is the session its parent's pane has  *)
(* by then; the fork's start is stored before it is ready.                 *)
ForkOpened(p, f) ==
  /\ Ready(p) /\ f \in forks[p]
  /\ forks' = [forks EXCEPT ![p] = @ \ {f}]
  /\ IF f.parent \in Live(p) /\ Shown(p, f.pane)
     THEN /\ born < MaxSessions
          /\ born' = born + 1
          /\ LET start == StartOf(SessionOf(p, f.parent), f.through) IN
             WithJournal(p, f.pane, StartedIfNeeded(Opened(p, born + 1, 1, start)))
          /\ inherited' = [inherited EXCEPT
               ![born + 1] = [session |-> f.of, through |-> f.through]]
          /\ loop' = [loop EXCEPT ![p] = [awaits |-> "start", pane |-> f.pane]]
     ELSE Abandoned(p, f.pane) /\ UNCHANGED <<born, journals, loop, inherited>>
  /\ UNCHANGED <<stored, tasks, message, trouble, opens>>

(* on_fork_failed: the worker could not fork.                              *)
ForkFailed(p, f) ==
  /\ "failure" \in Features /\ Ready(p) /\ f \in forks[p]
  /\ forks' = [forks EXCEPT ![p] = @ \ {f}]
  /\ Abandoned(p, f.pane)
  /\ UNCHANGED <<stored, born, journals, tasks, loop, message, trouble,
                 inherited, opens>>

ForkReady(p) ==
  /\ loop[p].awaits = "start" /\ Flushed(Awaited(p))
  /\ loop' = [loop EXCEPT ![p] = Free]
  /\ UNCHANGED <<stored, born, journals, panes, tasks, forks, message, trouble,
                 inherited, opens>>

(* A flush that the writer never answers ends the step.                    *)
FlushFails(p) ==
  /\ loop[p].awaits \in {"flush", "start"} /\ Awaited(p).writer = "failed"
  /\ loop' = [loop EXCEPT ![p] = Free]
  /\ UNCHANGED <<stored, born, journals, panes, tasks, forks, message, trouble,
                 inherited, opens>>
-----------------------------------------------------------------------------
(* on_live_session_message: to a session of the process, to one that it is *)
(* resuming, or to a stored one that it resumes for the message.           *)
Resuming(p, s) == {t \in tasks[p] : t.session = s /\ t.waits}

Arrives(p, m, s) ==
  /\ "message" \in Features /\ Ready(p) /\ Live(p) # {} /\ message[m] = Away
  /\ LET runtimes == {k \in Live(p) : SessionOf(p, k) = s} IN
     IF runtimes # {}
     THEN /\ Moved({m}, "worker", p, Min(runtimes))
          /\ UNCHANGED <<panes, tasks, opens>>
     ELSE IF Resuming(p, s) # {}
     THEN /\ Moved({m}, "opening", p, Min({t.pane : t \in Resuming(p, s)}))
          /\ UNCHANGED <<panes, tasks, opens>>
     ELSE IF Resumable(s) /\ MayOpen(p)
     THEN /\ OpensIn(p, NewPane(p), s) /\ Opens
          /\ tasks' = [tasks EXCEPT ![p] = @ \cup {Task(NewPane(p), s, TRUE)}]
          /\ Moved({m}, "opening", p, NewPane(p))
     ELSE Answered({m}) /\ UNCHANGED <<panes, tasks, opens>>
  /\ UNCHANGED <<stored, born, journals, forks, loop, trouble, inherited>>

(* on_message_admitted, on_message_started: recorded where the pane is.    *)
Delivered(p, m) ==
  /\ Ready(p) /\ message[m].at = "worker" /\ message[m].process = p
  /\ LET j == JournalOf(p, message[m].pane) IN
     IF j = 0 THEN UNCHANGED journals
     ELSE /\ journals[j].writer = "open"
          /\ journals' = [journals EXCEPT ![j] = AppendLocal(@, "message")]
  /\ Answered({m})
  /\ UNCHANGED <<stored, born, panes, tasks, forks, loop, trouble, inherited,
                 opens>>

Rejected(p, m) ==
  /\ Ready(p) /\ message[m].at = "worker" /\ message[m].process = p
  /\ "failure" \in Features \/ ~Shown(p, message[m].pane)
  /\ Answered({m})
  /\ UNCHANGED <<stored, born, journals, panes, tasks, forks, loop, trouble,
                 inherited, opens>>
-----------------------------------------------------------------------------
(* A message whose host stops is answered so, when its channel drops.      *)
Dropped(p) == Answered({m \in Messages : message[m].process = p})

MayQuit(p) ==
  \/ "quit" \in Features /\ panes[p] # <<>>
  \/ \E j \in DOMAIN journals : journals[j].process = p /\ journals[j].writer = "failed"

(* Shutdown, asked for or because a writer failed: opens are aborted and   *)
(* the journals closed; the process ends when their writers have drained.  *)
Quit(p) ==
  /\ Ready(p) /\ MayQuit(p)
  /\ tasks' = [tasks EXCEPT ![p] = {}] /\ forks' = [forks EXCEPT ![p] = {}]
  /\ journals' = [j \in DOMAIN journals |->
       IF journals[j].process = p /\ journals[j].writer = "open"
       THEN Closed(journals[j]) ELSE journals[j]]
  /\ loop' = [loop EXCEPT ![p] = [awaits |-> "writers", pane |-> 0]]
  /\ Dropped(p)
  /\ UNCHANGED <<stored, born, panes, trouble, inherited, opens>>

(* The journals of a process that is no more.                              *)
Lost(p) ==
  journals' = [j \in DOMAIN journals |->
    IF journals[j].process = p
    THEN Gone ELSE journals[j]]

Exits(p) ==
  /\ loop[p].awaits = "writers"
  /\ \A j \in DOMAIN journals :
       journals[j].process = p => journals[j].writer \in {"gone", "failed"}
  /\ Lost(p)
  /\ panes' = [panes EXCEPT ![p] = <<>>] /\ loop' = [loop EXCEPT ![p] = Free]
  /\ UNCHANGED <<stored, born, tasks, forks, message, trouble, inherited,
                 opens>>

(* The operating system releases the locks of a process that crashes.      *)
Crash(p) ==
  /\ trouble < MaxTrouble /\ panes[p] # <<>>
  /\ trouble' = trouble + 1
  /\ Lost(p) /\ Dropped(p)
  /\ panes' = [panes EXCEPT ![p] = <<>>] /\ loop' = [loop EXCEPT ![p] = Free]
  /\ tasks' = [tasks EXCEPT ![p] = {}] /\ forks' = [forks EXCEPT ![p] = {}]
  /\ UNCHANGED <<stored, born, inherited, opens>>
-----------------------------------------------------------------------------
PaneStep(p, k) ==
  \/ \E s \in 0..born : Open(p, k, s)
  \/ \E kind \in {"prompt", "draft", "final", "api"} : Appends(p, k, kind)
  \/ ClosePane(p, k) \/ StreamEnds(p, k) \/ RequestFork(p, k)

Next ==
  \/ \E p \in Processes :
       \/ \E k \in 1..NewPane(p) : PaneStep(p, k)
       \/ \E t \in tasks[p] : Loads(p, t) \/ OpenFinished(p, t)
       \/ \E f \in forks[p] : ForkOpened(p, f) \/ ForkFailed(p, f)
       \/ \E m \in Messages : Delivered(p, m) \/ Rejected(p, m)
       \/ \E m \in Messages, s \in 1..born : Arrives(p, m, s)
       \/ ForkSent(p) \/ ForkReady(p) \/ FlushFails(p)
       \/ Quit(p) \/ Exits(p) \/ Crash(p)
  \/ \E j \in DOMAIN journals : Commits(j) \/ CommitFails(j) \/ WriterEnds(j)

Spec == Init /\ [][Next]_vars
-----------------------------------------------------------------------------
(* Whoever records a session, before and after resumes and crashes, and in *)
(* whichever process: its records are stored in the order of their         *)
(* numbers, no two with one, and a start before all others.  A session is  *)
(* resumed from all that was recorded of it.                               *)
(* (session.rs:525-528; panes.rs:449-466)                                  *)
SequencesRise ==
  \A s \in Ids : stored[s] # <<>> =>
    /\ stored[s][1].kind = "start"
    /\ \A i \in 2..Len(stored[s]) : stored[s][i - 1].seq < stored[s][i].seq

(* What a fork inherits was stored before the fork was: a crash never      *)
(* leaves a fork that begins after the last record of its parent           *)
(* (opens.rs:382-386).                                                     *)
AncestryIsDurable ==
  \A s \in Ids :
    LET from == inherited[s] IN
    stored[s] # <<>> /\ from.through > 0 =>
      \E i \in DOMAIN stored[from.session] : stored[from.session][i].seq >= from.through

(* A session nobody used leaves nothing on disk, and one that is only      *)
(* resumed nothing more: a start is held back until there is a record for  *)
(* it, so none is stored with an end alone, unless it is a fork's, which   *)
(* is stored at once (journal.rs:3-6).                                     *)
UntouchedLeavesNothing ==
  \A s \in Ids : \A i \in 2..Len(stored[s]) :
    LET start == stored[s][i - 1] IN
    start.kind = "start" /\ start.parent = 0 => stored[s][i].kind # "end"

(* A message that waits for a session to open waits for an open that is    *)
(* under way, also when the pane is closed, the open fails or the process  *)
(* shuts down (opens.rs:192-193, 214-227).                                 *)
NoMessageIsForgotten ==
  \A m \in Messages : message[m].at = "opening" =>
    \E t \in tasks[message[m].process] : t.pane = message[m].pane

(* The boundary of a stored fork is a record of the parent it names, so    *)
(* that the fork can be resumed: "each ancestor contributes only the       *)
(* prefix through that boundary" (session.rs:807-808).                     *)
ForksCanBeLoaded == \A s \in Ids : stored[s] # <<>> => BoundaryFound(s)
==============================================================================
