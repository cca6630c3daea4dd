------------------------------- MODULE WebHub -------------------------------
(***************************************************************************)
(* The web interface's picture of the live sessions: the terminal          *)
(* publishes what changed (tui/components/app.rs), the hub folds it into a *)
(* projection and sends the differences to every tab (web/hub.rs), and a   *)
(* tab reduces the events it reads (web/src/core/store.ts).                *)
(*                                                                         *)
(* A transcript is a sequence of entries with stable ids and revisions;    *)
(* everything else a session shows (draft, queue, settings, status, title, *)
(* roster) is one value, its facts.  A session that closes and opens again *)
(* has another life, whose contents are not those of the last one.         *)
(*                                                                         *)
(* One tab is followed.  Of the others it matters whether the hub has any. *)
(***************************************************************************)
EXTENDS Integers, SequencesExt, FiniteSetsExt

CONSTANTS
  Sessions, Panes,
  None,
  Stored,                    \* entries of a stored session
  MaxEntries, MaxRevision,   \* bounds on a transcript
  MaxFacts,                  \* bound on the values of facts
  MaxEvents                  \* bound on openings and changes of sessions

VARIABLES
  panes,                     \* what each pane shows and what it is opening
  recency,                   \* panes, least recently active first; the last has the focus
  announced,                 \* the last session published as active
  published,                 \* publications sent, not yet folded
  live, active, closed, due, \* the projection, and whether a flush is due
  sent,                      \* the state of the active session as clients last saw it
  client, others,            \* whether the tab is connected, and whether others are
  tab,                       \* the tab's state
  events,                    \* how many sessions were opened, again or not, and changes made
  stale,                     \* history: the session last announced has closed since
  joined,                    \* history: what the tab was shown if it joined since the last flush
  misled                     \* history: no later difference will mend what the tab shows

appVars == <<panes, recency, announced, published>>
hubVars == <<live, active, closed, due, sent>>
historyVars == <<stale, joined, misled>>
vars == <<appVars, hubVars, client, others, tab, events, historyVars>>
-----------------------------------------------------------------------------
(* The projection of a session, and what of it is visible.                 *)
Projection(life, n) ==
  [life |-> life, facts |-> 0, reshaped |-> FALSE, next |-> n,
   entries |-> [i \in 1..n |-> [id |-> i, revision |-> 1, hidden |-> FALSE]]]

Visible(s) == SelectSeq(live[s].entries, LAMBDA e : ~e.hidden)

Revisions(s) ==
  LET shown == Visible(s) IN
  [i \in DOMAIN shown |-> [id |-> shown[i].id, revision |-> shown[i].revision]]

Summaries == [s \in DOMAIN live |-> live[s].facts]

ActiveSent(s) ==
  [session |-> s, life |-> live[s].life, facts |-> live[s].facts, entries |-> Revisions(s)]

Baseline == [summaries |-> Summaries,
             active |-> IF active = None THEN None ELSE ActiveSent(active)]

(* Frames of the stream.                                                   *)
LiveFrame     == [event |-> "live", active |-> active, sessions |-> Summaries]
SnapshotFrame == [event |-> "snapshot", session |-> active, view |-> ActiveSent(active)]
ClosedFrame(s)   == [event |-> "closed", session |-> s]
FactsFrame    == [event |-> "facts", session |-> active, facts |-> live[active].facts]
EntryFrame(e) == [event |-> "entry", session |-> active, entry |-> e]
-----------------------------------------------------------------------------
(* A tab's state: the store, and what a snapshot or an event makes of it.  *)
NoState == [live |-> <<>>, active |-> None, session |-> None]

EntryMap(entries) ==
  [id \in {entries[i].id : i \in DOMAIN entries} |->
     entries[CHOOSE i \in DOMAIN entries : entries[i].id = id].revision]

SessionView(view) == [view EXCEPT !.entries = EntryMap(@)]

(* Stores entry unless the same or a newer revision is held.               *)
Upserted(held, entry) ==
  IF entry.id \in DOMAIN held /\ held[entry.id] >= entry.revision
  THEN held
  ELSE [id \in DOMAIN held \cup {entry.id} |->
          IF id = entry.id THEN entry.revision ELSE held[id]]

Shows(state, s) == state.session # None /\ state.session.session = s

Reduced(state, frame) ==
  CASE frame.event = "live" ->
         [state EXCEPT !.live = frame.sessions, !.active = frame.active]
    [] frame.event = "snapshot" ->
         [state EXCEPT !.session = SessionView(frame.view), !.active = frame.session]
    [] frame.event = "closed" ->
         [live |-> [s \in DOMAIN state.live \ {frame.session} |-> state.live[s]],
          active |-> IF state.active = frame.session THEN None ELSE state.active,
          session |-> IF Shows(state, frame.session) THEN None ELSE state.session]
    [] frame.event = "facts" /\ Shows(state, frame.session) ->
         [state EXCEPT !.session.facts = frame.facts]
    [] frame.event = "entry" /\ Shows(state, frame.session) ->
         [state EXCEPT !.session.entries = Upserted(@, frame.entry)]
    [] OTHER -> state

(* broadcast: a client whose buffer is full is dropped at the first frame  *)
(* that does not fit, and reads what came before.  The tab answers nothing *)
(* here, so it may as well read at once.                                   *)
Reading(frames) == FoldLeft(Reduced, tab, frames)

(* While it is away the tab goes on showing its session.                   *)
Away(state) == [NoState EXCEPT !.session = state.session]

Broadcast(frames) ==
  /\ UNCHANGED others
  /\ \/ ~client /\ UNCHANGED <<client, tab>>
     \/ client /\ tab' = Reading(frames) /\ UNCHANGED client
     \/ /\ client /\ client' = FALSE
        /\ \E n \in 0..(Len(frames) - 1) : tab' = Away(Reading(SubSeq(frames, 1, n)))
-----------------------------------------------------------------------------
Pane(shows, opening) == [shows |-> shows, opening |-> opening]
Focus == Last(recency)

(* A session is shown or being opened once: it is locked.                  *)
InUse == UNION {{panes[p].shows, panes[p].opening} : p \in DOMAIN panes}

(* publish_changes: the focused pane's session is announced as active      *)
(* unless it was the last one announced.  The terminal reads nothing of    *)
(* the hub, so it loses no behaviour by waiting for the last publications  *)
(* to be folded.                                                           *)
Announced(ps, r) ==
  IF ps[Last(r)].shows \in {None, announced} THEN <<>>
  ELSE <<[kind |-> "active", session |-> ps[Last(r)].shows]>>

Publish(ps, r, publications) ==
  LET all == publications \o Announced(ps, r) IN
  /\ panes' = ps /\ recency' = r
  /\ announced' = IF Announced(ps, r) = <<>> THEN announced ELSE ps[Last(r)].shows
  /\ published = <<>> /\ published' = all
  /\ stale' = /\ Announced(ps, r) = <<>>
              /\ \/ stale
                 \/ \E i \in DOMAIN all : all[i].kind = "closed" /\ all[i].session = announced

(* A pane is in the list once.                                             *)
Dropped(r, p) == RemoveAt(r, CHOOSE i \in DOMAIN r : r[i] = p)

Activated(r, p) == Append(Dropped(r, p), p)
Without(p) == [q \in DOMAIN panes \ {p} |-> panes[q]]

ClosedOf(s) == IF s = None THEN <<>> ELSE <<[kind |-> "closed", session |-> s]>>
OpenedOf(s, n) == <<[kind |-> "opened", session |-> s, entries |-> n, life |-> events]>>
InheritOf(s, parent) ==
  IF parent = None THEN <<>> ELSE <<[kind |-> "inherit", session |-> s, parent |-> parent]>>

HubWaits == UNCHANGED <<hubVars, client, others, tab, joined, misled>>

(* begin_open, begin_fork: an empty pane takes the focus while a new, a    *)
(* stored or a forked session opens in it.                                 *)
BeginOpen(p, s) ==
  /\ p \notin DOMAIN panes /\ s \notin InUse /\ events < MaxEvents
  /\ Publish([q \in DOMAIN panes \cup {p} |-> IF q = p THEN Pane(None, s) ELSE panes[q]],
             Append(recency, p), <<>>)
  /\ events' = events + 1
  /\ HubWaits

(* new_session, resume_session, a handoff: in a pane that shows another.   *)
BeginReplace(p, s) ==
  /\ p \in DOMAIN panes /\ panes[p].shows # None /\ panes[p].opening = None
  /\ s \notin InUse /\ events < MaxEvents
  /\ Publish([panes EXCEPT ![p].opening = s], recency, <<>>)
  /\ events' = events + 1
  /\ HubWaits

(* session_opened: with the records of a stored session, or none; a fork's *)
(* start record follows.                                                   *)
Opened(p, n, parent) ==
  /\ p \in DOMAIN panes /\ panes[p].opening # None
  /\ parent # None => /\ n = 0 /\ panes[p].shows = None
                      /\ \E q \in DOMAIN panes : panes[q].shows = parent
  /\ Publish([panes EXCEPT ![p] = Pane(@.opening, None)], recency,
             ClosedOf(panes[p].shows) \o OpenedOf(panes[p].opening, n)
               \o InheritOf(panes[p].opening, parent))
  /\ UNCHANGED events /\ HubWaits

(* abandon_pane; a pane that shows a session keeps it.  With the last pane *)
(* the terminal ends.                                                      *)
OpenFailed(p) ==
  /\ p \in DOMAIN panes /\ panes[p].opening # None
  /\ IF panes[p].shows # None
     THEN Publish([panes EXCEPT ![p].opening = None], recency, <<>>)
     ELSE /\ DOMAIN panes # {p}
          /\ Publish(Without(p), Dropped(recency, p), <<>>)
  /\ UNCHANGED events /\ HubWaits

Activate(p) ==
  /\ p \in DOMAIN panes
  /\ Publish(panes, Activated(recency, p), <<>>)
  /\ UNCHANGED events /\ HubWaits

ClosePane(p) ==
  /\ p \in DOMAIN panes /\ DOMAIN panes # {p}
  /\ Publish(Without(p), Dropped(recency, p), ClosedOf(panes[p].shows))
  /\ UNCHANGED events /\ HubWaits

(* A session's turn, its agents or its user change it; what changes is     *)
(* chosen as the hub folds the publication.                                *)
Work(p) ==
  /\ p \in DOMAIN panes /\ panes[p].shows # None /\ events < MaxEvents
  /\ Publish(panes, recency, <<[kind |-> "change", session |-> panes[p].shows]>>)
  /\ events' = events + 1
  /\ UNCHANGED <<hubVars, client, others, tab, joined, misled>>
-----------------------------------------------------------------------------
(* What a record or another publication does to a session's projection: a  *)
(* new entry, a changed one, one trimmed from the message history, one     *)
(* hidden behind its first call or shown again, a call moved behind the    *)
(* one before it or its cell (register_code_child), or other facts.        *)
Revised(l, i) == [l EXCEPT !.entries[i].revision = @ + 1]

Follows(l, i, j) == l.entries[i].id > l.entries[j].id

Moved(l, i, j) ==
  [l EXCEPT !.entries = InsertAt(RemoveAt(@, i), j + 1, Revised(l, i).entries[i])]

Changed(l) ==
  LET ids == DOMAIN l.entries
      open == {i \in ids : l.entries[i].revision < MaxRevision} IN
     (IF l.next < MaxEntries
      THEN {[l EXCEPT !.next = @ + 1,
               !.entries = Append(@, [id |-> l.next + 1, revision |-> 1, hidden |-> FALSE])]}
      ELSE {})
  \cup {Revised(l, i) : i \in open}
  \cup {[Revised(l, i) EXCEPT !.entries[i].hidden = ~@] : i \in open}
  \cup {Moved(l, m[1], m[2]) :
           m \in {m \in open \X ids : m[2] + 1 < m[1] /\ Follows(l, m[1], m[2])}}
  \cup {[l EXCEPT !.entries = RemoveAt(@, i), !.reshaped = TRUE] : i \in ids}
  \cup {[l EXCEPT !.facts = f] : f \in (0..MaxFacts) \ {l.facts}}

(* apply: a publication of a session the hub does not have changes nothing,*)
(* but that it opened.                                                     *)
(* Fault: any session that closes leaves none active.                      *)
FaultyActiveAfter(p) ==
  CASE p.session \in DOMAIN live /\ p.kind = "closed" -> None
    [] p.session \in DOMAIN live /\ p.kind = "active" -> p.session
    [] OTHER                                          -> active

ActiveAfter(p) ==
  CASE p.session \in DOMAIN live /\ p.kind = "closed" /\ active = p.session -> None
    [] p.session \in DOMAIN live /\ p.kind = "active"                        -> p.session
    [] OTHER                                                                 -> active

Live(s, l) == [r \in DOMAIN live \cup {s} |-> IF r = s THEN l ELSE live[r]]

LivesAfter(p) ==
  LET s == p.session IN
  IF p.kind = "opened" THEN {Live(s, Projection(p.life, p.entries))}
  ELSE IF s \notin DOMAIN live THEN {live}
  ELSE CASE p.kind = "inherit" /\ p.parent \in DOMAIN live ->
              {[live EXCEPT ![s].entries = live[p.parent].entries,
                            ![s].next = live[p.parent].next]}
         [] p.kind = "change" -> {Live(s, l) : l \in Changed(live[s])}
         [] p.kind = "closed" -> {[r \in DOMAIN live \ {s} |-> live[r]]}
         [] OTHER -> {live}

Fold ==
  /\ published # <<>> /\ published' = Tail(published) /\ due' = TRUE
  /\ LET p == Head(published) IN
     /\ live' \in LivesAfter(p)
     /\ active' = ActiveAfter(p)
     /\ closed' = IF p.kind = "closed" /\ p.session \in DOMAIN live
                  THEN Append(closed, p.session) ELSE closed
  /\ UNCHANGED <<panes, recency, announced, sent, client, others, tab, events, historyVars>>
-----------------------------------------------------------------------------
(* The transcript grew at its end: the entries already sent are in place.  *)
(* Fault: only its length is looked at.                                    *)
FaultyAppendOnly(before, now) == Len(now) >= Len(before)

AppendOnly(before, now) ==
  /\ Len(now) >= Len(before)
  /\ \A i \in DOMAIN before : now[i].id = before[i].id

DiffEntries(before, now) ==
  IF ~AppendOnly(before, now) THEN <<SnapshotFrame>>
  ELSE LET fresh == SelectSeq([i \in DOMAIN now |-> i],
                              LAMBDA i : i \notin DOMAIN before \/ now[i] # before[i])
       IN  [k \in DOMAIN fresh |-> EntryFrame(now[fresh[k]])]

DiffActive(previous) ==
  (IF live[active].facts = previous.facts THEN <<>> ELSE <<FactsFrame>>)
    \o DiffEntries(previous.entries, Revisions(active))

(* The active session's part of a flush.                                   *)
KeepsActive == sent.active # None /\ sent.active.session = active

ActiveFrames ==
  IF active = None THEN <<>>
  ELSE IF KeepsActive /\ ~live[active].reshaped THEN DiffActive(sent.active)
       ELSE <<SnapshotFrame>>

LiveFrames ==
  LET before == IF sent.active = None THEN None ELSE sent.active.session IN
  IF Summaries # sent.summaries \/ before # active THEN <<LiveFrame>> ELSE <<>>

(* flush; sent is present as long as there are clients.                    *)
Frames == [i \in DOMAIN closed |-> ClosedFrame(closed[i])] \o LiveFrames \o ActiveFrames

(* What no difference tells a tab: that a session it hears has closed      *)
(* opened again before this flush; and that what it saw as it joined       *)
(* between two flushes was undone before the second.                       *)
Reborn ==
  \E s \in Range(closed) \cap DOMAIN live :
    LiveFrames = <<>> \/ (s = active /\ SnapshotFrame \notin Range(ActiveFrames))

StateOf(view) ==
  [live |-> view.summaries,
   active |-> IF view.active = None THEN None ELSE view.active.session,
   session |-> IF view.active = None THEN None ELSE SessionView(view.active)]

Undone(view) == FoldLeft(Reduced, StateOf(view), Frames) # StateOf(Baseline)

Flush ==
  /\ due /\ due' = FALSE /\ closed' = <<>>
  /\ IF ~client /\ ~others
     THEN /\ sent' = None
          /\ live' = [s \in DOMAIN live |-> [live[s] EXCEPT !.reshaped = FALSE]]
          /\ UNCHANGED <<client, others, tab, misled>>
     ELSE /\ sent' = Baseline
          /\ live' = IF active = None THEN live
                     ELSE [live EXCEPT ![active].reshaped = FALSE]
          /\ Broadcast(Frames)
          /\ misled' = (client' /\ (misled \/ (Reborn \/ (joined # None /\ Undone(joined)))))
  /\ joined' = None
  /\ UNCHANGED <<appVars, active, events, stale>>

(* subscribe, and a stream client's open: the connect sequence.  The first *)
(* client's sequence is what the next flush is compared with.              *)
Subscribed == sent' = IF client \/ others THEN sent ELSE Baseline

Connect ==
  /\ ~client /\ Subscribed /\ client' = TRUE
  /\ tab' = Reading(<<LiveFrame>> \o (IF active = None THEN <<>> ELSE <<SnapshotFrame>>))
  /\ joined' = IF due /\ others THEN Baseline ELSE None
  /\ misled' = FALSE
  /\ UNCHANGED <<appVars, live, active, closed, due, others, events, stale>>

Disconnect ==
  /\ client /\ client' = FALSE /\ tab' = Away(tab) /\ joined' = None /\ misled' = FALSE
  /\ UNCHANGED <<appVars, hubVars, others, events, stale>>

OthersJoin ==
  /\ ~others /\ others' = TRUE /\ Subscribed
  /\ UNCHANGED <<appVars, live, active, closed, due, client, tab, events, historyVars>>

OthersLeave ==
  /\ others /\ others' = FALSE
  /\ UNCHANGED <<appVars, hubVars, client, tab, events, historyVars>>
-----------------------------------------------------------------------------
Init ==
  \E p \in Panes, s \in Sessions :
    /\ panes = [q \in {p} |-> Pane(s, None)] /\ recency = <<p>> /\ announced = s
    /\ published = <<>>
    /\ live = [r \in {s} |-> Projection(0, Stored)] /\ active = s /\ closed = <<>> /\ due = FALSE
    /\ sent = None /\ client = FALSE /\ others = FALSE /\ tab = NoState
    /\ events = 0
    /\ stale = FALSE /\ joined = None /\ misled = FALSE

Next ==
  \/ \E p \in Panes :
       \/ \E s \in Sessions : BeginOpen(p, s) \/ BeginReplace(p, s)
       \/ \E n \in {0, Stored}, parent \in Sessions \cup {None} : Opened(p, n, parent)
       \/ OpenFailed(p) \/ Activate(p) \/ ClosePane(p) \/ Work(p)
  \/ Fold \/ Flush
  \/ Connect \/ Disconnect \/ OthersJoin \/ OthersLeave

Spec == Init /\ [][Next]_vars
-----------------------------------------------------------------------------
(* A tab that has read everything the hub had to say shows the sessions    *)
(* that are live and the active one as they are, whatever it missed while  *)
(* it was away or was dropped (the diffs of hub.rs, the revisions of       *)
(* store.ts).  Excepted are a tab that was told that a session closed and  *)
(* not that it opened again, and one that joined between two flushes and   *)
(* saw what was undone before the second.  With no session active a tab    *)
(* may go on showing the last one, if it was away as that closed.          *)
Quiet == client /\ ~due

QuietTabsShowTheSessions ==
  Quiet /\ ~misled =>
    /\ tab.live = Summaries /\ tab.active = active
    /\ active # None => tab = StateOf(Baseline)

(* Once its publications are folded the session in focus is the active     *)
(* one, in whatever order panes opened, failed and closed.  Excepted is a  *)
(* session that closed and opened again with no other announced between.   *)
FocusIsActive ==
  published = <<>> /\ panes[Focus].shows # None /\ ~stale => active = panes[Focus].shows
=============================================================================
