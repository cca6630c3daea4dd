----------------------------- MODULE SharedDraft -----------------------------
(***************************************************************************)
(* The shared draft of one session: the terminal's pane, which numbers its *)
(* changes (tui/components/app.rs), the hub, which passes the newest on    *)
(* (web/hub.rs), and the composer of one browser tab, which writes what is *)
(* typed and shows what others write (web/src/chat/draft.ts, composer.ts). *)
(* Others are the terminal's user and other tabs.                          *)
(*                                                                         *)
(* The tab's requests and the stream of frames are two connections, and    *)
(* overtake each other.  A session that closes and opens again, perhaps in *)
(* another process, begins a new life: its draft is numbered from 0 again. *)
(* The life of a draft is history, which the code does not see.            *)
(***************************************************************************)
EXTENDS Integers, Sequences

CONSTANTS
  Texts,                     \* what the tab's user types, or deletes
  OthersTexts,               \* what others write
  Empty,
  MaxEdits,                  \* bound on what is typed, by anyone
  MaxLives,                  \* bound on how often the session opens
  MaxTrouble                 \* bound on refused and lost requests and lost streams

VARIABLES
  pane,                      \* the session's draft, and whether it is open
  hub,                       \* the hub's copy, which lags
  stream, connected,         \* frames under way to the tab
  sync,                      \* the tab's DraftSync, or NoSync
  strays,                    \* writes nobody waits for, which may still arrive
  submit,                    \* the tab's submit command under way, or NoSubmit
  unwritten,                 \* history: what the user typed and the session never had
  overlooked,                \* history: what was typed last is what a write from before
                             \* a reset says
  misled,                    \* history: the tab took a new life for the old one
  edits, trouble

historyVars == <<unwritten, overlooked, misled>>
vars == <<pane, hub, stream, connected, sync, strays, submit, historyVars, edits, trouble>>

Draft(rev, text, life) == [rev |-> rev, text |-> text, life |-> life]
NoDraft == Draft(-1, Empty, 0)

NoWrite  == [at |-> "nowhere", text |-> Empty, rev |-> 0, life |-> 0, rebased |-> FALSE]
NoSubmit == [rev |-> -1, shown |-> Empty, life |-> 0]

(* new DraftSync.  write is the request under way and what came of it; the *)
(* count of resets is kept as a mark on what began before one (rebased).   *)
Sync(draft) ==
  [text |-> draft.text, server |-> draft, saved |-> NoDraft, held |-> NoDraft,
   timer |-> FALSE, write |-> NoWrite, retry |-> FALSE, composing |-> FALSE,
   flushing |-> FALSE, settling |-> "no", rebased |-> FALSE]

NoSync == [Sync(NoDraft) EXCEPT !.settling = "none"]

Bound == sync # NoSync

Init ==
  /\ pane = [open |-> TRUE, draft |-> Draft(0, Empty, 0), own |-> FALSE]
  /\ hub = pane /\ stream = <<>> /\ connected = TRUE
  /\ sync = Sync(pane.draft)
  /\ strays = <<>> /\ submit = NoSubmit /\ unwritten = <<>> /\ overlooked = FALSE
  /\ misled = FALSE
  /\ edits = 0 /\ trouble = 0
-----------------------------------------------------------------------------
(* DraftSync, as functions of its state.                                   *)
Sending(s) == s.write # NoWrite

Dirty(s) == s.timer \/ Sending(s) \/ s.retry

LatestSaved(s) == IF s.saved.rev > s.server.rev THEN s.saved ELSE s.server

Edited(s, text) == [s EXCEPT !.text = text, !.timer = TRUE]

(* send *)
Sent(s) ==
  LET now == [s EXCEPT !.timer = FALSE] IN
  IF s.composing THEN [now EXCEPT !.retry = TRUE]
  ELSE IF Sending(s) THEN now
  ELSE [now EXCEPT !.retry = FALSE, !.write = [NoWrite EXCEPT !.at = "sent", !.text = s.text]]

(* releaseHeld: a remote draft that waited is shown if it is the newest.   *)
(* fault: a draft that waited is forgotten. *)
FaultyHeldReleased(s) ==
  IF s.held = NoDraft \/ s.composing \/ Dirty(s) THEN s ELSE [s EXCEPT !.held = NoDraft]

HeldReleased(s) ==
  IF s.held = NoDraft \/ s.composing \/ Dirty(s) THEN s
  ELSE [s EXCEPT !.held = NoDraft,
                 !.text = IF s.held.rev = s.server.rev /\ s.held.rev > s.saved.rev
                          THEN s.held.text ELSE @]

(* flush, of a composer with no write under way; and of any.               *)
FlushedNow(s) ==
  LET now == [s EXCEPT !.timer = FALSE] IN
  IF s.composing THEN s
  ELSE IF now.retry \/ now.text # LatestSaved(now).text THEN Sent(now)
  ELSE HeldReleased(now)

Flushed(s) == IF Sending(s) THEN [s EXCEPT !.flushing = TRUE] ELSE FlushedNow(s)

(* settledRev: settling is "waits" for a write under way before its flush, *)
(* "sends" while the flush itself writes, "done" when it has a revision.   *)
(* fault: a draft that differs from what is shown will do. *)
FaultySettled(s) ==
  [s EXCEPT !.settling = IF ~s.composing /\ ~s.retry THEN "done" ELSE "no"]

Settled(s) ==
  [s EXCEPT !.settling =
     IF ~s.composing /\ ~s.retry /\ LatestSaved(s).text = s.text THEN "done" ELSE "no"]

Settles(s) ==
  LET now == [s EXCEPT !.rebased = FALSE] IN
  IF Sending(now) THEN [now EXCEPT !.settling = "waits"]
  ELSE IF Sending(FlushedNow(now)) THEN [FlushedNow(now) EXCEPT !.settling = "sends"]
  ELSE Settled(FlushedNow(now))

FlushReturns(s) ==
  IF s.rebased \/ (~s.composing /\ ~s.retry /\ Dirty(s)) THEN Settles(s) ELSE Settled(s)

(* What waited for the last write goes on: a flush that waited, and then   *)
(* one that wrote.                                                         *)
Resumed(s) ==
  LET first == IF s.flushing \/ s.settling = "waits" THEN FlushedNow(s) ELSE s
      wrote == Sending(first)
  IN
  CASE s.settling = "sends"           -> FlushReturns([first EXCEPT !.flushing = FALSE])
    [] s.settling = "waits" /\ wrote  -> [first EXCEPT !.settling = "sends"]
    [] s.settling = "waits" /\ ~wrote -> FlushReturns([first EXCEPT !.flushing = FALSE])
    [] OTHER                          -> [first EXCEPT !.flushing = FALSE]

(* The rest of send, when the request has been answered.                   *)
WriteEnded(s) ==
  LET w     == s.write
      ended == [s EXCEPT !.write = NoWrite,
                  !.saved = IF w.at = "saved" /\ ~w.rebased
                            THEN Draft(w.rev, w.text, w.life) ELSE @,
                  !.retry = @ \/ (w.at = "failed" /\ ~w.rebased)]
  IN
  IF ended.retry \/ ended.text = w.text \/ ended.timer THEN Resumed(HeldReleased(ended))
  ELSE IF ended.composing THEN Resumed(HeldReleased([ended EXCEPT !.retry = TRUE]))
  ELSE Sent(ended)

(* receive: a snapshot with a smaller number is a reset, and what the tab  *)
(* shows is written again.  Any other draft is shown unless it is old or   *)
(* the user is at work.                                                    *)
Reset(s, draft) ==
  LET r == [s EXCEPT !.server = draft, !.saved = NoDraft, !.held = NoDraft,
                     !.retry = s.text # draft.text, !.rebased = TRUE,
                     !.write.rebased = Sending(s)]
  IN IF s.composing THEN r ELSE Flushed(r)

(* fault: an echo of the tab's own write is shown like any other. *)
FaultyReceived(s, draft, origin) ==
  IF origin = "none" /\ draft.rev < s.server.rev THEN Reset(s, draft)
  ELSE [s EXCEPT !.server = draft, !.text = draft.text]

Received(s, draft, origin) ==
  IF origin = "none" /\ draft.rev < s.server.rev THEN Reset(s, draft)
  ELSE IF draft.rev <= s.server.rev THEN s
  ELSE IF draft.rev <= s.saved.rev THEN [s EXCEPT !.server = draft]
  ELSE LET r == [s EXCEPT !.server = draft,
                          !.retry = @ /\ (origin = "other" \/ draft.text # s.text)]
       IN IF s.composing \/ Dirty(r) THEN [r EXCEPT !.held = draft]
          ELSE [r EXCEPT !.text = draft.text]
-----------------------------------------------------------------------------
(* The pane: a changed text takes the next number.  The session has had    *)
(* the text then, so it is no longer unwritten.                            *)
Had(text) == unwritten' = IF unwritten = <<text>> THEN <<>> ELSE unwritten

Takes(text, own) ==
  /\ pane' = IF text = pane.draft.text THEN pane
             ELSE [pane EXCEPT !.draft = Draft(@.rev + 1, text, @.life), !.own = own]
  /\ Had(text)

Troubles == trouble < MaxTrouble /\ trouble' = trouble + 1

OtherEdits(text) ==
  /\ pane.open /\ text # pane.draft.text /\ edits < MaxEdits
  /\ Takes(text, FALSE) /\ edits' = edits + 1
  /\ UNCHANGED <<hub, stream, connected, sync, strays, submit, overlooked, misled, trouble>>

(* set_draft: applied, published and answered in one step of the loop.     *)
(* Refused if the session is closed or the pane is blocked; or it fails,   *)
(* perhaps with the answer alone, or to arrive later.                      *)
WriteArrives ==
  /\ sync.write.at = "sent" /\ pane.open
  /\ Takes(sync.write.text, TRUE)
  /\ sync' = [sync EXCEPT !.write.at = "saved", !.write.rev = pane'.draft.rev,
                          !.write.life = pane.draft.life]
  /\ UNCHANGED <<hub, stream, connected, strays, submit, overlooked, misled, edits, trouble>>

WriteRefused ==
  /\ sync.write.at = "sent"
  /\ IF pane.open THEN Troubles ELSE UNCHANGED trouble
  /\ sync' = [sync EXCEPT !.write.at = "failed"]
  /\ UNCHANGED <<pane, hub, stream, connected, strays, submit, historyVars, edits>>

WriteLost ==
  /\ sync.write.at \in {"sent", "saved"} /\ Troubles
  /\ strays' = IF sync.write.at = "sent" THEN Append(strays, sync.write.text) ELSE strays
  /\ sync' = [sync EXCEPT !.write.at = "failed"]
  /\ UNCHANGED <<pane, hub, stream, connected, submit, historyVars, edits>>

StrayEnds ==
  /\ strays # <<>> /\ strays' = Tail(strays)
  /\ \/ pane.open /\ Takes(Head(strays), TRUE)
     \/ UNCHANGED <<pane, unwritten>>
  /\ UNCHANGED <<hub, stream, connected, sync, submit, overlooked, misled, edits, trouble>>

(* submit: refused if the draft has moved; else the draft is sent and the  *)
(* pane's composer is empty.                                               *)
Accepted == pane.open /\ submit.rev = pane.draft.rev

SubmitArrives ==
  /\ submit # NoSubmit /\ submit' = NoSubmit
  /\ \/ Accepted /\ Takes(Empty, TRUE)
     \/ UNCHANGED <<pane, unwritten>>
  /\ UNCHANGED <<hub, stream, connected, sync, strays, overlooked, misled, edits, trouble>>

Close ==
  /\ pane.open /\ pane.draft.life < MaxLives
  /\ pane' = [pane EXCEPT !.open = FALSE]
  /\ UNCHANGED <<hub, stream, connected, sync, strays, submit, historyVars, edits, trouble>>

(* The session opens again, in a pane that may have a text.  That it does  *)
(* so before the hub has passed on that it closed is a case of WebHub.     *)
Reopen(text) ==
  /\ ~pane.open /\ (connected => ~hub.open)
  /\ pane' = [open |-> TRUE, draft |-> Draft(0, text, pane.draft.life + 1), own |-> FALSE]
  /\ Had(text)
  /\ UNCHANGED <<hub, stream, connected, sync, strays, submit, overlooked, misled, edits, trouble>>
-----------------------------------------------------------------------------
(* The hub passes on the newest draft of an open session, in a frame of    *)
(* its own or with a snapshot, whose draft has no origin.                  *)
Snapshot(p) == [event |-> "snapshot", draft |-> p.draft, origin |-> "none"]
DraftFrame(p) ==
  [event |-> "draft", draft |-> p.draft, origin |-> IF p.own THEN "own" ELSE "other"]
ClosedFrame == [event |-> "closed", draft |-> NoDraft, origin |-> "none"]
Hello       == [event |-> "hello", draft |-> NoDraft, origin |-> "none"]

Frames(p) ==
  IF ~p.open THEN {ClosedFrame}
  ELSE IF ~hub.open THEN {Snapshot(p)}
  ELSE {Snapshot(p), DraftFrame(p)}

Publish ==
  /\ hub # pane /\ hub' = pane
  /\ IF connected
     THEN \E frame \in Frames(pane) : stream' = Append(stream, frame)
     ELSE UNCHANGED stream
  /\ UNCHANGED <<pane, connected, sync, strays, submit, historyVars, edits, trouble>>

Disconnect ==
  /\ connected /\ Troubles
  /\ connected' = FALSE /\ stream' = <<>>
  /\ UNCHANGED <<pane, hub, sync, strays, submit, historyVars, edits>>

Reconnect ==
  /\ ~connected /\ connected' = TRUE
  /\ hub.open => hub.draft.life = pane.draft.life
  /\ stream' = IF hub.open THEN <<Hello, Snapshot(hub)>> ELSE <<Hello>>
  /\ UNCHANGED <<pane, hub, sync, strays, submit, historyVars, edits, trouble>>
-----------------------------------------------------------------------------
(* The composer.  A submission goes on as soon as its draft is settled.    *)
Becomes(s) ==
  IF s.settling = "done"
  THEN /\ sync' = [s EXCEPT !.settling = "no"]
       /\ submit' = [rev |-> LatestSaved(s).rev, shown |-> s.text, life |-> LatestSaved(s).life]
  ELSE sync' = s /\ UNCHANGED submit

(* A composer whose session is gone flushes once more, with nobody to hear *)
(* of it.                                                                  *)
LastWrites(s) ==
  (IF s.write.at = "sent" THEN <<s.write.text>> ELSE <<>>)
    \o (IF ~s.composing /\ (s.retry \/ s.text # LatestSaved(s).text)
        THEN <<s.text>> ELSE <<>>)

Misled(frame) ==
  /\ frame.event # "closed" /\ Bound
  /\ IF frame.draft.life > sync.server.life THEN frame.draft.rev >= sync.server.rev ELSE misled

Read ==
  /\ stream # <<>> /\ stream' = Tail(stream)
  /\ misled' = Misled(Head(stream))
  /\ LET frame == Head(stream) IN
     CASE frame.event = "closed" /\ Bound ->
            /\ sync' = NoSync /\ strays' = strays \o LastWrites(sync)
            /\ unwritten' = <<>> /\ UNCHANGED submit
       [] frame.event = "snapshot" /\ ~Bound ->
            sync' = Sync(frame.draft) /\ UNCHANGED <<strays, unwritten, submit>>
       [] frame.event = "hello" /\ Bound ->
            /\ Becomes(IF sync.retry /\ ~Sending(sync) THEN Sent(sync) ELSE sync)
            /\ UNCHANGED <<strays, unwritten>>
       [] frame.event \in {"snapshot", "draft"} /\ Bound ->
            /\ Becomes(Received(sync, frame.draft, frame.origin))
            /\ Had(frame.draft.text) /\ UNCHANGED strays
       [] OTHER -> UNCHANGED <<sync, strays, unwritten, submit>>
  /\ UNCHANGED <<pane, hub, connected, overlooked, edits, trouble>>

TabStep == UNCHANGED <<pane, hub, stream, connected, strays, misled, trouble>>

(* A text that the session had as a draft the tab knows of is no new one.  *)
HadLast(text) ==
  \/ pane.open /\ pane.draft.text = text
  \/ \E d \in {sync.server, sync.saved} : d # NoDraft /\ d.text = text
  \/ sync.write.at = "saved" /\ sync.write.text = text

(* A write from before a reset that fails is not repeated, and one that    *)
(* says what is shown now has no successor either.                         *)
Overlooked(text) == sync.write.rebased /\ ~sync.retry /\ sync.write.text = text

Typed(text) ==
  /\ edits < MaxEdits /\ edits' = edits + 1
  /\ unwritten' = IF HadLast(text) THEN <<>> ELSE <<text>>
  /\ overlooked' = Overlooked(text)

Type(text) ==
  /\ Bound /\ ~sync.composing /\ text # sync.text /\ Typed(text)
  /\ Becomes(Edited(sync, text))
  /\ TabStep

Timer ==
  /\ sync.timer /\ Becomes(Sent(sync))
  /\ TabStep /\ UNCHANGED <<unwritten, overlooked, edits>>

CompositionStart ==
  /\ Bound /\ ~sync.composing /\ edits < MaxEdits
  /\ sync' = [sync EXCEPT !.composing = TRUE]
  /\ TabStep /\ UNCHANGED <<submit, unwritten, overlooked, edits>>

(* compositionEnd, with the text composed or the old one.                  *)
Composed(s) == HeldReleased(IF s.retry THEN Flushed(s) ELSE s)

CompositionEnd(text) ==
  /\ sync.composing
  /\ LET ended == [sync EXCEPT !.composing = FALSE] IN
     IF text = sync.text
     THEN Becomes(Composed(ended)) /\ UNCHANGED <<unwritten, overlooked, edits>>
     ELSE Typed(text) /\ Becomes(Composed(Edited(ended, text)))
  /\ TabStep

Answer ==
  /\ sync.write.at \in {"saved", "failed"}
  /\ Becomes(WriteEnded(sync))
  /\ TabStep /\ UNCHANGED <<unwritten, overlooked, edits>>

PressSend ==
  /\ Bound /\ submit = NoSubmit /\ sync.settling = "no" /\ sync.text # Empty
  /\ Becomes(Settles(sync))
  /\ TabStep /\ UNCHANGED <<unwritten, overlooked, edits>>

Next ==
  \/ \E text \in Texts \cup {Empty} : Type(text)
  \/ \E text \in Texts \cup {sync.text} : CompositionEnd(text)
  \/ \E text \in OthersTexts : OtherEdits(text)
  \/ \E text \in OthersTexts \cup {Empty} : Reopen(text)
  \/ WriteArrives \/ WriteRefused \/ WriteLost \/ StrayEnds \/ SubmitArrives \/ Close
  \/ Publish \/ Disconnect \/ Reconnect \/ Read
  \/ Timer \/ CompositionStart \/ Answer \/ PressSend

Spec == Init /\ [][Next]_vars
-----------------------------------------------------------------------------
(* A tab that has read everything and has nothing of its own under way     *)
(* shows the session's draft, whichever of its writes failed, arrived late *)
(* or were answered before or after their echo (draft.ts:25-31).  Excepted *)
(* are a session that opened again while the tab was away and whose count  *)
(* has caught up with the tab's, and the text named below.                 *)
DraftsAgree ==
  (connected /\ stream = <<>> /\ hub = pane /\ pane.open) =>
    /\ Bound
    /\ ~Dirty(sync) /\ ~sync.composing /\ ~misled /\ ~overlooked =>
         sync.text = pane.draft.text

(* What the user typed is shown until the session has had it: no draft of  *)
(* another writer, no late answer and no reset takes its place.  Excepted  *)
(* is a text typed again while its write from before a reset is under way. *)
EditsAreKept ==
  Bound /\ unwritten # <<>> /\ ~overlooked => unwritten = <<sync.text>>

(* The prompt that is sent is the one the tab showed when the user sent it *)
(* (draft.ts:124; app.rs:1526).  Excepted is a session that opened again.  *)
SentAsShown ==
  submit # NoSubmit /\ Accepted /\ submit.life = pane.draft.life =>
    submit.shown = pane.draft.text
==============================================================================
