------------------------------ MODULE WebParts ------------------------------
(***************************************************************************)
(* The parts of the web server that keep state, each explored by itself:   *)
(* the hub with its browser tabs, the shared draft of a session, and the   *)
(* review of a checkout.  What they have in common, that a session closes  *)
(* and opens again, is in the first two of them; a behaviour of this       *)
(* module works on one and leaves the others as they begin.                *)
(***************************************************************************)
EXTENDS ReviewEngine, TLC

CONSTANTS
  Sessions, Panes, Stored, MaxEntries, MaxRevision, MaxFacts, MaxEvents,
  Texts, OthersTexts, Empty, MaxEdits, MaxLives, MaxTrouble

(* The value that stands for no session is none.                           *)
ASSUME NoneIsNoSession == None \notin Sessions

VARIABLES
  panes, recency, announced, published, live, active, closed, due, sent, client, others, tab,
  events, stale, joined, misled,
  pane, hub, stream, connected, sync, strays, submit, unwritten, overlooked, draft_misled,
  edits, trouble,
  part                       \* the part this behaviour works on

Hub    == INSTANCE WebHub
Drafts == INSTANCE SharedDraft WITH misled <- draft_misled

hubVars   == <<panes, recency, announced, published, live, active, closed, due, sent, client,
               others, tab, events, stale, joined, misled>>
draftVars == <<pane, hub, stream, connected, sync, strays, submit, unwritten, overlooked,
               draft_misled, edits, trouble>>
allVars   == <<hubVars, draftVars, vars, part>>

PartsInit ==
  /\ Hub!Init /\ Drafts!Init /\ Init
  /\ part \in {"hub", "draft", "review"}

PartsNext ==
  \/ part = "hub" /\ Hub!Next /\ UNCHANGED <<draftVars, vars, part>>
  \/ part = "draft" /\ Drafts!Next /\ UNCHANGED <<hubVars, vars, part>>
  \/ part = "review" /\ Next /\ UNCHANGED <<hubVars, draftVars, part>>

PartsSpec == PartsInit /\ [][PartsNext]_allVars

(* Sets whose members play the same part.                                  *)
Same ==
  Permutations(Sessions) \cup Permutations(Panes) \cup Permutations(Slots)
-----------------------------------------------------------------------------
(* A tab that has read what the hub had to say shows the sessions as they  *)
(* are (hub.rs, store.ts).                                                 *)
QuietTabsShowTheSessions == Hub!QuietTabsShowTheSessions

(* The session in focus is the active one (hub.rs, app.rs).                *)
FocusIsActive == Hub!FocusIsActive

(* A tab that has nothing of its own under way shows the session's draft,  *)
(* whichever of its writes failed or came late (draft.ts, app.rs).         *)
DraftsAgree == Drafts!DraftsAgree

(* What the user typed is shown until the session has had it (draft.ts).   *)
EditsAreKept == Drafts!EditsAreKept

(* The prompt that is sent is the one that was shown (composer.ts,         *)
(* app.rs).                                                                *)
SentAsShown == Drafts!SentAsShown
=============================================================================
