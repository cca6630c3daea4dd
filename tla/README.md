# Verification of tact

tact is a coding agent for the terminal. This directory holds TLA+ models of its core, TLC
configurations that check them on small instances, and proofs for the TLA+ proof system. Modelled are
the parts in which several actors meet: the subagent runtime, the memory, the session database with
the journals and live sessions above it, the prompts of a pane with the worker that runs them, and
the web server's hub, shared drafts and reviews.

## The system

| Part | State it keeps | Operations | What is hard | What makes it correct |
| :-- | :-- | :-- | :-- | :-- |
| Subagent runtime: turn slots (`turn.rs`, `runtime/state.rs`) | one slot per child, its status, its outcomes | start, steer, submit, finish, close, wait | steers and closes that race with the end of a turn; late submissions | a result answers the current prompt; each turn has one outcome and waiters see it |
| … task tree (`task_tree.rs`) | ids and parents | reserve, insert, authorize, walk | ids inserted in another order than drawn | authority is ancestry; orders are complete |
| … message threads (`message.rs`) | threads, index, history, pending set | prepare, commit, settle, roll back, trim | trimming around pending messages | the indexes agree; the history is bounded; a thread has two parties |
| … capacity (`capacity.rs`) | reserved, limit, revision | reserve, drop, set limit | reservations that travel between tasks | none is lost or made up; waiting harnesses wake up |
| … harness (`harness.rs`) | one actor per child: active turn, two queues, three channels | start, deliver, interrupt, close, turn end | priorities between channels, awaits in every handler | messages are given once, in order, or fail visibly |
| … lifecycle calls (`runtime/lifecycle.rs`, `tools.rs`) | `message_lock`, tasks to join | spawn, interrupt, close, close_all, cancel_all | deadlines, cancelled callers, spawns during a close | a close covers the subtree and leaves nothing at work |
| … roster (`roster.rs`) | what a front-end shows | apply an update | updates sent outside the lock | the latest status is shown |
| Memory (`crates/memory`) | SQLite corpus, remote namespaces | scan, read, put, delete, sync, push, pull | version checks, lost answers, snapshots of a changing store | no silent overwrite; ids are not reused; a push uploads a snapshot that is current |
| Session database (`core/storage.rs`, `core/storage/durable*`) | event rows, owner, fence, revision, resume state, staged batches | acquire, stage, commit, adopt, append | commits in doubt, two owners, older builds, batches that return for the retry | the events are a log that only grows; a commit is stored as a whole or not at all; a fenced owner writes nothing |
| Live sessions (`core/transcript/journal.rs`, `tui/event_loop/opens.rs`, `live_messages.rs`, `sessions.rs`) | journals with their writers, panes, locks, opens and forks under way, waiting messages | open, resume, replace, fork, message, close, quit | a writer that drains after its session ended, awaits in the loop, crashes | records of a session are in the order of their numbers; a fork's ancestors are stored; each message is answered |
| Prompts (`core/worker.rs`, `tui/components/queue.rs`, `root/turns.rs`) | the worker's turns and steers; the queue and the ledger of a pane | submit, steer, queue, edit, interrupt, compact | reports on two channels that overtake each other | a prompt is neither lost, given twice nor stuck; the pane counts its turns right |
| Web hub (`web/hub.rs`) | projections of the live sessions, what was sent, clients | publish, fold, flush, subscribe | browsers dropped and reconnecting between flushes, sessions that close and open again | a browser that has read all shows the sessions as they are |
| Shared drafts (`app.rs`, `web/src/chat/draft.ts`, `composer.ts`) | the draft and its revision; what a tab sent, holds back and must retry | type, write, receive, settle, submit | writes, echoes and snapshots that overtake each other; several writers | nothing typed is lost; what is sent is what was shown |
| Review engine (`web/review/engine.rs`) | one review per checkout with a generation, shared operations, question threads | load, refresh, page, overview, ask, cancel | work that goes on while the checkout and the generation change | a review shows its snapshot; each question ends; equal overviews share a run |
| Terminal, providers, configuration, vcs, updates, web assets | | | mostly sequential I/O and rendering | |

They interact as follows. The event loop of the terminal owns the panes and talks to the turn
worker, the journals and the web server over channels. The worker runs the agents (the nanocodex
library, which is not part of the repository). An agent calls tools during its turn; the subagent
tools enter one `Registry`, a lock over all child sessions, and each child session has two tasks
of its own: a harness that owns the child's agent, and a task that forwards its events and closes
the child when the agent ends by itself. The memory tool goes to a store that is local or remote.

## Modules

`AgentStatus` and `TurnSlot` are operators only: the status predicates of `model.rs`, and the
methods of `TurnSlot` on a record. `TurnContract` states what turn tokens promise without a slot.

**ChildTurn** is one child: its slot and status, what its harness and its model know of tokens, a
waiter, and every registry handler that touches a turn, each one action because each is one
critical section. `harness` says which await the harness is in; `told` and `prompt` are the
conversation of the external agent: a submission may use any token the child was ever told, at any
later time. The contract is shown by `KeepsContract` with a refinement mapping: the prompt of an
open turn, the accepted result, and the token on its way while the agent is being prompted or
steered.

**TaskTree** and **MessageThreads** are the two pure data structures with their owners reduced to
"some caller, in any order". `TaskTree` compares the walks of the code with a definition by least
fixed point. In `MessageThreads`, a message between `prepare` and `commit` is in `prepared`
because `message_lock` admits one sender. **SubagentTables** puts them side by side with `ChildTurn`
and `Roster`: they share no state, so a behaviour works on the one its variable `table` names.

**SubagentState ← Harness ← Lifecycle ← Messaging ← Subagents** is the runtime as a whole. Each
module extends the one before it and adds the actions of one part:

| Module | Variables it is about | Code |
| :-- | :-- | :-- |
| `SubagentState` | all of them; capacity, slots | `capacity.rs`, `runtime/state.rs` |
| `Harness` | `hpc`, `why`, `job`, `undo`, `asker`, `turn`, `holds`, `queued`, `commands`, `mailbox` | `harness.rs`, the handlers it calls |
| `Lifecycle` | `cpc`, `by`, `ids`, `waits`, `lock`, `alive`, `events` | `tools.rs`, `runtime/lifecycle.rs`, `runtime/mod.rs` |
| `Messaging` | `message`, `commit`, `answer`, `record`, `sent` | `runtime/messaging.rs` |
| `Subagents` | `Next`, fairness, properties | |

An action is one critical section of the registry lock, one exchange on a channel or one answer of
the agent library. Tokens are left to `ChildTurn` and thread indexes to `MessageThreads`: a slot is
here only idle, running, answered or steering, and a record is pending, settled or removed. A call is a
future: `cpc` is the await it is in, and `CallDropped` drops it there with what it owns (a reservation, `message_lock`, the commit of a
message). A call made by a child is dropped when the child's turn is over. The end of an actor,
`CleanUp`, drops its channels and its capacity and lets those who wait for an answer go on.
`Disturbances` names what may happen besides the calls, so that a run can leave out what its
question does not need: failing turns and spawns, refused steers, drivers that die, deadlines,
dropped callers of the host, submissions, a changing limit.

After a deadline, `finish_close` and the abort of the tasks are one step (`FinishLate`): a timeout
whose deadline has passed does not suspend. `commands.send` never waits in the model because
a call has at most one command in a channel of eight; the assumption on `Calls` says so.

**Roster** has the status of a child in the registry, what a roster shows of it, and one unsent
update per task, since a handler takes its update under the lock and sends it after the unlock.

**MemoryCorpus ← MemoryStore ← MemoryTransfer** is the memory. `MemoryCorpus` has operators on a
table, a function from ids to rows: what counts as expired, the checks of insert and replace, the
next id, the pages of an export, the merge of an import. `MemoryStore` is the local store with the
sessions that use it: `memories` and `next_id` are its two tables, `searched` is the mark that a scan
leaves for a put, and `draft` is a put that has read the old content and not yet replaced it. One
action is one SQLite transaction together with the one that `open` makes first. `OlderInsert` is a
build that knows neither the allocator nor the mark; the trigger refuses it a retired id. `authored`
keeps what was first written under each key. `MemoryTransfer` adds one `push` or `pull` (`step` is its
await, `pages` what it has collected) and a namespace of the service in
`examples/tact-memory-cloudflare` (`remote`, `remote_next`), where sessions in remote mode write too.
That service uses the conditions of the local store in SQL of its own, so the operators of
`MemoryCorpus` serve both; it differs in that a refused batch still prunes, that a delete, as
locally, does not, and that an export only hides what has expired. Contents are opaque but for
identity and length, and timestamps other than the end of the probation follow the counters.

**SessionRows ← DurableStore** is one session in the session database. `SessionRows` has operators on
the rows of the events table: which are drafts, what adoption numbers, what a final message deletes.
`DurableStore` adds the handles that write (`writer`, each at home in a process), the batches they
stage for the next commit (`host`), the queue of the store thread of each process (`jobs`, `taken`),
and the tables of owners and revisions. An action is one transaction, since they are all IMMEDIATE;
the part of a commit that runs before its transaction, taking the staged batch, is `Begin`. A commit
whose outcome is uncertain may or may not have reached the database; its batch goes back to `host`
and its writer may try again. `Crash` takes a process with its batches, and older builds append rows
without numbers. **EventLog** is what all this promises a reader, a log that only grows, and
`EventsAreKept` is the refinement: the log of `EventLog` is what the numbered rows are at each number.

**Journal ← Sessions** is several processes with their panes on one database. A journal numbers
records at once, holds back the start record of a session, and hands records to a writer that commits
everything queued as one (`Commits`); it may fail (`CommitFails`), or drain after its handle is gone
(`WriterEnds`). `Sessions` has the event loop of each process: a step handles one event with all its
effects, and `loop` says what the loop awaits, so that a fork that flushes its parent's journal keeps
the loop while writers go on. A session is opened in a task of its own (`tasks`), which the pane may
outlive or not; a message for a session that is not live waits for the open. A lock on the session
(`Locked`) lives as long as the pane's runtime or the journal's writer. A transaction appends its records
one after the other, and each final message deletes the drafts of its stream that are there by then;
`WithRows` says the same of all at once: what stays are the rows and records that no later record of the
batch replaces.

**PromptQueue** and **TurnLedger** are operators: the methods of the queue and of the ledger on a
record. **TurnWorker** is the worker of one pane and the agent it runs: commands in order, turns with
the steers they took, compactions, and two channels back, the worker's reports (`updates`) and the
agent's events (`stream`). **Prompts** extends the three by the pane: keys that enter, edit, delete,
steer and interrupt, and the handlers of every report, each taken from the head of either channel. A
prompt is its number; `given` counts how often the conversation took it. Both kinds of agent are
there: Claude may drop steers it has applied, Codex does not.

**WebHub** follows one browser tab. The panes publish differences (`published`), the hub folds them
into a projection and marks itself due, and `Flush` sends each client what differs from `sent`, the
state it last saw. A transcript is a sequence of entries with ids and revisions; everything else a
session shows is one value, its `facts`. The tab reduces frames as they come, since a tab that lags is
one that is dropped. **SharedDraft** is one session's draft in its pane (`pane`), the hub's copy
(`hub`), and a tab's `DraftSync` (`sync`), whose methods are operators on a record: the timer, the
write under way, the draft held back, the retry, the composition, and the loops of `flush` and
`settledRev` with the point they wait at. Requests and frames travel apart (`write.at`, `strays`,
`submit`, `stream`). **ReviewEngine** is the review of one checkout. What the checkout holds is a number
that only grows, so that a page, an overview or an answer can be compared with the snapshot it is shown
under. An overview operation is there as long as the table, a request or its task holds it, as with
`Arc`; `slots` are requests, each at the await it is in, and `shared[o].run` is where the task of an
operation is. Merged are steps between which no lock is given up or nothing is read twice: the two
looks at the session in `answer` (the second checks what the first did), and the record of a result
with the answer to the request that began it. **WebParts** puts the three side by side, as
`SubagentTables` does.

The theorems about a module are in a module of their own, named after it or its part:
`SubagentTablesProofs`, `MemoryProofs`, `DurableStoreProofs` (who may write, and what is written),
`SubagentsProofs` (capacity, spawns and closes), `MessagesProofs` (on top of it), `SessionsProofs`,
`PromptsProofs`, `WebPartsProofs` (the review, the shared draft, the focus).

Definitions named `Faulty…` are not part of any specification. Each stands before the definition
it distorts and names the fault; replacing the definition by it makes the property it was written
for fail, which shows that the property depends on that code.

## What is checked

| Run | Instance | States | Properties |
| :-- | :-- | --: | :-- |
| `tables` | four tokens; five ids; two agents, five messages, a history of two; one roster entry | 143,603 | `ResultAnswersPrompt`, `TurnsAreAccountedFor`, `NoMissedOutcome`, `KeepsContract`, `WalksFollowTheTree`, `ThreadsStayWhole`, `RosterCatchesUp` |
| `spawns_and_stops` | two agents, three calls, two messages, limit 2; failures, deadlines, dropped callers | 408,324 | `CapacityConserved`, `CloseCoversSubtree`, `ClosedMeansQuiet` |
| `messages_and_stops` | one child, four calls, two messages, limit 0 or 1 and changing; failures, refused steers, deaths, submissions | 2,471,980 | `PendingIsHeld`, `DeliveredOnce`, `TaskWasGiven`, `NoLostWakeup`, `DeferredInOrder` |
| `calls_return` | two levels, three calls, no deadline | 80,599 | `CallsReturn` |
| `memory` | four contents, two records, three ids, pages of one record, two puts under way, two uploads of two requests each | 318,509 | `KeysKeepTheirMeaning`, `ReadProtects`, `PushedTheCorpus`, `RemoteIdsStayRetired` |
| `session_log` | two writers in one process or two, two requests each, two tries, older builds | 1,242,042 | `AllOrNothing`, `AnswersAreTrue`, `NothingBehindTheOwner`, `EventsAreKept` |
| `prompts` | two prompts and a message, three turns, an interrupt, a shell, both agents | 3,381,282 | `TurnsAreCounted`, `PromptsAreKept`, `GivenOnce`, `NothingStuck`, `CompactsAlone` |
| `sessions` | two processes, three sessions, two opens, four numbers, two crashes or failures, a message | 2,454,185 | `SequencesRise`, `AncestryIsDurable`, `UntouchedLeavesNothing`, `NoMessageIsForgotten` |
| `web_parts` | two sessions and panes; a draft in two lives, two edits, one trouble; two requests, a refresh, a change, a turn | 2,569,515 | `QuietTabsShowTheSessions`, `FocusIsActive`, `DraftsAgree`, `EditsAreKept`, `SentAsShown`, `ShowsTheSnapshot`, `QuestionsEnd` |
| `stray_steers` | a prompt steered while an auxiliary job runs | violated | `SteersReachTheConversation` |
| `fork_boundary` | a fork of a pane whose assistant is speaking | violated | `ForksCanBeLoaded` |
| `shared_overviews` | four requests for one overview | violated | `OneRunPerOverview` |

Bounds. Four tokens are two turns with a steer each, or one turn steered three times; more turns
repeat the same slot states with larger numbers, and the theorems hold for every maximum. Five ids
give every tree shape up to five nodes, with chains and siblings and abandoned ids. Five messages
with a history of two trim several times around pending ones. In the composite, channel and queue
capacities are 1, so that a full channel, a full queue and a message in hand occur with two messages;
two messages are the least that have an order, two agents the least with a parent and a child, and
three or four calls let a spawn, a message and two stops meet. What these bounds do not reach: three
or more messages queued behind each other, and trees deeper than two while calls are in flight. The
roster's entries are independent of each other, so one child is enough.

In `memory`, two records and pages of one make every export a sequence of transactions that writers
may interrupt. Three records exceed the count alone, and the long content with any other one exceeds
the bytes alone. Three ids let one be retired and another be given; then ids run out, which is
refused. The clock may go back and forth between 0 and 1, so that each record written at 0 may
expire and one written at 1 may not. Sessions do three operations (`MaxWork`; a put has its scan
counted) as long as the namespace is untouched, and two, with no replacement under way, around a
command (`Small`): a torn read of two pages takes two writes between them, a retired id one delete
and one put, and a stale replacement two calls that scan and read.

The pages of a push make no snapshot, and yet `PushedTheCorpus` holds: a row's version and counters
only grow and an id is never given again, so that when two passes agree, all rows had the values they
agree on when the first pass ended. The second pass after every upload is what makes the push sound, for
every bound (`MemoryProofs`).

In `session_log`, two writers suffice for every question of ownership, since the table knows one owner
and everybody else; two requests let a batch that came back meet the next one. In `prompts`, two
prompts are the least of which one can overtake the other, and three turns let a late steer begin one
while another runs and a message begins a third. In `sessions`, two opens make a session that is
resumed by another process, or forked, or replaced; four numbers hold a start, a draft, its final
message and an end. In `web_parts`, two sessions are the least between which the focus moves; a text
of the tab's user, one of others and the empty one tell apart who wrote what; and one refresh, one
change of the checkout and one turn, at every point of two requests for overviews, pages or answers, are
all that can happen to one of them but again; for any number of requests the two properties are proved,
and so are the focus, the kept texts and the prompt as shown for any number of sessions, panes and edits.

Deadlock is not checked: the bounds on operations end a behaviour, and once all that was asked is done
these systems rest. Whether the composite may stop earlier is the question of `calls_return`, and for
prompts that of `NothingStuck`.

Fairness. `CallsReturn` assumes weak fairness of every harness, of every call and of the steps of
the agent library: tokio polls every task that is ready, and a turn, whose requests have timeouts,
ends well or with an error. No deadline may pass in that run, so the 10 s stop timeout does not hide
a circle of waits. The other runs ask questions of safety and assume no fairness: that nothing is
forgotten is stated of the states in which nothing is under way.

### What does not hold

Three runs show a statement of the documents or the code violated.

* `stray_steers`: an auxiliary job is "isolated from the pane's conversation" (`core/worker.rs:547`).
  `steer` takes the first turn of the pane it finds, and an auxiliary job is one: the steer goes there,
  is reported as admitted, and the conversation never gets it.
* `fork_boundary`: "each ancestor contributes only the prefix through that boundary"
  (`core/session.rs:807`). The boundary of a fork is the last record of its parent's journal, which may
  be a draft of a turn that goes on; the draft is deleted when its step ends, and the fork cannot be
  loaded any more. The same happens if a replacement of the parent's session is recorded while the fork
  is at the worker: the fork then names a session its boundary is not of.
* `shared_overviews`: "Requests for the same overview … share one agent run" (`docs/web.md:417`). A
  request that joined a run that failed forgets whichever operation has the key when it wakes up.

These were met while modelling. The properties above except them, and say so where they do:

* Several messages between the worker and the pane carry no id. `run.steered` names no steer, so that
  after an interrupt is sent and before its report comes the pane takes it for another one; a prompt is
  then given twice, or its end is never seen (`raced`, `PairsReports` in `Prompts`). The same follows
  when a message of another session starts a turn beside the pane's.
* `finish` reports a turn whose task panicked as one of the main pane and never removes its control
  (`core/worker.rs:851`); a fork that the worker refuses to begin leaves the pane it was begun in.
* `replace_agent` asserts that the pane is not active (`core/worker.rs:1230`), which a turn that a
  message started may break. `tui/event_loop/panes.rs:484` numbers a resumed pane's turns from 1.
* Entries of a browser's transcript are "in transcript order" (`web/src/core/store.ts:22`).
  `core/transcript/model.rs:1281` moves an entry behind its cell, and the browser inserts by id.
* The hub keeps a session as active that closed and opened again with none announced between, and a
  browser that joins between two flushes may keep what was undone before the second
  (`web/hub.rs:323`, against `docs/web.md:87`); `stale` and `misled` mark these in `WebHub`.
* A submission is refused "if the draft moved" (`docs/web.md:215`). A session that opens again counts
  from 0, and an old number may match the new draft. Also, a text typed again that equals the last one
  saved is not written, and the echo of a clear then wipes it (`HadLast` in `SharedDraft`).
* A draft is dirty while "local text has not yet been acknowledged by the server"
  (`web/src/chat/draft.ts:58`). A write that fails after the session opened again is not repeated
  (`draft.ts:173`), and no other follows if the text it carried is shown again by then (`draft.ts:178`):
  typed, cleared and typed again around the reset, a text is shown that no request carries, and the next
  draft of the session replaces it. The proof of `EditsAreKept` met this, which takes four edits;
  `overlooked` marks it, and `EditsAreKept` and `DraftsAgree` except it.
* The active overview of a review stays marked as being generated (`web/review/engine.rs:251`) when a
  joined request is dropped or refused by a turn. An operation whose waiting browser disconnects
  stays in the table and hands an old failure to the next request.
* A review that the registry evicts starts again at generation 0 (`web/review/engine.rs:118-140`), so
  that a browser's requests for the old generation match the new snapshot.
* A harness that does not end in time is aborted (`runtime/lifecycle.rs:438-441`): the messages in its
  queue and its mailbox stay pending in the history, and its task is not rolled back, as they would be by
  the harness itself. The same is left of a message whose sender was dropped while its recipient closes
  (the exceptions in `PendingIsHeld` and `TaskWasGiven`).
* "Descendants are stopped before their parent" (`docs/subagents.md:174`): `close_harnesses` sends every
  close at once, and the harnesses end in any order.
* "The most recently reported lifecycle state" (`roster.rs:42`): `Added` is sent after `insert` released
  the lock; a close in between reports an agent the roster does not know, and `Added` then shows it as
  running for good (the exception in `RosterCatchesUp`).
* "A replacement and delete check the expected version so concurrent work cannot be silently
  overwritten" (`docs/memory.md:335`): a push gives the namespace the ids and versions of the local
  store (`examples/tact-memory-cloudflare/src/store.rs:357`), so that a key handed out before names
  another record after.

## What is proved

`SubagentTablesProofs` proves of the turn and the slot, for every `MaxToken`, that `ChildTurn` is type correct, has the properties that
the run `tables` checks of it, never leaves a closed state (`StoppedForGood`, which no run checks), and
implements `TurnContract`. The only assumption is that `MaxToken` is a positive natural number.

None of the properties is inductive. The invariant `TurnInv` adds, to the properties themselves:

* `SlotShape`: which fields a slot of each kind may have set, e.g. nothing is submitted while
  steering, and a token is never above the counter;
* `HarnessKnowsSlot`: what the place of the harness says about the slot; when it is prompting or
  steering, the slot's token is the one it quotes, unless a close has finished the slot;
* `Answered`: a submission carries the slot's token, and no token told to the child is ahead of the
  counter, so an old token can never become current again;
* `WaitSees`: what a waiter's count means while it waits and when it is owed an answer.

`StepKeepsTurnInv` is one step per action; each theorem follows from `TurnInvariant`. The
refinement needs more than the invariant only for steps of the contract: a start or a steer draws, an
admitted prompt gives, a refused steer withdraws, a submission accepts and every end of a turn ends.

It goes on to the roster and the threads, for any agents and reports, and any number of messages and
length of the history that is kept (`MaxRetained` is a natural number):

* `RosterFollows` is `RosterCatchesUp`. `RosterInv` says of each agent, unless it was closed before it was
  announced, that it is `Unannounced` and nothing has begun, or `Announced`: then the roster knows it, and,
  as long as no close works on it, what is shown is its status or what is sent last is
  (`ShownAtLast`);
* `ThreadsAreWhole` is `ThreadsStayWhole`. `ThreadsInv` says that the history lists each message of the index
  once and that each is in its thread (`HistoryIs`), that the settled ones fit (`SettledFit`), that two
  messages of a thread are of the same two agents and a reply goes back (`ThreadIs`), and that a message
  which is only prepared has the last id and fits its thread, if that is still there (`PreparedIs`). To
  trim and to forget are `Retain`, which is written out, with the `Rank` of each place that is retained,
  because the provers know no facts about `SelectSeq`; `RetainIs` says what it keeps.

`MemoryProofs` proves the four properties of the run `memory`, and `PreviousWasOverwritten`, which no run
checks, for all limits and contents, every table an older build may have left, any number of calls and
operations, and any sizes of pages and numbers of attempts: first of `MemoryStore` alone
(`IdsStayRetired` and `KeyNamesOneContent`, which are `KeysKeepTheirMeaning`, and `ReadProtects`), then of
`MemoryTransfer` (`PushesOneCorpus`, `RemoteIdsAreRetired`, and the former again in
`TransfersKeepKeys`). They assume of the constants what `LimitsAssumption`, `StoreAssumption` and
`TransferAssumption` say, and nothing of `Identity`. The inductive invariant `StoreInv` of the store adds to
the first two:

* `NoKeyAhead`: no key that was ever given has a version above that of its row, so that the next
  version of a row makes a new key;
* `KeysBeforeAllocator`: as long as there is no recorded next id, every key belongs to a row, so that
  the largest id of the table is enough to start the allocator from;
* `Agrees`: what a put was told is what was first written under its key, or its key names nothing;
* `Held`: the record it read has been counted as used, or was deleted or replaced since.

All operations are of four kinds, each with one lemma: those that prune, count or remove
(`UpdateKeepsKeys`), those that insert (`InsertKeepsKeys`), the replacement (`ReplaceKeepsKeys`) and the
merge of a pull (`MergedIs`, `PullMergesKeepsInv`). They rest on `CommitKeepsKeys`, which says when a new
table keeps the meaning of all keys. `Advances` and `HeldStay` say what a transaction leaves to the puts
under way, and `Advances` also what every row of a new table is: the old row of its id, the same with more
counted, its next version, or new under an id above all that were given.

This is what a push rests on, which sees no two pages in one transaction. `Since` orders the rows of one
id, by version and by what was counted (`RowsAreOrdered`), and `TransferInv` adds to `StoreInv` that

* the pages follow the table (`PagesFollow`): below the cursor no row is missed, and each was read no
  newer than it is now;
* an uploaded snapshot is covered (`SnapshotCovered`): a corpus that the store held when the first pass
  ended says of each row no less than the snapshot, and what was read since says no less than the corpus.

A second pass that reads the same is then between the two, row by row, and the corpus is the snapshot
(`ConfirmedIsCorpus`).

`WebPartsProofs` proves six of the seven properties of `web_parts`. Of `ReviewEngine`, for any number of
requests, overviews, ranges, threads, refreshes and turns and with no assumption on a constant, it proves
`SnapshotIsShown` and `QuestionsAreEnded`. The inductive invariant `EngineInv` rests on three ideas:

* `GoesBy`: work of a generation goes by the version of the review as long as the generation is the
  current one, and no work is of a later generation, so that what is late is known by its generation;
* `Between`: the checkout only grows, so that what was read between two looks that found the same
  version is of that version; this is what makes it enough to check before and after;
* `Held`: an operation in the table, or held by a request, is there and is the one of their key, so
  that a request which joined a run takes the overview it asked for.

`QuestionInv` and `ThreadInv` tie each asking thread to its task and back. A step that replaces the
review (a new generation) makes all work late at once (`ReviewIsReplaced`); the others change one
operation, one request, one question or one thread.

Of the shared draft it proves `TypedTextIsKept` and `PromptSentWasShown`, for any texts, edits, failures
and lives of the session. `Past` orders the drafts of a pane by life and revision, two of the same being
the same text; `SourceInv` says that what the hub, the frames, the tab and a submission have was a draft of
the session's, so that a prompt accepted at its revision is the text that was shown with it. `Tracked` says
what it takes to keep a text: it is shown, dirty, and neither what the server nor what the last save said;
a write from before a reset is to be repeated or carries another text. Every operator of `DraftSync` is
shown to keep it (`Sound`), and so are their compositions (`SoundIsTransitive`), which is how the awaits in
`flush` and `settledRev` are dealt with. Without the exception, `overlooked`, the last part of `Tracked`
is not inductive: a write that fails late may be lost (`draft.ts:173`).

`DraftsAgreeOnceRead` goes on to `DraftsAgree`, from the invariant `AgreeInv`:

* `KnownInv`: one number of one life is one text, wherever a draft is known, what waits included;
* `OrderInv`, `ShapeInv`, `EndInv`: the frames under way go on from what the tab has read to what the hub
  has, a new life begins with a snapshot, and a tab with no frame under way has read the hub's draft. A
  tab that took a new life for the old one (`misled`) has at least no larger number than the hub;
* `FitInv`, of a tab that has read a draft of the session's present life: what it saved, holds back or has
  a write of is of that life (`OfOneLife`), and with nothing to write it shows the newest draft it knows,
  or composes while the newest waits (`Rests`). A write in progress needs two facts of its own: a
  draft read after it was saved waits (the last part of `OfOneLife`), so that its answer does not leave the
  older text, and one from before a reset is repeated, or says what is shown (`Recalls`).

Each operator of `DraftSync` keeps `FitInv` (`Fitting`), as it keeps `Sound`. What is `Dirty` hides that the
newest draft may have to wait for `releaseHeld`: between the end of a write and that call the tab only
`Nearly` rests, which is what `send` calls it for. TLC checked `AgreeInv` before it was proved, with
three edits in two lives, and with two edits, two troubles and three lives (42 million states).

Of the hub it proves `FocusBecomesActive`, for any number of sessions and panes, assuming that the value for
no session is none (`NoneIsNoSession`). `HubInv` says that no session is in two panes (`Apart`), that the
order of activity lists each pane once (`Lists`), that the focus shows the session announced last or none,
that the publications under way make the hub's sessions those the panes show (`LiveInv`), and that an
announcement is the last of its batch, of a session that is shown, and what is announced is or becomes the
active session (`AnnouncedInv`). For the proof the alternatives of `LivesAfter` and `ActiveAfter` had to
exclude each other: TLC takes the first that applies, but the value of a `CASE` with two is either.

`DurableStoreProofs` proves `NothingBehindTheOwner` of `DurableStore` (`TheFenceHolds`) for any number of
writers, processes, requests and attempts, and any shapes of requests (`ShapesAssumption`: a shape is a
sequence of kinds and streams). The inductive invariant `FenceInv` says that no row is ahead of the
revision, that the owner has acquired the session, which a writer does once, and that tokens, staged
batches, jobs and what a store thread has taken are in the name of their writer. The last is what the
fence needs beyond the comparison of tokens: `PlanIsTheWriters` shows that what a job writes while its
token owns the session is of its own writer, a staged batch included.

It goes on to the other three properties of `session_log`, for the same constants and any
number of handles and older builds (`NobodyAssumption`: the value for "no owner" is no writer):
`EventsStay`, that `DurableStore` implements `EventLog` with the log that its numbered rows make,
`RequestsAreStoredWhole` and `AnswersStayTrue`. `KeptInv` is `FenceInv` with

* `Table`: no two rows share an id or a number, and each number up to the last one given is some row's, so
  that a reader's sequence is a function of the numbers;
* `JobsAt`, `AsksAt`: a writer has at most one job in a queue, for its last request, which quotes the
  revision its writer knows. A commit raises the revision: as long as the writer's is the session's,
  nothing of that request was written, and an attempt after one in doubt that did reach the database is
  refused as a conflict, so that a request is never stored twice;
* `WrittenInv`, `ToldInv`: what is written was asked for and is written once and in place, all of a
  request next to each other, and what was told of a request agrees with that.

A step either leaves the numbered rows or appends numbers after the last one, by adoption or by a
commit; what is deleted has none. The order of the numbers is counted with `Places`, the set of the rows
that have one.

`SubagentsProofs` proves of `Subagents`, the runtime as a whole, for any number of children, calls and
messages, any limit and all disturbances: `CapacityIsConserved`, `WakeupsAreKept`, `ClosesCoverSubtrees`
and `ClosedIsQuiet`, and that it is type correct (`Typing`). `SubagentAssumption` says what the constants
are, that there is a place for a child and that there are fewer calls than a channel has room for commands.
The invariant `IInv` is a conjunction of parts, each kept by every action (one lemma per part):

* `TurnAt`, `WhyAt`, `AliveAt`, `AbsentAt`: what the await of a harness (`hpc`) and the reason it is there
  for (`why`) say of the child's slot, turn, status and channels;
* `CommandInv`, `OnceInv`, `SpawnInv`, `HandleInv`: which calls have a command in a channel, and that none
  has two; a spawn owns the id it drew until it inserts it;
* `CapacityInv`: what is reserved is what harnesses hold, plus the spawns under way that have a capacity,
  plus the Start commands in channels: three cardinalities, of which an action moves one element at most
  from one to another;
* `WakeInv`: a child with messages queued that could reserve has a change of the capacity to look at, holds
  a capacity, or was not started yet;
* `CoverInv`, `CloseInv`: a child below one that a close marked is marked; a close under way is of marked
  children, waits for each harness that is not gone, and beyond the waits found them all inactive.

`MessagesProofs` goes on from that invariant with the messages: `PendingMessagesAreHeld`,
`MessagesAreGivenOnce`, `DeferredMessagesKeepOrder` and `TasksWereGiven`. `MInv` says of each child what its
mailbox and its queue hold and in which order (`BoxesAt`), and what its harness has in hand, which is
ahead of the mailbox and, until it begins a turn, behind the queue (`JobIs`, `JobLine`); no message is in
two of these places (`Apart`). `HeldAt` is the first theorem for one child, `MessageAt` relates the commit, the
answer and the record of a message, `OrderAt` that deferred ones were given in order, and `TaskAt` what a
child's task and the one it replaced are.

`SessionsProofs` proves the four properties of the run `sessions` of `Sessions`, for any number of
processes, sessions, opens, messages and failures and with journals of any length: `RecordsRise`,
`ForksInheritWhatIsStored`, `NothingUntouchedIsStored` and `WaitingMessagesAreOpened`. The only assumption
is that there is a session id (`SessionsAssumption`). The argument is about what is stored of a session
together with what its journal has queued:

* `Whole`: these records rise from a start, and one that is no fork's is never next to an end. A commit
  moves the border between the two parts and drops drafts, never the last record (`WithRowsThins`,
  `ThinnedWhole`);
* `Continues`: a journal with a writer goes on from them: its next number is above theirs, and it holds
  its start back exactly as long as it is to. The operations of `Journal` keep this one by one
  (`LocalGoes`, `AgentGoes`, `ClosedGoes`, `CommitGoes`, ...);
* `OneWriter`, `OneOpen`, `TaskAt`: there is one such writer for a session, or one open that holds its lock
  and has read the next number, never both; this is what makes the first two an invariant although
  processes share the database;
* `LiveAt`, `PaneAt`: the panes of a process that goes on have journals of their own, so that closing one
  closes no other; what the event loop awaits is one of them;
* `ForkInv`: the boundary of a fork is at most the last number that is stored of the parent, from the
  flush it waited for until it is made, and ever after.

The theorem about forks says that something at or after the boundary is stored. That the boundary itself
is does not hold, as the run `fork_boundary` shows.

`PromptsProofs` proves two properties of `Prompts`, for any number of prompts, messages, turns,
interrupts and shells and with no assumption at all:

* `TurnsCounted` is `TurnsAreCounted`. What a pane counts and what is under way meet in two sums
  (`Balanced`): of the turns, of the reports and events in the two channels, of the submissions sent and
  held back, and of the ledger. Marks stand for the signals, so that the sums are of how often a mark is in
  a channel (`Times`), and to send or to take a signal moves one mark (`MarkIsAdded`, `MarkIsTaken`).
  The sums are not inductive as they stand, for three reasons. A report of an end must find a turn
  counted: so the invariant (`CountInv`) also says that a steer's turn is told of before its end is,
  behind every point of the channel (`ToldInOrder`). A submission must find nothing held back: a pane that
  counts no turn holds nothing (`NothingHeld`, from both parts). And a turn that starts must be a new one:
  no two turns and requests under way share an id (`IdsDiffer`);
* `CompactionRunsAlone` is `CompactsAlone`, from `AloneInv`: nothing but the end of a compaction happens to
  the turns while it runs.

That no prompt is lost or given twice (`PromptsAreKept`, `GivenOnce`) and that nothing stays behind
(`NothingStuck`) is about which report the pane takes for which steer, and stays with TLC.

Model-checked only: of the tables the tree; which prompts are kept and given; that a tab which has read
everything shows the hub's sessions (`QuietTabsShowTheSessions`). Out of this prover's reach are
liveness (`CallsReturn`), and what needs induction over data: what the recursive functions of `TaskTree`
compute, and what a tab makes of any number of frames (`Reading` folds them).

## What is not modelled

Of the subagent runtime: output schemas and their validation (a submission is valid or not), the
directory listing, the text of prompts, model policies; several root sessions in one runtime, whose
scopes share nothing but the lock and the capacity; an `insert` that fails after it spawned the
harness; the runtime being dropped; ids that saturate at the top of 64 bits. `wait` is in
`ChildTurn`, for one child.

Of the memory: the ranking of a scan (any visible records may be the candidates), the secret filter,
authorization of the tool, the local store's own `sync`, which no command calls, tables of a newer
schema, SQLite errors. Of the service: its scans, whose counters are written in a second batch that
checks versions, reading of other namespaces, authentication. A request that failed is carried out at
once or never; in the code, a sync whose answer the client no longer waits for (2 s), or a native
server (30 s), may still be carried out later, on top of what others wrote meanwhile.

Of the session database: the migration of older schemas, blobs, and `repair`; that SQLite loses a
committed transaction. Of sessions: checkpoints and how a transcript is shortened by them, the list and
the search of sessions, the files by which processes find each other, titles. Of the worker: how agents
are created, replaced and forked, memory reviews, and the shutdown; auxiliary jobs are there as turns of
the pane. Of the web hub: the transcripts of subagents, images, notifications. Of reviews: reviews by an
agent (an overview without its state stands for them), the registry that evicts reviews, the file
watcher, the selected overview and page, the limits of the caches, and more than one session or range
of overviews at a time.

The transcript model is what turns events into entries; `Journal`, `SessionRows` and `WebHub` begin
where entries have identities and kinds, and how an event becomes one is formatting for the most part.
The terminal components, the providers and their protocols, headless runs, version control, the
configuration, the command line and the web interface are not modelled, each for the reason given in
`PROJECT.json`; they are the larger part of the source by lines, and mostly sequential, layout or
input and output.

## Plan

What remains worth doing, the most important first:

1. The worker's replacement and forks of agents, where a turn may begin beside the exchange
   (`core/worker.rs:1230`), and its shutdown.
2. Late requests of the memory service and its scans, and the discipline of ids and keys as an abstract
   specification that both the local store and the namespace implement.
3. The registry of reviews, whose evictions start a review at generation 0 again.
4. Proofs: of the prompts, that none is given twice (`GivenOnce`) and none lost (`PromptsAreKept`); that a
   tab which has read everything shows the hub's sessions (`QuietTabsShowTheSessions`).
