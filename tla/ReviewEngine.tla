---------------------------- MODULE ReviewEngine ----------------------------
(***************************************************************************)
(* The review of one checkout (web/review/engine.rs): its capture and the  *)
(* captures that replace it, pages loaded on demand, overviews that        *)
(* several requests share, and question threads.  All overviews are of the *)
(* default range and of one session.                                       *)
(*                                                                         *)
(* What the checkout holds is a number that only grows: a checkout never   *)
(* becomes again what it was.  What a page or an agent's reply was made    *)
(* from is the number it had then.                                         *)
(***************************************************************************)
EXTENDS Integers, FiniteSets

CONSTANTS
  Slots,                     \* overview requests under way at once
  Overviews,                 \* the instructions an overview may have
  Default, Others,           \* ranges
  Threads,                   \* question threads
  None,
  MaxAsks,                   \* bound on requests for overviews, pages and answers
  MaxRefreshes, MaxChanges, MaxTurns

VARIABLES
  disk, busy,                \* the checkout; whether any session runs a turn
  review,                    \* ReviewSession, or NoReview
  capture,                   \* the load or refresh that holds `preparing`
  loading,                   \* a load_page under way
  operations, shared,        \* overview_operations, and each OverviewOperation
  slots,                     \* overview requests
  questions,                 \* active_questions, each with its task
  asks, turns

vars == <<disk, busy, review, capture, loading, operations, shared, slots,
          questions, asks, turns>>

NoPages == [r \in {} |-> 0]

Captured(generation, version, content) ==
  [generation |-> generation, version |-> version,
   pages |-> [r \in {Default} |-> content], overviews |-> NoPages,
   active |-> None, threads |-> NoPages]

(* Before the first capture; its generation is 0.                          *)
NoReview == [Captured(-1, 0, 0) EXCEPT !.pages = NoPages]
IsLoaded == review.generation >= 0

Init ==
  /\ disk = 0 /\ busy = FALSE /\ review = NoReview
  /\ capture = None /\ loading = None
  /\ operations = NoPages /\ shared = NoPages
  /\ slots = [r \in Slots |-> None]
  /\ questions = NoPages /\ asks = 0 /\ turns = 0

MatchingPage(generation, range) ==
  generation = review.generation /\ range \in DOMAIN review.pages

Without(f, x) == [y \in DOMAIN f \ {x} |-> f[y]]
With(f, x, v) == [y \in DOMAIN f \cup {x} |-> IF y = x THEN v ELSE f[y]]
-----------------------------------------------------------------------------
(* An overview operation is kept alive by the table, by the requests    *)
(* that hold it and by its task (Arc::strong_count); its gate is held by a *)
(* request or by the task.                                                 *)
Key(generation, overview) == [generation |-> generation, overview |-> overview]

Holders(o, s) == {r \in Slots : s[r] # None /\ s[r].op = o /\ s[r].at # "waits"}
InTable(o, table) == \E k \in DOMAIN table : table[k] = o
IsRunning(op) == op.run # "no"

IsHeld(o, table, s, ops) ==
  InTable(o, table) \/ Holders(o, s) # {} \/ IsRunning(ops[o])

StrongCount(o, table, s, ops) ==
  (IF InTable(o, table) THEN 1 ELSE 0) + Cardinality(Holders(o, s))
    + (IF IsRunning(ops[o]) THEN 1 ELSE 0)

(* The table, the operations still held by anyone, and the requests.       *)
Becomes(table, ops, s) ==
  /\ operations' = table /\ slots' = s
  /\ shared' = [o \in {p \in DOMAIN ops : IsHeld(p, table, s, ops)} |-> ops[o]]
-----------------------------------------------------------------------------
(* The world: files change, and turns begin and end.                       *)
FilesChange ==
  /\ disk < MaxChanges /\ disk' = disk + 1
  /\ UNCHANGED <<busy, review, capture, loading, operations, shared, slots,
                 questions, asks, turns>>

TurnRuns ==
  /\ busy \/ turns < MaxTurns
  /\ busy' = ~busy /\ turns' = IF busy THEN turns ELSE turns + 1
  /\ UNCHANGED <<disk, review, capture, loading, operations, shared, slots,
                 questions, asks>>
-----------------------------------------------------------------------------
(* ensure_loaded and refresh.  prepare reads the context and its version,  *)
(* collects the page and reads the version again; while a turn runs        *)
(* somewhere a difference is tolerated.                                    *)
engineVars == <<operations, shared, slots, questions, asks>>

BeginCapture ==
  /\ capture = None
  /\ review.generation < MaxRefreshes
  /\ capture' = [version |-> disk, content |-> None]
  /\ UNCHANGED <<disk, busy, review, loading, engineVars, turns>>

CaptureCollects ==
  /\ capture # None /\ capture.content = None
  /\ capture' = [capture EXCEPT !.content = disk]
  /\ UNCHANGED <<disk, busy, review, loading, engineVars, turns>>

CaptureIsValid == disk = capture.version \/ busy

(* replace: the old generation's work is cancelled, its operations are     *)
(* forgotten, and so are its pages, overviews and threads.                 *)
CaptureEnds ==
  /\ capture # None /\ capture.content # None /\ CaptureIsValid
  /\ review' = Captured(review.generation + 1, capture.version, capture.content)
  /\ Becomes(IF IsLoaded THEN NoPages ELSE operations, shared, slots)
  /\ capture' = None
  /\ UNCHANGED <<disk, busy, loading, questions, asks, turns>>

(* Another attempt; or an error, or the browser is gone.                   *)
CaptureFails ==
  /\ capture # None
  /\ capture' = None
  /\ UNCHANGED <<disk, busy, review, loading, engineVars, turns>>
-----------------------------------------------------------------------------
(* load_page: the version is checked before and after the page is          *)
(* collected, each unless the generation is replaced meanwhile.            *)
Current(generation) == review.generation = generation

(* fault: the version is not read again. *)
FaultyIsUnchanged(work) == work.content # None \/ disk = work.version
IsUnchanged(work) == disk = work.version

LoadPage(range) ==
  /\ loading = None /\ IsLoaded /\ range \notin DOMAIN review.pages
  /\ disk = review.version
  /\ asks < MaxAsks /\ asks' = asks + 1
  /\ loading' = [range |-> range, generation |-> review.generation,
                 version |-> review.version, content |-> None]
  /\ UNCHANGED <<disk, busy, review, capture, operations, shared, slots, questions, turns>>

PageCollects ==
  /\ loading # None /\ loading.content = None
  /\ loading' = [loading EXCEPT !.content = disk]
  /\ UNCHANGED <<disk, busy, review, capture, engineVars, turns>>

PageLoaded ==
  /\ loading # None /\ loading.content # None
  /\ IsUnchanged(loading) /\ Current(loading.generation)
  /\ review' = [review EXCEPT !.pages = With(@, loading.range, loading.content)]
  /\ loading' = None
  /\ UNCHANGED <<disk, busy, capture, engineVars, turns>>

PageFails ==
  /\ loading # None /\ loading' = None
  /\ UNCHANGED <<disk, busy, review, capture, engineVars, turns>>
-----------------------------------------------------------------------------
(* Overview requests.                                                      *)
At(r, at) == slots[r] # None /\ slots[r].at = at
Goes(r, at) == With(slots, r, [slots[r] EXCEPT !.at = at])
Operation(r) == shared[slots[r].op]

(* A request that ends or is dropped gives up its gate.                    *)
Leaves(r) == With(slots, r, None)
Ungated(r) == [o \in DOMAIN shared |->
                 IF shared[o].gate = r THEN [shared[o] EXCEPT !.gate = None] ELSE shared[o]]

NewOperation(key) ==
  [key |-> key, version |-> 0, gate |-> None, run |-> "no", outcome |-> None, result |-> None]

Ask(r, key) ==
  /\ slots[r] = None /\ ~busy /\ asks < MaxAsks /\ asks' = asks + 1
  /\ IF key \in DOMAIN operations
     THEN Becomes(operations, shared,
                  With(slots, r, [at |-> "join", key |-> key, op |-> operations[key]]))
     ELSE LET o == CHOOSE o \in 1..(Cardinality(DOMAIN shared) + 1) : o \notin DOMAIN shared IN
          Becomes(With(operations, key, o), With(shared, o, NewOperation(key)),
                  With(slots, r, [at |-> "gate", key |-> key, op |-> o]))
  /\ UNCHANGED <<disk, busy, review, capture, loading, questions, turns>>

StartOverview(key) == review' = [review EXCEPT !.active = key]
FinishOverview(key) ==
  review' = IF review.active = key THEN [review EXCEPT !.active = None] ELSE review

Join(r) ==
  /\ At(r, "join")
  /\ IF ~busy /\ MatchingPage(slots[r].key.generation, Default)
     THEN StartOverview(slots[r].key) /\ Becomes(operations, shared, Goes(r, "gate"))
     ELSE UNCHANGED review /\ Becomes(operations, shared, Leaves(r))
  /\ UNCHANGED <<disk, busy, capture, loading, questions, asks, turns>>

(* A request that has the gate of an operation with a result takes that    *)
(* and forgets the operation, or whichever has its key by then.            *)
HasGate(r) == At(r, "gate") /\ Operation(r).gate = None
Gated(r) == With(shared, slots[r].op, [Operation(r) EXCEPT !.gate = r])

TakeResult(r) ==
  /\ HasGate(r) /\ Operation(r).result # None
  /\ FinishOverview(slots[r].key)
  /\ Becomes(operations, Gated(r), Goes(r, "remove"))
  /\ UNCHANGED <<disk, busy, capture, loading, questions, asks, turns>>

RemoveKey(r) ==
  /\ At(r, "remove")
  /\ Becomes(Without(operations, slots[r].key), Ungated(r), Leaves(r))
  /\ UNCHANGED <<disk, busy, review, capture, loading, questions, asks, turns>>

(* Otherwise it runs the operation, unless a turn runs, the snapshot is    *)
(* stale or the overview is cached.  (Without a review it gets an error.)  *)
MayRun(r) ==
  /\ ~busy /\ MatchingPage(slots[r].key.generation, Default)
  /\ slots[r].key.overview \notin DOMAIN review.overviews

StartRun(r) ==
  /\ HasGate(r) /\ Operation(r).result = None /\ IsLoaded
  /\ IF MayRun(r)
     THEN /\ StartOverview(slots[r].key)
          /\ Becomes(operations,
                     With(shared, slots[r].op,
                          [Operation(r) EXCEPT !.run = "check", !.gate = "task",
                                               !.version = review.version]),
                     Goes(r, "waits"))
     ELSE UNCHANGED review /\ Becomes(operations, Gated(r), Goes(r, "discard"))
  /\ UNCHANGED <<disk, busy, capture, loading, questions, asks, turns>>

(* discard_idle_overview_operation: if nobody else joined.                 *)
Discard(r) ==
  /\ At(r, "discard")
  /\ LET key == slots[r].key
         idle == /\ StrongCount(slots[r].op, operations, slots, shared) = 2
                 /\ key \in DOMAIN operations /\ operations[key] = slots[r].op
     IN Becomes(IF idle THEN Without(operations, key) ELSE operations, Ungated(r), Leaves(r))
  /\ UNCHANGED <<disk, busy, review, capture, loading, questions, asks, turns>>

(* A browser that is gone drops its request wherever it is.                *)
RequestDropped(r) ==
  /\ slots[r] # None /\ Becomes(operations, Ungated(r), Leaves(r))
  /\ UNCHANGED <<disk, busy, review, capture, loading, questions, asks, turns>>
-----------------------------------------------------------------------------
(* The task of an overview: run_overview, whose agent may fail or be       *)
(* cancelled by a new generation or the end of the session, and then       *)
(* store_overview_result.                                                  *)
Failed == -1

Runs(o, run, outcome) ==
  Becomes(operations,
          With(shared, o, [shared[o] EXCEPT !.run = run, !.outcome = outcome]), slots)

Work(o) == [version |-> shared[o].version, content |-> shared[o].outcome]

RunGoesOn(o) ==
  /\ \/ shared[o].run = "check"   /\ IsUnchanged(Work(o)) /\ Runs(o, "agent", None)
     \/ shared[o].run = "agent"   /\ Runs(o, "recheck", disk)
     \/ shared[o].run = "recheck" /\ IsUnchanged(Work(o)) /\ Runs(o, "store", shared[o].outcome)
  /\ UNCHANGED <<disk, busy, review, capture, loading, questions, asks, turns>>

RunFails(o) ==
  /\ shared[o].run \in {"check", "agent", "recheck"} /\ Runs(o, "store", Failed)
  /\ UNCHANGED <<disk, busy, review, capture, loading, questions, asks, turns>>

StoreResult(o) ==
  /\ shared[o].run = "store"
  /\ LET key  == shared[o].key
         good == ~busy /\ MatchingPage(key.generation, Default) /\ shared[o].outcome # Failed
         finished == IF review.active = key THEN [review EXCEPT !.active = None] ELSE review
     IN /\ review' = IF good THEN [finished EXCEPT !.overviews =
                                     With(@, key.overview, shared[o].outcome)]
                     ELSE finished
        /\ Runs(o, "record", IF good THEN shared[o].outcome ELSE Failed)
  /\ UNCHANGED <<disk, busy, capture, loading, questions, asks, turns>>

(* The result is recorded, and the task answers the request that began it, *)
(* if that is still there, or leaves the operation to a reloaded browser   *)
(* that waits for it.                                                      *)
SendResult(o) ==
  /\ shared[o].run = "record"
  /\ LET asked   == {r \in Slots : At(r, "waits") /\ slots[r].op = o}
         waiting == StrongCount(o, operations, slots, shared) > 2
         after   == [r \in Slots |-> IF r \in asked THEN None ELSE slots[r]]
     IN Becomes(operations,
                With(shared, o,
                     [shared[o] EXCEPT !.result = shared[o].outcome,
                        !.run = IF asked # {} \/ ~waiting THEN "forget" ELSE "no",
                        !.gate = IF asked # {} \/ ~waiting THEN @ ELSE None]),
                after)
  /\ UNCHANGED <<disk, busy, review, capture, loading, questions, asks, turns>>

ForgetOperation(o) ==
  /\ shared[o].run = "forget"
  /\ Becomes(Without(operations, shared[o].key),
             With(shared, o, [shared[o] EXCEPT !.run = "no", !.gate = None]), slots)
  /\ UNCHANGED <<disk, busy, review, capture, loading, questions, asks, turns>>
-----------------------------------------------------------------------------
(* Questions.  A thread is the number of its messages, of which every      *)
(* second is the agent's, and how its last question stands.  A browser     *)
(* draws a new name for each question, or repeats a request that failed.   *)
Asking(name, said) == [status |-> "asking", name |-> name, said |-> said, from |-> None]

(* begin_question: a new thread, the retry of a question that failed or    *)
(* was cancelled, or a new message after an answer.                        *)
(* fault: a thread that waits for an answer is continued. *)
FaultyContinues(thread) == thread.status # "idle"
Continues(thread) == thread.status \in {"error", "cancelled"}

Begun(name, t) ==
  IF t \notin DOMAIN review.threads THEN Asking(name, 1)
  ELSE IF Continues(review.threads[t]) THEN Asking(name, review.threads[t].said)
  ELSE Asking(name, review.threads[t].said + 1)

MayBegin(t) ==
  t \in DOMAIN review.threads =>
    Continues(review.threads[t]) \/ review.threads[t].status = "idle"

NamesFor(t) ==
  {asks + 1} \cup {review.threads[u].name :
                     u \in {v \in {t} \cap DOMAIN review.threads : Continues(review.threads[v])}}

AskQuestion(t, name) ==
  /\ ~busy /\ IsLoaded /\ asks < MaxAsks /\ asks' = asks + 1
  /\ name \notin DOMAIN questions /\ MayBegin(t)
  /\ review' = [review EXCEPT !.threads = With(@, t, Begun(name, t))]
  /\ questions' = With(questions, name,
       [at |-> "check", thread |-> t, generation |-> review.generation,
        version |-> review.version, content |-> None, cancelled |-> FALSE])
  /\ UNCHANGED <<disk, busy, capture, loading, operations, shared, slots, turns>>

CancelQuestion(name) ==
  /\ questions' = With(questions, name, [questions[name] EXCEPT !.cancelled = TRUE])
  /\ UNCHANGED <<disk, busy, review, capture, loading, operations, shared, slots, asks, turns>>

QuestionGoesOn(name) ==
  /\ LET q == questions[name] IN
     \/ /\ q.at = "check" /\ IsUnchanged(q)
        /\ questions' = With(questions, name, [q EXCEPT !.at = "agent"])
     \/ /\ q.at = "agent"
        /\ questions' = With(questions, name, [q EXCEPT !.at = "recheck", !.content = disk])
     \/ /\ q.at = "recheck" /\ IsUnchanged(q)
        /\ questions' = With(questions, name, [q EXCEPT !.at = "finish"])
  /\ UNCHANGED <<disk, busy, review, capture, loading, operations, shared, slots, asks, turns>>

QuestionFails(name) ==
  /\ questions[name].at \in {"check", "agent", "recheck"}
  /\ questions' = With(questions, name,
                       [questions[name] EXCEPT !.at = "finish", !.content = Failed])
  /\ UNCHANGED <<disk, busy, review, capture, loading, operations, shared, slots, asks, turns>>

(* finish_question, and the end of the task, which drops its name.         *)
Ended(thread, q) ==
  IF q.cancelled \/ busy THEN [thread EXCEPT !.status = "cancelled"]
  ELSE IF q.content = Failed THEN [thread EXCEPT !.status = "error"]
  ELSE [thread EXCEPT !.status = "idle", !.said = @ + 1, !.from = q.content]

QuestionEnds(name) ==
  /\ questions[name].at = "finish"
  /\ LET q == questions[name] IN
     review' = IF Current(q.generation) /\ q.thread \in DOMAIN review.threads
                    /\ review.threads[q.thread].name = name
               THEN [review EXCEPT !.threads = With(@, q.thread, Ended(@[q.thread], q))]
               ELSE review
  /\ questions' = Without(questions, name)
  /\ UNCHANGED <<disk, busy, capture, loading, operations, shared, slots, asks, turns>>
-----------------------------------------------------------------------------
Generations == {0} \cup 0..review.generation

Next ==
  \/ FilesChange \/ TurnRuns
  \/ BeginCapture \/ CaptureCollects \/ CaptureEnds \/ CaptureFails
  \/ (\E range \in Others : LoadPage(range)) \/ PageCollects \/ PageLoaded \/ PageFails
  \/ \E r \in Slots :
       \/ \E g \in Generations, overview \in Overviews : Ask(r, Key(g, overview))
       \/ Join(r) \/ TakeResult(r) \/ RemoveKey(r) \/ StartRun(r) \/ Discard(r) \/ RequestDropped(r)
  \/ \E o \in DOMAIN shared :
       \/ RunGoesOn(o) \/ RunFails(o) \/ StoreResult(o) \/ SendResult(o)
       \/ ForgetOperation(o)
  \/ \E t \in Threads : \E name \in NamesFor(t) : AskQuestion(t, name)
  \/ \E name \in DOMAIN questions :
       \/ CancelQuestion(name) \/ QuestionGoesOn(name) \/ QuestionFails(name)
       \/ QuestionEnds(name)

Spec == Init /\ [][Next]_vars
-----------------------------------------------------------------------------
(* What the review shows or hands out for a generation was made from the   *)
(* checkout as that generation captured it: pages, finished overviews and  *)
(* answers, whatever changed and was refreshed while they were made        *)
(* (check_version, matching_page).  Excepted is the first page of a        *)
(* capture while a turn ran; then the checkout has moved on, and nothing   *)
(* else is accepted for that generation.                                   *)
ShowsTheSnapshot ==
  /\ \A r \in DOMAIN review.pages :
       review.pages[r] = review.version \/ (r = Default /\ disk # review.version)
  /\ \A k \in DOMAIN review.overviews : review.overviews[k] = review.version
  /\ \A t \in DOMAIN review.threads :
       review.threads[t].status = "idle" => review.threads[t].from = review.version

(* A thread is asking exactly as long as a task of this generation works   *)
(* on its last question, and has an answer for each question when it is    *)
(* idle, whichever questions were cancelled, failed or asked again         *)
(* (begin_question, finish_question).                                      *)
Works(t) ==
  {name \in DOMAIN questions :
     questions[name].thread = t /\ Current(questions[name].generation)}

QuestionsEnd ==
  \A t \in DOMAIN review.threads :
    LET thread == review.threads[t] IN
    /\ Works(t) = IF thread.status = "asking" THEN {thread.name} ELSE {}
    /\ thread.said % 2 = (IF thread.status = "idle" THEN 0 ELSE 1)

(* "Requests for the same overview ... share one agent run"                *)
(* (docs/web.md:417).                                                      *)
OneRunPerOverview ==
  \A o, p \in DOMAIN shared :
    shared[o].run = "agent" /\ shared[p].run = "agent" /\ shared[o].key = shared[p].key => o = p
=============================================================================
