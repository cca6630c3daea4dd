----------------------------- MODULE DurableStore ----------------------------
(***************************************************************************)
(* One session in the session database, under nanocode's durability        *)
(* contract: core/storage/durable.rs and durable/store.rs.  Writers are    *)
(* handles of SqliteStateStore (writer_handle), at home in processes; a    *)
(* process runs its commits on one store thread, in order, and every       *)
(* transaction is IMMEDIATE, so the transactions of all threads exclude    *)
(* each other.  Builds that predate the contract append to the same table. *)
(*                                                                         *)
(* A request is what a writer appends at once: a sequence of records, its  *)
(* drafts and perhaps a resume state in the host batch, the other records  *)
(* as contract events.  nanocode, which issues the calls, is external: it  *)
(* may repeat a request that failed, and it may stop waiting for one.      *)
(***************************************************************************)
EXTENDS SessionRows

CONSTANTS
  Writers, Processes,
  Shapes,                    \* requests: [records, resume], records without a body
  OlderRecords,              \* what older builds append
  MaxRequests,               \* bound on the requests of all writers
  MaxTries,                  \* bound on the attempts of a request
  MaxRows,                   \* bound on the ids at which older builds append
  Nobody                     \* no batch, no owner, no resume state

ASSUME ShapesAssumption ==
  \A shape \in Shapes : shape.records \in Seq([kind : Kinds, stream : Nat])

(* Nobody is neither a writer nor the name of a request.                   *)
ASSUME NobodyAssumption ==
  Nobody \notin Writers /\ Nobody \notin Writers \X Nat

VARIABLES
  home,                      \* the process of a writer
  rows, next_id, sequence,   \* events, its AUTOINCREMENT, durable_event_sequences
  owner, revision,           \* durable_owners, durable_states
  resume,                    \* the request whose resume state is stored
  host,                      \* HostWrites of each writer's process
  jobs, taken,               \* a thread's queue, the batch of the job it runs
  writer,                    \* what a writer knows
  answers                    \* history: a writer's requests, and what it was told

tableVars  == <<rows, next_id, sequence, owner, revision, resume>>
threadVars == <<jobs, taken>>
vars == <<home, tableVars, host, threadVars, writer, answers>>

Requests == [by : Writers, n : Nat, shape : Shapes]
Answers  == {"stored", "refused", "unknown"}

(* A token is the owner's id, here the writer, and a fence.                *)
Tokens == [by : Writers, fence : Nat]
Jobs   == [request : Requests, token : Tokens, expected : Nat]

Init ==
  /\ home \in [Writers -> Processes]
  /\ rows = {} /\ next_id = 1 /\ sequence = [last |-> 0, through |-> 0]
  /\ owner = Nobody /\ revision = 0 /\ resume = Nobody
  /\ host = [w \in Writers |-> Nobody]
  /\ jobs = [p \in Processes |-> <<>>] /\ taken = [p \in Processes |-> Nobody]
  /\ writer = [w \in Writers |->
       [phase |-> "closed", token |-> Nobody, since |-> 0, revision |-> 0,
        tries |-> 0, doubt |-> FALSE]]
  /\ answers = [w \in Writers |-> <<>>]
-----------------------------------------------------------------------------
(* plan_rows: the events of a request at their places among its batch's    *)
(* drafts.                                                                 *)
RecordAt(request, i) ==
  [kind   |-> request.shape.records[i].kind,
   stream |-> request.shape.records[i].stream,
   body   |-> <<request.by, request.n, i>>]

RecordsOf(request) == [i \in DOMAIN request.shape.records |-> RecordAt(request, i)]

IsEvent(record) == ~IsDraft(record)

EventsIn(batch) == EventsUpTo(batch, Len(batch))

EventsOf(request) ==
  LET records  == RecordsOf(request)
      place(k) == CHOOSE i \in DOMAIN records :
                    IsEvent(records[i]) /\ EventsUpTo(records, i) = k
  IN [k \in 1..EventsIn(records) |-> RecordAt(request, place(k))]

Aligned(request, batch) ==
  batch # Nobody =>
    EventsIn(RecordsOf(batch)) = Len(EventsOf(request))

Planned(request, batch) ==
  IF batch = Nobody THEN EventsOf(request)
  ELSE [i \in DOMAIN RecordsOf(batch) |->
          LET record == RecordsOf(batch)[i] IN
          IF IsDraft(record) THEN record
          ELSE EventsOf(request)[EventsUpTo(RecordsOf(batch), i)]]

(* fault: a token of an earlier owner passes. *)
FaultyOwns(token) == owner # Nobody
Owns(token) == owner = token

IsCurrent(job) == job.expected = revision
-----------------------------------------------------------------------------
(* acquire_state: fence out the owner before, adopt what it left unread,   *)
(* read the state and perhaps replace it.  An error of the COMMIT leaves   *)
(* open whether it took place; the writer then does not come to be.        *)
Acquire(w) ==
  /\ writer[w].phase = "closed"
  /\ \E replaced \in {0, 1}, took \in BOOLEAN, told \in BOOLEAN :
       LET token == [by |-> w, fence |-> IF owner = Nobody THEN 1 ELSE owner.fence + 1] IN
       /\ took \/ (~told /\ replaced = 0)
       /\ IF took
          THEN /\ owner' = token
               /\ rows' = Adopted(rows, sequence)
               /\ sequence' = AfterAdoption(rows, sequence)
               /\ revision' = revision + replaced
          ELSE UNCHANGED <<owner, rows, sequence, revision>>
       /\ writer' = [writer EXCEPT ![w] =
            [@ EXCEPT !.phase = IF told THEN "ready" ELSE "stopped",
                      !.token = token, !.since = revision + replaced,
                      !.revision = revision + replaced]]
  /\ UNCHANGED <<home, next_id, resume, host, threadVars, answers>>

Asked == UNION {{answers[w][n].request : n \in DOMAIN answers[w]} : w \in Writers}

(* stage, then session.append: a batch that is still pending is an error,  *)
(* after which the writer stops.                                           *)
Stage(w, shape) ==
  /\ writer[w].phase = "ready" /\ Cardinality(Asked) < MaxRequests
  /\ LET request == [by |-> w, n |-> Len(answers[w]) + 1, shape |-> shape] IN
     IF host[w] = Nobody
     THEN /\ host' = [host EXCEPT ![w] = request]
          /\ writer' = [writer EXCEPT ![w] =
               [@ EXCEPT !.phase = "asking", !.tries = 0, !.doubt = FALSE]]
          /\ answers' = [answers EXCEPT ![w] =
               Append(@, [request |-> request, told |-> "refused"])]
     ELSE /\ host' = [host EXCEPT ![w] = Nobody]
          /\ writer' = [writer EXCEPT ![w].phase = "stopped"]
          /\ UNCHANGED answers
  /\ UNCHANGED <<home, tableVars, threadVars>>

Current(w) == Len(answers[w])

Told(w, what) == answers' = [answers EXCEPT ![w][Current(w)].told = what]

(* commit: the request, the token and the revision it is made for go to    *)
(* the store thread.  A request that failed may be repeated as it is.      *)
Submit(w) ==
  /\ writer[w].phase = "asking" /\ writer[w].tries < MaxTries
  /\ jobs' = [jobs EXCEPT ![home[w]] = Append(@,
       [request |-> answers[w][Current(w)].request, token |-> writer[w].token,
        expected |-> writer[w].revision])]
  /\ writer' = [writer EXCEPT ![w].phase = "waiting", ![w].tries = @ + 1]
  /\ Told(w, "unknown")
  /\ UNCHANGED <<home, tableVars, host, taken>>

(* The job takes the batch of its own writer, if there is one.             *)
(* fault: the job takes whatever batch is staged for the session. *)
FaultyBatchOwner(job) ==
  IF \E w \in Writers : host[w] # Nobody /\ w # job.request.by
  THEN CHOOSE w \in Writers : host[w] # Nobody /\ w # job.request.by
  ELSE job.request.by
BatchOwner(job) == job.request.by

Begin(p) ==
  /\ jobs[p] # <<>> /\ taken[p] = Nobody
  /\ LET w == BatchOwner(Head(jobs[p])) IN
     /\ taken' = [taken EXCEPT ![p] = [batch |-> host[w]]]
     /\ host' = [host EXCEPT ![w] = Nobody]
  /\ UNCHANGED <<home, tableVars, jobs, writer, answers>>
-----------------------------------------------------------------------------
(* commit_state's transaction, when it takes place.                        *)
Commits(job, batch) ==
  LET adopted == AfterAdoption(rows, sequence)
      plan    == Planned(job.request, batch)
      after   == Written(Adopted(rows, sequence), plan, next_id - 1,
                         adopted.last, revision + 1)
  IN
  /\ rows' = after
  /\ next_id' = next_id + Len(plan)
  /\ sequence' = [last    |-> adopted.last + EventsIn(plan),
                  through |-> LastId(after, adopted.through)]
  /\ revision' = revision + 1
  /\ resume' = IF batch # Nobody /\ batch.shape.resume
               THEN <<batch.by, batch.n>> ELSE resume
  /\ UNCHANGED owner

(* Whether a failed COMMIT took place is not known (uncertain).            *)
(* fault: its error is taken for a rolled back transaction. *)
FaultyCommitError == "not_committed"
CommitError == "backend"

(* What the job may come to: the checks decide, or SQLite does.            *)
Outcomes(job, batch) ==
  LET lost(tellings) == [took : {FALSE}, told : tellings] IN
  IF ~Aligned(job.request, batch) THEN lost({"not_committed"})
  ELSE IF ~Owns(job.token) THEN lost({"not_committed", "fenced"})
  ELSE IF ~IsCurrent(job) THEN lost({"not_committed", "conflict"})
  ELSE lost({"not_committed", CommitError})
         \cup [took : {TRUE}, told : {"committed", CommitError}]

(* The answer reaches the writer if it still waits for it.  After          *)
(* NotCommitted and Backend the request may be repeated; Fenced and        *)
(* Conflict end it.  A refusal tells nothing of an attempt in doubt.       *)
Answered(w, told) ==
  /\ writer' = [writer EXCEPT ![w] =
       [@ EXCEPT !.phase = IF told = "committed" THEN "ready"
                           ELSE IF told \in {"not_committed", "backend"} THEN "asking"
                           ELSE "failed",
                 !.revision = IF told = "committed" THEN writer[w].revision + 1
                              ELSE writer[w].revision,
                 !.doubt = IF told = "backend" THEN TRUE ELSE writer[w].doubt]]
  /\ Told(w, IF told = "committed" THEN "stored"
             ELSE IF told = "backend" \/ writer[w].doubt THEN "unknown"
             ELSE "refused")

Finish(p) ==
  /\ taken[p] # Nobody
  /\ LET job   == Head(jobs[p])
         batch == taken[p].batch
         w     == job.request.by
     IN
     \E outcome \in Outcomes(job, batch) :
       /\ IF outcome.took THEN Commits(job, batch) ELSE UNCHANGED tableVars
       /\ host' = IF outcome.told # "committed" /\ batch # Nobody
                  THEN [host EXCEPT ![w] = batch] ELSE host
       /\ jobs' = [jobs EXCEPT ![p] = Tail(@)]
       /\ taken' = [taken EXCEPT ![p] = Nobody]
       /\ IF writer[w].phase = "waiting"
          THEN Answered(w, outcome.told) ELSE UNCHANGED <<writer, answers>>
  /\ UNCHANGED home
-----------------------------------------------------------------------------
(* A writer that stops discards its batch; the job it may be waiting for   *)
(* is carried out all the same.                                            *)
Stop(w) ==
  /\ writer[w].phase \in {"asking", "waiting", "failed", "ready"}
  /\ writer' = [writer EXCEPT ![w].phase = "stopped"]
  /\ host' = [host EXCEPT ![w] = Nobody]
  /\ UNCHANGED <<home, tableVars, threadVars, answers>>

(* A process ends with its thread, its queue and its batches; a running    *)
(* transaction is rolled back.                                             *)
Crash(p) ==
  /\ \E w \in Writers : home[w] = p /\ writer[w].phase \notin {"closed", "stopped"}
  /\ jobs' = [jobs EXCEPT ![p] = <<>>] /\ taken' = [taken EXCEPT ![p] = Nobody]
  /\ host' = [w \in Writers |-> IF home[w] = p THEN Nobody ELSE host[w]]
  /\ writer' = [w \in Writers |->
       IF home[w] = p /\ writer[w].phase # "closed"
       THEN [writer[w] EXCEPT !.phase = "stopped"] ELSE writer[w]]
  /\ UNCHANGED <<home, tableVars, answers>>

(* An older build appends a record, in a transaction of its own.           *)
OlderAppend(record) ==
  /\ next_id <= MaxRows
  /\ rows' = Appended(rows, [kind |-> record.kind, stream |-> record.stream,
                             body |-> <<Nobody, next_id, 1>>], next_id)
  /\ next_id' = next_id + 1
  /\ UNCHANGED <<home, sequence, owner, revision, resume, host, threadVars,
                 writer, answers>>

Next ==
  \/ \E w \in Writers :
       \/ Acquire(w) \/ Submit(w) \/ Stop(w)
       \/ \E shape \in Shapes : Stage(w, shape)
  \/ \E p \in Processes : Begin(p) \/ Finish(p) \/ Crash(p)
  \/ \E record \in OlderRecords : OlderAppend(record)

Spec == Init /\ [][Next]_vars
-----------------------------------------------------------------------------
(* The event sequence as its readers see it.                               *)
Event(n) ==
  IF \E r \in rows : r.seq = n /\ IsEvent(r)
  THEN LET r == CHOOSE r \in rows : r.seq = n IN [body |-> r.body, rev |-> r.rev]
  ELSE Nobody

Log == INSTANCE EventLog WITH
  log <- [n \in 1..sequence.last |-> Event(n)],
  Bodies <- (Writers \cup {Nobody}) \X Nat \X Nat

(* The events of a session are a sequence without holes that only grows,   *)
(* whoever owns the session, whatever older builds append and whichever    *)
(* commits fail or are in doubt (durable.rs:1-9).                          *)
EventsAreKept == Log!LogSpec

(* The rows that hold the events of a request.                             *)
Stored(request) ==
  {r \in rows : \E i \in DOMAIN EventsOf(request) :
                  r.body = EventsOf(request)[i].body}

InPlace(request) ==
  LET events == EventsOf(request) IN
  \E first \in 0..sequence.last, rev \in 1..revision :
    \A i \in DOMAIN events :
      \E r \in rows : r.body = events[i].body /\ r.seq = first + i /\ r.rev = rev

(* A request is stored once and as a whole or not at all, though it is     *)
(* repeated after an attempt in doubt: its events are next to each other,  *)
(* and its drafts and its resume state are there only with them            *)
(* (durable/store.rs:77-83, durable.rs:761-774).                           *)
AllOrNothing ==
  \A request \in Asked :
    /\ Stored(request) # {} =>
         /\ Cardinality(Stored(request)) = Len(EventsOf(request))
         /\ InPlace(request)
    /\ \/ resume = <<request.by, request.n>>
       \/ \E r \in rows : IsDraft(r) /\ r.body[1] = request.by /\ r.body[2] = request.n
       => InPlace(request)

(* What a writer is told is true for good: a stored request is in the      *)
(* sequence, a refused one left nothing (durable.rs:761-774).              *)
AnswersAreTrue ==
  \A w \in Writers : \A n \in DOMAIN answers[w] :
    /\ answers[w][n].told = "stored" => InPlace(answers[w][n].request)
    /\ answers[w][n].told = "refused" =>
         \A r \in rows : ~(r.body[1] = w /\ r.body[2] = n)

(* After an owner has read the session, nobody else's commits come behind  *)
(* its back, those included that were under way when it took over          *)
(* (durable.rs:585-607).                                                   *)
NothingBehindTheOwner ==
  owner # Nobody =>
    \A r \in rows : r.rev > writer[owner.by].since => r.body[1] = owner.by
==============================================================================
