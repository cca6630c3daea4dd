-------------------------- MODULE DurableStoreProofs --------------------------
(***************************************************************************)
(* The session database, for any number of writers, processes, requests    *)
(* and attempts, and whatever the requests append: nobody commits behind   *)
(* the back of the owner; the store implements EventLog; a request is      *)
(* stored once and as a whole or not at all; and what a writer is told     *)
(* stays true.                                                             *)
(*                                                                         *)
(* First the fence and who may write (its invariant, a lemma for each      *)
(* action, its theorems).  Then what is kept of the requests: what a       *)
(* transaction makes of a table of rows (Table), what a job writes         *)
(* (PlanIs), the invariant (KeptInv), a lemma for each action, and the     *)
(* theorems.                                                               *)
(***************************************************************************)
EXTENDS DurableStore, FiniteSetTheorems, TLAPS

(* Rows and writers as records; what their fields hold is said below.      *)
IsRow(v) == v = [f \in {"id", "kind", "stream", "body", "seq", "rev"} |-> v[f]]

IsWriter(v) ==
  v = [f \in {"phase", "token", "since", "revision", "tries", "doubt"} |-> v[f]]

TypeInv ==
  /\ home \in [Writers -> Processes]
  /\ \A r \in rows : IsRow(r)
  /\ owner # Nobody => owner \in Tokens
  /\ revision \in Nat
  /\ DOMAIN host = Writers /\ \A w \in Writers : host[w] # Nobody => host[w] \in Requests
  /\ jobs \in [Processes -> Seq(Jobs)]
  /\ DOMAIN taken = Processes
  /\ \A p \in Processes :
       taken[p] # Nobody /\ taken[p].batch # Nobody => taken[p].batch \in Requests
  /\ answers \in [Writers -> Seq([request : Requests, told : Answers])]
  /\ DOMAIN writer = Writers
  /\ \A w \in Writers :
       IsWriter(writer[w]) /\ writer[w].since \in Nat /\ writer[w].revision \in Nat

-----------------------------------------------------------------------------
(* The inductive invariant.  What is known of the table: no row is ahead   *)
(* of the revision, and the owner has acquired the session, which a writer *)
(* does once.                                                              *)
TableInv ==
  /\ \A r \in rows : r.rev \in Nat /\ r.rev <= revision
  /\ owner # Nobody => writer[owner.by].phase # "closed"

(* A token, a batch and a request are in the name of their writer, also in *)
(* the hands of a store thread.                                            *)
Asks(v) == v.phase \in {"asking", "waiting"}

WriterInv ==
  \A w \in Writers :
    /\ writer[w].phase # "closed" => writer[w].token \in Tokens /\ writer[w].token.by = w
    /\ Asks(writer[w]) => answers[w] # <<>>
    /\ host[w] # Nobody => host[w].by = w
    /\ \A n \in DOMAIN answers[w] : answers[w][n].request.by = w

ThreadInv ==
  \A p \in Processes :
    /\ \A i \in DOMAIN jobs[p] : jobs[p][i].token.by = jobs[p][i].request.by
    /\ taken[p] # Nobody =>
         /\ jobs[p] # <<>>
         /\ taken[p].batch # Nobody => taken[p].batch.by = Head(jobs[p]).request.by

FenceInv == TypeInv /\ TableInv /\ WriterInv /\ ThreadInv /\ NothingBehindTheOwner

-----------------------------------------------------------------------------
(* What a transaction makes of the rows.                                   *)
LEMMA AdoptedRows ==
  ASSUME NEW set, NEW seq, \A r \in set : IsRow(r), NEW q \in Adopted(set, seq)
  PROVE  IsRow(q) /\ \E r \in set : q.rev = r.rev /\ q.body = r.body
<1>1. CASE q \in set
  BY <1>1
<1>2. CASE q \notin set
  <2>1. PICK r, n : r \in set /\ q = [r EXCEPT !.seq = n]
    BY <1>2 DEF Adopted, Pending
  <2>2. IsRow(r)
    BY <2>1
  <2>3. IsRow(q) /\ q.rev = r.rev /\ q.body = r.body
    BY <2>1, <2>2 DEF IsRow
  <2> QED
    BY <2>1, <2>3
<1> QED
  BY <1>1, <1>2

LEMMA RowIs ==
  ASSUME NEW record, NEW id, NEW seq, NEW rev
  PROVE  LET r == Row(record, id, seq, rev) IN
         IsRow(r) /\ r.body = record.body /\ r.rev = rev
BY DEF Row, IsRow

LEMMA WrittenRows ==
  ASSUME NEW set, NEW batch, NEW base, NEW last, NEW rev,
         NEW q \in Written(set, batch, base, last, rev)
  PROVE  \/ q \in set
         \/ \E i \in DOMAIN batch :
              IsRow(q) /\ q.body = batch[i].body /\ (q.rev = 0 \/ q.rev = rev)
<1> SUFFICES ASSUME q \notin set
             PROVE  \E i \in DOMAIN batch :
                      IsRow(q) /\ q.body = batch[i].body /\ (q.rev = 0 \/ q.rev = rev)
  OBVIOUS
<1>1. PICK i \in DOMAIN batch : q = RowAt(batch, i, base, last, rev)
  BY DEF Written
<1>2. IsRow(q) /\ q.body = batch[i].body /\ (q.rev = 0 \/ q.rev = rev)
  BY <1>1, RowIs DEF RowAt
<1> QED
  BY <1>2

-----------------------------------------------------------------------------
(* What a request's transaction writes is in the name of its writer.       *)
LEMMA RecordIs ==
  ASSUME NEW request, NEW i
  PROVE  RecordAt(request, i).body = <<request.by, request.n, i>>
BY DEF RecordAt

LEMMA EventsUpToBounds ==
  ASSUME NEW batch, NEW n \in Nat, NEW i \in 1..n, IsEvent(batch[i])
  PROVE  EventsUpTo(batch, i) \in 1..EventsUpTo(batch, n)
<1> DEFINE S(k) == {j \in 1..k : ~IsDraft(batch[j])}
<1>1. IsFiniteSet(1..n) /\ IsFiniteSet(1..i) /\ i \in Int
  BY FS_Interval
<1>2. S(n) \subseteq 1..n /\ S(i) \subseteq S(n) /\ {i} \subseteq S(i)
  BY DEF IsEvent
<1>3. IsFiniteSet(S(n)) /\ IsFiniteSet(S(i))
  BY <1>1, <1>2, FS_Subset
<1>4. Cardinality(S(i)) <= Cardinality(S(n)) /\ Cardinality({i}) <= Cardinality(S(i))
  BY <1>2, <1>3, FS_Subset
<1>5. Cardinality({i}) = 1 /\ Cardinality(S(n)) \in Nat /\ Cardinality(S(i)) \in Nat
  BY <1>3, FS_Singleton, FS_CardinalityType
<1> QED
  BY <1>4, <1>5 DEF EventsUpTo

LEMMA RecordsAre ==
  ASSUME NEW request \in Requests
  PROVE  /\ Len(RecordsOf(request)) \in Nat
         /\ DOMAIN RecordsOf(request) = 1..Len(RecordsOf(request))
         /\ \A i \in DOMAIN RecordsOf(request) :
              RecordsOf(request)[i].body[1] = request.by
<1>1. request.shape.records \in Seq([kind : Kinds, stream : Nat])
  BY ShapesAssumption DEF Requests
<1> DEFINE n == Len(request.shape.records)
<1>2. n \in Nat /\ DOMAIN request.shape.records = 1..n
  BY <1>1
<1>3. RecordsOf(request) = [i \in 1..n |-> RecordAt(request, i)]
  BY <1>2 DEF RecordsOf
<1> HIDE DEF n
<1>4. Len(RecordsOf(request)) = n /\ DOMAIN RecordsOf(request) = 1..n
  BY <1>2, <1>3
<1>5. ASSUME NEW i \in 1..n PROVE RecordsOf(request)[i].body[1] = request.by
  BY <1>3, RecordIs
<1> QED
  BY <1>2, <1>4, <1>5

LEMMA EventsAre ==
  ASSUME NEW request \in Requests
  PROVE  /\ DOMAIN EventsOf(request) = 1..Len(EventsOf(request))
         /\ \A k \in DOMAIN EventsOf(request) : EventsOf(request)[k].body[1] = request.by
<1> DEFINE n == EventsIn(RecordsOf(request))
           S == {j \in 1..Len(RecordsOf(request)) : ~IsDraft(RecordsOf(request)[j])}
<1>1. n \in Nat
  <2>1. Len(RecordsOf(request)) \in Int
    BY RecordsAre
  <2>2. IsFiniteSet(S)
    <3>1. IsFiniteSet(1..Len(RecordsOf(request)))
      BY <2>1, FS_Interval
    <3> QED
      BY <3>1, FS_Subset
  <2>3. n = Cardinality(S)
    BY DEF EventsIn, EventsUpTo
  <2> QED
    BY <2>2, <2>3, FS_CardinalityType
<1>2. PICK place : EventsOf(request) = [k \in 1..n |-> RecordAt(request, place[k])]
  <2> DEFINE at(k) == CHOOSE i \in DOMAIN RecordsOf(request) :
               IsEvent(RecordsOf(request)[i]) /\ EventsUpTo(RecordsOf(request), i) = k
             place == [k \in 1..n |-> at(k)]
  <2>1. EventsOf(request) = [k \in 1..n |-> RecordAt(request, at(k))]
    BY DEF EventsOf
  <2> HIDE DEF at, n
  <2>2. [k \in 1..n |-> RecordAt(request, at(k))] =
          [k \in 1..n |-> RecordAt(request, place[k])]
    OBVIOUS
  <2> QED
    BY <2>1, <2>2
<1> HIDE DEF n
<1>3. DOMAIN EventsOf(request) = 1..n /\ Len(EventsOf(request)) = n
  BY <1>1, <1>2
<1>4. ASSUME NEW k \in 1..n PROVE EventsOf(request)[k].body[1] = request.by
  BY <1>2, RecordIs
<1> QED
  BY <1>3, <1>4

LEMMA PlanIsTheWriters ==
  ASSUME NEW request \in Requests, NEW batch, Aligned(request, batch),
         batch # Nobody => batch \in Requests /\ batch.by = request.by
  PROVE  \A i \in DOMAIN Planned(request, batch) :
           Planned(request, batch)[i].body[1] = request.by
<1>1. CASE batch = Nobody
  BY <1>1, EventsAre DEF Planned
<1>2. CASE batch # Nobody
  <2> DEFINE records == RecordsOf(batch)
  <2>1. /\ Len(records) \in Nat /\ DOMAIN records = 1..Len(records)
        /\ \A i \in DOMAIN records : records[i].body[1] = request.by
    BY <1>2, RecordsAre
  <2>2. EventsUpTo(records, Len(records)) = Len(EventsOf(request))
    BY <1>2 DEF Aligned, EventsIn
  <2>3. Planned(request, batch) =
          [i \in DOMAIN records |->
             IF IsDraft(records[i]) THEN records[i]
             ELSE EventsOf(request)[EventsUpTo(records, i)]]
    BY <1>2 DEF Planned
  <2> HIDE DEF records
  <2> SUFFICES ASSUME NEW i \in DOMAIN records
               PROVE  Planned(request, batch)[i].body[1] = request.by
    BY <2>3
  <2>4. CASE IsDraft(records[i])
    BY <2>1, <2>3, <2>4
  <2>5. CASE ~IsDraft(records[i])
    <3>1. EventsUpTo(records, i) \in DOMAIN EventsOf(request)
      BY <2>1, <2>2, <2>5, EventsUpToBounds, EventsAre DEF IsEvent
    <3> QED
      BY <2>3, <2>5, <3>1, EventsAre
  <2> QED
    BY <2>4, <2>5
<1> QED
  BY <1>1, <1>2

-----------------------------------------------------------------------------
LEMMA AppendIs ==
  ASSUME NEW S, NEW s \in Seq(S), NEW e \in S
  PROVE  /\ Append(s, e) \in Seq(S) /\ Append(s, e) # <<>>
         /\ DOMAIN Append(s, e) = 1..(Len(s) + 1)
         /\ Append(s, e)[Len(s) + 1] = e
         /\ \A n \in DOMAIN s : Append(s, e)[n] = s[n]
         /\ Len(s) \in Nat /\ DOMAIN s = 1..Len(s)
OBVIOUS

(* The steps that leave the table alone.                                   *)
TableKept == UNCHANGED <<home, tableVars>>

LEMMA TableIsKept ==
  ASSUME FenceInv, TableKept,
         DOMAIN writer' = Writers,
         \A w \in Writers :
           /\ IsWriter(writer'[w]) /\ writer'[w].since = writer[w].since
           /\ writer'[w].revision \in Nat /\ writer'[w].token = writer[w].token
           /\ writer'[w].phase = "closed" <=> writer[w].phase = "closed"
  PROVE  TableInv' /\ NothingBehindTheOwner'
<1>1. /\ rows' = rows /\ owner' = owner /\ revision' = revision
      /\ \A w \in Writers :
           /\ writer'[w].since = writer[w].since
           /\ writer'[w].phase = "closed" <=> writer[w].phase = "closed"
  BY DEF TableKept, tableVars
<1>2. owner # Nobody => owner.by \in Writers
  BY DEF FenceInv, TypeInv, Tokens
<1> QED
  BY <1>1, <1>2 DEF FenceInv, TableInv, NothingBehindTheOwner

LEMMA ToldKeeps ==
  ASSUME FenceInv, NEW w \in Writers, NEW what \in Answers, Told(w, what)
  PROVE  /\ answers' \in [Writers -> Seq([request : Requests, told : Answers])]
         /\ \A v \in Writers : (answers[v] # <<>> => answers'[v] # <<>>)
         /\ \A v \in Writers : \A n \in DOMAIN answers'[v] : answers'[v][n].request.by = v
<1> DEFINE S == [request : Requests, told : Answers]
           old == answers[w]
           n == Len(old)
           new == [old EXCEPT ![n].told = what]
<1>0. answers \in [Writers -> Seq(S)]
  BY DEF FenceInv, TypeInv
<1> HIDE DEF S
<1>1. old \in Seq(S) /\ n \in Nat /\ answers \in [Writers -> Seq(S)]
  BY <1>0
<1>2. answers' = [answers EXCEPT ![w] = new]
  BY DEF Told, Current
<1>3. /\ new \in Seq(S) /\ DOMAIN new = DOMAIN old /\ Len(new) = Len(old)
      /\ \A i \in DOMAIN old : new[i].request = old[i].request
  <2>1. CASE n = 0
    <3>1. new = old
      BY <1>1, <2>1
    <3> QED
      BY <1>1, <3>1
  <2>2. CASE n # 0
    <3>1. n \in 1..Len(old) /\ old[n] \in S
      BY <1>1, <2>2
    <3> DEFINE e == [old[n] EXCEPT !.told = what]
    <3>2. e \in S /\ e.request = old[n].request
      BY <3>1 DEF S
    <3>3. new = [old EXCEPT ![n] = e]
      OBVIOUS
    <3> HIDE DEF e, new
    <3>4. new \in Seq(S) /\ Len(new) = Len(old) /\ DOMAIN new = DOMAIN old
      BY <1>1, <3>1, <3>2, <3>3
    <3>5. \A i \in DOMAIN old : new[i].request = old[i].request
      BY <1>1, <3>1, <3>2, <3>3
    <3> QED
      BY <3>4, <3>5
  <2> QED
    BY <2>1, <2>2
<1> HIDE DEF new
<1>4. answers' \in [Writers -> Seq(S)]
  BY <1>1, <1>2, <1>3
<1>5. \A v \in Writers : answers[v] # <<>> => answers'[v] # <<>>
  BY <1>1, <1>2, <1>3
<1>6. \A v \in Writers : \A i \in DOMAIN answers'[v] : answers'[v][i].request.by = v
  BY <1>1, <1>2, <1>3 DEF FenceInv, WriterInv
<1> QED
  BY <1>4, <1>5, <1>6 DEF S

(* A writer's fields but its phase, and whether it has begun.              *)
SameWriters ==
  /\ DOMAIN writer' = Writers
  /\ \A w \in Writers :
       /\ IsWriter(writer'[w]) /\ writer'[w].since = writer[w].since
       /\ writer'[w].revision \in Nat /\ writer'[w].token = writer[w].token
       /\ writer'[w].phase = "closed" <=> writer[w].phase = "closed"

LEMMA WriterChanges ==
  ASSUME FenceInv, NEW w \in Writers, NEW v, IsWriter(v), v.since = writer[w].since,
         v.revision \in Nat, v.token = writer[w].token,
         v.phase = "closed" <=> writer[w].phase = "closed",
         writer' = [writer EXCEPT ![w] = v]
  PROVE  SameWriters /\ \A u \in Writers : writer'[u] = IF u = w THEN v ELSE writer[u]
<1>1. /\ DOMAIN writer' = Writers
      /\ \A u \in Writers : writer'[u] = IF u = w THEN v ELSE writer[u]
  BY DEF FenceInv, TypeInv
<1> QED
  BY <1>1 DEF SameWriters, FenceInv, TypeInv

LEMMA Stages ==
  ASSUME FenceInv, NEW w \in Writers, NEW shape \in Shapes, Stage(w, shape)
  PROVE  FenceInv'
<1> DEFINE request == [by |-> w, n |-> Len(answers[w]) + 1, shape |-> shape]
           S == [request : Requests, told : Answers]
           new == [request |-> request, told |-> "refused"]
<1>1. /\ home' = home /\ rows' = rows /\ owner' = owner /\ revision' = revision
      /\ jobs' = jobs /\ taken' = taken /\ TableKept /\ writer[w].phase = "ready"
  BY DEF Stage, tableVars, threadVars, TableKept
<1>2. answers \in [Writers -> Seq(S)]
  BY DEF FenceInv, TypeInv
<1>3. request \in Requests /\ request.by = w /\ new \in S /\ new.request = request
  <2>1. Len(answers[w]) + 1 \in Nat
    <3> HIDE DEF S
    <3> QED
      BY <1>2
  <2> QED
    BY <2>1 DEF Requests, Answers
<1>4. \/ /\ host' = [host EXCEPT ![w] = request]
         /\ writer' = [writer EXCEPT ![w] =
              [@ EXCEPT !.phase = "asking", !.tries = 0, !.doubt = FALSE]]
         /\ answers' = [answers EXCEPT ![w] = Append(@, new)]
      \/ /\ host' = [host EXCEPT ![w] = Nobody]
         /\ writer' = [writer EXCEPT ![w].phase = "stopped"]
         /\ answers' = answers
  BY DEF Stage
<1> HIDE DEF request, S, new
<1>5. /\ DOMAIN host' = Writers
      /\ \A v \in Writers : host'[v] # Nobody => host'[v] \in Requests /\ host'[v].by = v
  <2>1. /\ DOMAIN host = Writers
        /\ \A v \in Writers : host[v] # Nobody => host[v] \in Requests /\ host[v].by = v
    BY DEF FenceInv, TypeInv, WriterInv
  <2>2. host' = [host EXCEPT ![w] = request] \/ host' = [host EXCEPT ![w] = Nobody]
    BY <1>4
  <2> QED
    BY <1>3, <2>1, <2>2
<1>6. /\ SameWriters
      /\ \A v \in Writers : Asks(writer'[v]) =>
           Asks(writer[v]) \/ (v = w /\ answers' # answers)
  <2>1. IsWriter(writer[w]) /\ writer[w].revision \in Nat
    BY DEF FenceInv, TypeInv
  <2>2. CASE /\ writer' = [writer EXCEPT ![w] =
                  [@ EXCEPT !.phase = "asking", !.tries = 0, !.doubt = FALSE]]
             /\ answers' = [answers EXCEPT ![w] = Append(@, new)]
    <3> DEFINE v == [writer[w] EXCEPT !.phase = "asking", !.tries = 0, !.doubt = FALSE]
    <3>1. /\ IsWriter(v) /\ v.phase = "asking" /\ v.since = writer[w].since
          /\ v.token = writer[w].token /\ v.revision = writer[w].revision
      BY <2>1 DEF IsWriter
    <3>2. writer' = [writer EXCEPT ![w] = v]
      BY <2>2
    <3> HIDE DEF v
    <3>3. answers' # answers
      <4> HIDE DEF S
      <4>1. answers[w] \in Seq(S) /\ answers'[w] = Append(answers[w], new)
        BY <1>2, <2>2
      <4>2. Len(answers'[w]) # Len(answers[w])
        BY <1>3, <4>1
      <4> QED
        BY <4>2
    <3> QED
      BY <1>1, <2>1, <3>1, <3>2, <3>3, WriterChanges DEF Asks
  <2>3. CASE writer' = [writer EXCEPT ![w].phase = "stopped"]
    <3> DEFINE v == [writer[w] EXCEPT !.phase = "stopped"]
    <3>1. /\ IsWriter(v) /\ v.phase = "stopped" /\ v.since = writer[w].since
          /\ v.token = writer[w].token /\ v.revision = writer[w].revision
      BY <2>1 DEF IsWriter
    <3>2. writer' = [writer EXCEPT ![w] = v]
      BY <2>3
    <3> HIDE DEF v
    <3>3. v.phase = "closed" <=> writer[w].phase = "closed"
      BY <1>1, <3>1
    <3>4. SameWriters /\ \A u \in Writers : writer'[u] = IF u = w THEN v ELSE writer[u]
      BY <2>1, <3>1, <3>2, <3>3, WriterChanges
    <3> QED
      BY <3>1, <3>4 DEF Asks
  <2> QED
    BY <1>4, <2>2, <2>3
<1>8. /\ answers' \in [Writers -> Seq(S)]
      /\ \A v \in Writers : answers[v] # <<>> => answers'[v] # <<>>
      /\ answers' # answers => answers'[w] # <<>>
      /\ \A v \in Writers : \A n \in DOMAIN answers'[v] : answers'[v][n].request.by = v
  <2>1. CASE answers' = answers
    BY <1>2, <2>1 DEF FenceInv, WriterInv
  <2>2. CASE answers' = [answers EXCEPT ![w] = Append(@, new)]
    <3>1. /\ Append(answers[w], new) \in Seq(S) /\ Append(answers[w], new) # <<>>
          /\ DOMAIN Append(answers[w], new) = 1..(Len(answers[w]) + 1)
          /\ Append(answers[w], new)[Len(answers[w]) + 1] = new
          /\ \A n \in DOMAIN answers[w] : Append(answers[w], new)[n] = answers[w][n]
          /\ Len(answers[w]) \in Nat /\ DOMAIN answers[w] = 1..Len(answers[w])
      BY <1>2, <1>3
    <3>2. \A n \in DOMAIN Append(answers[w], new) : Append(answers[w], new)[n].request.by = w
      BY <1>3, <3>1 DEF FenceInv, WriterInv
    <3> QED
      BY <1>2, <2>2, <3>1, <3>2 DEF FenceInv, WriterInv
  <2> QED
    BY <1>4, <2>1, <2>2
<1>9. TypeInv'
  BY <1>1, <1>5, <1>6, <1>8 DEF FenceInv, TypeInv, SameWriters, S
<1>10. WriterInv'
  BY <1>5, <1>6, <1>8 DEF FenceInv, WriterInv, SameWriters, Asks
<1>11. ThreadInv'
  BY <1>1 DEF FenceInv, ThreadInv
<1> QED
  BY <1>1, <1>6, <1>9, <1>10, <1>11, TableIsKept DEF FenceInv, SameWriters

LEMMA Submits ==
  ASSUME FenceInv, NEW w \in Writers, Submit(w)
  PROVE  FenceInv'
<1> DEFINE p == home[w]
           job == [request |-> answers[w][Current(w)].request, token |-> writer[w].token,
                   expected |-> writer[w].revision]
<1>1. /\ home' = home /\ rows' = rows /\ owner' = owner /\ revision' = revision
      /\ host' = host /\ taken' = taken /\ TableKept /\ writer[w].phase = "asking"
      /\ p \in Processes
  BY DEF Submit, tableVars, TableKept, FenceInv, TypeInv
<1>2. job \in Jobs /\ job.token.by = job.request.by
  <2> DEFINE S == [request : Requests, told : Answers]
  <2>1. answers[w] \in Seq(S)
    BY DEF FenceInv, TypeInv
  <2>2. answers[w] # <<>>
    BY <1>1 DEF FenceInv, WriterInv, Asks
  <2> HIDE DEF S
  <2>3. Len(answers[w]) \in DOMAIN answers[w] /\ answers[w][Len(answers[w])] \in S
    BY <2>1, <2>2
  <2>4. answers[w][Current(w)].request \in Requests /\ answers[w][Current(w)].request.by = w
    BY <2>3 DEF S, Current, FenceInv, WriterInv
  <2>5. writer[w].token \in Tokens /\ writer[w].token.by = w /\ writer[w].revision \in Nat
    BY <1>1 DEF FenceInv, WriterInv, TypeInv
  <2> QED
    BY <2>4, <2>5 DEF Jobs
<1>3. /\ jobs' = [jobs EXCEPT ![p] = Append(@, job)]
      /\ writer' = [writer EXCEPT ![w].phase = "waiting", ![w].tries = @ + 1]
      /\ Told(w, "unknown")
  BY DEF Submit
<1> HIDE DEF p, job
<1>4. /\ jobs' \in [Processes -> Seq(Jobs)]
      /\ \A q \in Processes : \A i \in DOMAIN jobs'[q] :
           jobs'[q][i].token.by = jobs'[q][i].request.by
      /\ \A q \in Processes : jobs[q] # <<>> =>
           jobs'[q] # <<>> /\ Head(jobs'[q]) = Head(jobs[q])
  <2>1. jobs \in [Processes -> Seq(Jobs)]
    BY DEF FenceInv, TypeInv
  <2>2. /\ Append(jobs[p], job) \in Seq(Jobs) /\ Append(jobs[p], job) # <<>>
        /\ DOMAIN Append(jobs[p], job) = 1..(Len(jobs[p]) + 1)
        /\ Append(jobs[p], job)[Len(jobs[p]) + 1] = job
        /\ \A n \in DOMAIN jobs[p] : Append(jobs[p], job)[n] = jobs[p][n]
        /\ Len(jobs[p]) \in Nat /\ DOMAIN jobs[p] = 1..Len(jobs[p])
    <3>1. jobs[p] \in Seq(Jobs) /\ job \in Jobs
      BY <1>1, <1>2, <2>1
    <3> QED
      BY <3>1, AppendIs
  <2>3. jobs[p] # <<>> => Head(Append(jobs[p], job)) = Head(jobs[p])
    <3> SUFFICES ASSUME jobs[p] # <<>>
                 PROVE  Head(Append(jobs[p], job)) = Head(jobs[p])
      OBVIOUS
    <3>1. jobs[p] \in Seq(Jobs)
      BY <1>1, <2>1
    <3>2. 1 \in DOMAIN jobs[p]
      BY <3>1
    <3> QED
      BY <2>2, <3>1, <3>2
  <2>4. \A n \in DOMAIN Append(jobs[p], job) :
          Append(jobs[p], job)[n].token.by = Append(jobs[p], job)[n].request.by
    BY <1>1, <1>2, <2>2 DEF FenceInv, ThreadInv
  <2> QED
    BY <1>1, <1>3, <2>1, <2>2, <2>3, <2>4 DEF FenceInv, ThreadInv
<1>5. SameWriters /\ \A v \in Writers : Asks(writer'[v]) => Asks(writer[v])
  <2> DEFINE v == [writer[w] EXCEPT !.phase = "waiting", !.tries = @ + 1]
  <2>1. IsWriter(writer[w]) /\ writer[w].revision \in Nat
    BY DEF FenceInv, TypeInv
  <2>2. /\ IsWriter(v) /\ v.phase = "waiting" /\ v.since = writer[w].since
        /\ v.token = writer[w].token /\ v.revision = writer[w].revision
    BY <2>1 DEF IsWriter
  <2>3. writer' = [writer EXCEPT ![w] = v]
    BY <1>3
  <2> HIDE DEF v
  <2> QED
    BY <1>1, <2>1, <2>2, <2>3, WriterChanges DEF Asks
<1>6. /\ answers' \in [Writers -> Seq([request : Requests, told : Answers])]
      /\ \A v \in Writers : (answers[v] # <<>> => answers'[v] # <<>>)
      /\ \A v \in Writers : \A n \in DOMAIN answers'[v] : answers'[v][n].request.by = v
  BY <1>3, ToldKeeps DEF Answers
<1>7. TypeInv'
  BY <1>1, <1>4, <1>5, <1>6 DEF FenceInv, TypeInv, SameWriters
<1>8. WriterInv'
  BY <1>1, <1>5, <1>6 DEF FenceInv, WriterInv, SameWriters, Asks
<1>9. ThreadInv'
  BY <1>1, <1>4 DEF FenceInv, ThreadInv
<1> QED
  BY <1>1, <1>5, <1>7, <1>8, <1>9, TableIsKept DEF FenceInv, SameWriters

LEMMA Begins ==
  ASSUME FenceInv, NEW p \in Processes, Begin(p)
  PROVE  FenceInv'
<1> DEFINE w == Head(jobs[p]).request.by
<1>1. /\ home' = home /\ rows' = rows /\ owner' = owner /\ revision' = revision
      /\ jobs' = jobs /\ answers' = answers /\ writer' = writer /\ TableKept
      /\ jobs[p] # <<>>
      /\ taken' = [taken EXCEPT ![p] = [batch |-> host[w]]]
      /\ host' = [host EXCEPT ![w] = Nobody]
  BY DEF Begin, BatchOwner, TableKept, tableVars
<1>2. w \in Writers
  <2>1. jobs[p] \in Seq(Jobs)
    BY DEF FenceInv, TypeInv
  <2>2. Head(jobs[p]) \in Jobs
    BY <1>1, <2>1
  <2> QED
    BY <2>2 DEF Jobs, Requests
<1> HIDE DEF w
<1>3. /\ DOMAIN host' = Writers
      /\ \A v \in Writers : host'[v] # Nobody => host'[v] \in Requests /\ host'[v].by = v
      /\ host[w] # Nobody => host[w] \in Requests /\ host[w].by = w
  BY <1>1, <1>2 DEF FenceInv, TypeInv, WriterInv
<1>4. /\ DOMAIN taken' = Processes /\ taken'[p].batch = host[w]
      /\ \A q \in Processes : q # p => taken'[q] = taken[q]
  BY <1>1 DEF FenceInv, TypeInv
<1>5. TypeInv'
  BY <1>1, <1>3, <1>4 DEF FenceInv, TypeInv
<1>6. WriterInv'
  BY <1>1, <1>3 DEF FenceInv, WriterInv
<1>7. ThreadInv'
  <2> SUFFICES ASSUME NEW q \in Processes
               PROVE  /\ \A i \in DOMAIN jobs[q] : jobs[q][i].token.by = jobs[q][i].request.by
                      /\ taken'[q] # Nobody =>
                           /\ jobs[q] # <<>>
                           /\ taken'[q].batch # Nobody =>
                                taken'[q].batch.by = Head(jobs[q]).request.by
    BY <1>1 DEF ThreadInv
  <2>1. CASE q = p
    BY <1>1, <1>3, <1>4, <2>1 DEF FenceInv, ThreadInv, w
  <2>2. CASE q # p
    BY <1>4, <2>2 DEF FenceInv, ThreadInv
  <2> QED
    BY <2>1, <2>2
<1>8. TableInv' /\ NothingBehindTheOwner'
  BY <1>1 DEF FenceInv, TableInv, NothingBehindTheOwner
<1> QED
  BY <1>5, <1>6, <1>7, <1>8 DEF FenceInv

LEMMA Stops ==
  ASSUME FenceInv, NEW w \in Writers, Stop(w)
  PROVE  FenceInv'
<1> DEFINE v == [writer[w] EXCEPT !.phase = "stopped"]
<1>1. /\ home' = home /\ rows' = rows /\ owner' = owner /\ revision' = revision
      /\ jobs' = jobs /\ taken' = taken /\ answers' = answers /\ TableKept
      /\ writer' = [writer EXCEPT ![w] = v] /\ writer[w].phase # "closed"
      /\ host' = [host EXCEPT ![w] = Nobody]
  BY DEF Stop, threadVars, tableVars, TableKept
<1>0. IsWriter(writer[w]) /\ writer[w].revision \in Nat
  BY DEF FenceInv, TypeInv
<1>2. /\ IsWriter(v) /\ v.phase = "stopped" /\ v.since = writer[w].since
      /\ v.token = writer[w].token /\ v.revision = writer[w].revision
      /\ writer[w].revision \in Nat
  BY <1>0 DEF IsWriter
<1> HIDE DEF v
<1>3. v.phase = "closed" <=> writer[w].phase = "closed"
  BY <1>1, <1>2
<1>4. SameWriters /\ \A u \in Writers : writer'[u] = IF u = w THEN v ELSE writer[u]
  BY <1>1, <1>2, <1>3, WriterChanges
<1>5. \A u \in Writers : Asks(writer'[u]) => Asks(writer[u])
  BY <1>2, <1>4 DEF Asks
<1>6. /\ DOMAIN host' = Writers
      /\ \A u \in Writers : host'[u] # Nobody => host'[u] \in Requests /\ host'[u].by = u
  BY <1>1 DEF FenceInv, TypeInv, WriterInv
<1>7. TypeInv'
  BY <1>1, <1>4, <1>6 DEF FenceInv, TypeInv, SameWriters
<1>8. WriterInv'
  BY <1>1, <1>4, <1>5, <1>6 DEF FenceInv, WriterInv, SameWriters, Asks
<1>9. ThreadInv'
  BY <1>1 DEF FenceInv, ThreadInv
<1> QED
  BY <1>1, <1>4, <1>7, <1>8, <1>9, TableIsKept DEF FenceInv, SameWriters

LEMMA Crashes ==
  ASSUME FenceInv, NEW p \in Processes, Crash(p)
  PROVE  FenceInv'
<1>1. /\ home' = home /\ rows' = rows /\ owner' = owner /\ revision' = revision
      /\ answers' = answers /\ TableKept
      /\ jobs' = [jobs EXCEPT ![p] = <<>>] /\ taken' = [taken EXCEPT ![p] = Nobody]
      /\ host' = [w \in Writers |-> IF home[w] = p THEN Nobody ELSE host[w]]
      /\ writer' = [w \in Writers |->
           IF home[w] = p /\ writer[w].phase # "closed"
           THEN [writer[w] EXCEPT !.phase = "stopped"] ELSE writer[w]]
  BY DEF Crash, tableVars, TableKept
<1>2. SameWriters /\ \A u \in Writers : Asks(writer'[u]) => Asks(writer[u])
  <2>1. DOMAIN writer' = Writers
    BY <1>1
  <2>2. ASSUME NEW u \in Writers
        PROVE  /\ IsWriter(writer'[u]) /\ writer'[u].since = writer[u].since
               /\ writer'[u].revision \in Nat /\ writer'[u].token = writer[u].token
               /\ writer'[u].phase = "closed" <=> writer[u].phase = "closed"
               /\ Asks(writer'[u]) => Asks(writer[u])
    <3>1. IsWriter(writer[u]) /\ writer[u].revision \in Nat
      BY DEF FenceInv, TypeInv
    <3>2. \/ writer'[u] = writer[u]
          \/ /\ writer[u].phase # "closed"
             /\ writer'[u] = [writer[u] EXCEPT !.phase = "stopped"]
      BY <1>1
    <3>3. CASE writer'[u] = writer[u]
      BY <3>1, <3>3
    <3>4. CASE /\ writer[u].phase # "closed"
               /\ writer'[u] = [writer[u] EXCEPT !.phase = "stopped"]
      <4>1. /\ IsWriter(writer'[u]) /\ writer'[u].since = writer[u].since
            /\ writer'[u].revision = writer[u].revision
            /\ writer'[u].token = writer[u].token /\ writer'[u].phase = "stopped"
        BY <3>1, <3>4 DEF IsWriter
      <4> QED
        BY <3>1, <3>4, <4>1 DEF Asks
    <3> QED
      BY <3>2, <3>3, <3>4
  <2> QED
    BY <2>1, <2>2 DEF SameWriters
<1>3. /\ DOMAIN host' = Writers
      /\ \A u \in Writers : host'[u] # Nobody => host'[u] \in Requests /\ host'[u].by = u
  BY <1>1 DEF FenceInv, TypeInv, WriterInv
<1>4. /\ jobs' \in [Processes -> Seq(Jobs)] /\ jobs'[p] = <<>> /\ DOMAIN taken' = Processes
      /\ taken'[p] = Nobody
      /\ \A q \in Processes : q # p => jobs'[q] = jobs[q] /\ taken'[q] = taken[q]
  <2>1. jobs \in [Processes -> Seq(Jobs)] /\ <<>> \in Seq(Jobs) /\ DOMAIN taken = Processes
    BY DEF FenceInv, TypeInv
  <2> QED
    BY <1>1, <2>1
<1>5. TypeInv'
  BY <1>1, <1>2, <1>3, <1>4 DEF FenceInv, TypeInv, SameWriters
<1>6. WriterInv'
  BY <1>1, <1>2, <1>3 DEF FenceInv, WriterInv, SameWriters, Asks
<1>7. ThreadInv'
  <2> SUFFICES ASSUME NEW q \in Processes
               PROVE  /\ \A i \in DOMAIN jobs'[q] :
                           jobs'[q][i].token.by = jobs'[q][i].request.by
                      /\ taken'[q] # Nobody =>
                           /\ jobs'[q] # <<>>
                           /\ taken'[q].batch # Nobody =>
                                taken'[q].batch.by = Head(jobs'[q]).request.by
    BY DEF ThreadInv
  <2>1. CASE q = p
    BY <1>4, <2>1
  <2>2. CASE q # p
    BY <1>4, <2>2 DEF FenceInv, ThreadInv
  <2> QED
    BY <2>1, <2>2
<1> QED
  BY <1>1, <1>2, <1>5, <1>6, <1>7, TableIsKept DEF FenceInv, SameWriters

-----------------------------------------------------------------------------
(* The steps that change the table.                                        *)
LEMMA OlderBuildsAppend ==
  ASSUME FenceInv, NEW record, OlderAppend(record)
  PROVE  FenceInv'
<1> DEFINE new == [kind |-> record.kind, stream |-> record.stream,
                   body |-> <<Nobody, next_id, 1>>]
<1>1. /\ home' = home /\ owner' = owner /\ revision' = revision /\ jobs' = jobs
      /\ taken' = taken /\ answers' = answers /\ writer' = writer /\ host' = host
      /\ rows' = Appended(rows, new, next_id)
  BY DEF OlderAppend, threadVars
<1> HIDE DEF new
<1>2. \A q \in rows' : q \in rows \/ (IsRow(q) /\ q.rev = 0)
  BY <1>1, RowIs DEF Appended
<1>3. TypeInv'
  BY <1>1, <1>2 DEF FenceInv, TypeInv
<1>4. WriterInv' /\ ThreadInv'
  BY <1>1 DEF FenceInv, WriterInv, ThreadInv
<1>5. TableInv'
  BY <1>1, <1>2 DEF FenceInv, TypeInv, TableInv
<1>6. NothingBehindTheOwner'
  <2> SUFFICES ASSUME owner # Nobody, NEW q \in rows', q.rev > writer[owner.by].since
               PROVE  q.body[1] = owner.by
    BY <1>1 DEF NothingBehindTheOwner
  <2>1. writer[owner.by].since \in Nat
    BY DEF FenceInv, TypeInv, Tokens
  <2>2. q \in rows
    BY <1>2, <2>1
  <2> QED
    BY <2>2 DEF FenceInv, NothingBehindTheOwner
<1> QED
  BY <1>3, <1>4, <1>5, <1>6 DEF FenceInv

LEMMA Acquires ==
  ASSUME FenceInv, NEW w \in Writers, Acquire(w)
  PROVE  FenceInv'
<1> DEFINE token == [by |-> w, fence |-> IF owner = Nobody THEN 1 ELSE owner.fence + 1]
<1>1. /\ home' = home /\ jobs' = jobs /\ taken' = taken /\ answers' = answers /\ host' = host
      /\ writer[w].phase = "closed"
  BY DEF Acquire, threadVars
<1>2. token \in Tokens /\ token.by = w
  BY DEF Tokens, FenceInv, TypeInv
<1> HIDE DEF token
<1>3. PICK replaced \in {0, 1}, phase \in {"ready", "stopped"} :
        /\ writer' = [writer EXCEPT ![w] =
             [@ EXCEPT !.phase = phase, !.token = token, !.since = revision + replaced,
                       !.revision = revision + replaced]]
        /\ \/ /\ owner' = token /\ rows' = Adopted(rows, sequence)
              /\ revision' = revision + replaced
           \/ owner' = owner /\ rows' = rows /\ revision' = revision
  BY DEF Acquire, token
<1> DEFINE v == [writer[w] EXCEPT !.phase = phase, !.token = token,
                                  !.since = revision + replaced,
                                  !.revision = revision + replaced]
<1>4. /\ IsWriter(v) /\ v.phase = phase /\ v.token = token
      /\ v.since = revision + replaced /\ v.revision = revision + replaced
  <2>1. IsWriter(writer[w])
    BY DEF FenceInv, TypeInv
  <2> QED
    BY <2>1 DEF IsWriter
<1>5. writer' = [writer EXCEPT ![w] = v]
  BY <1>3
<1> HIDE DEF v
<1>6. /\ DOMAIN writer' = Writers /\ writer'[w] = v
      /\ \A u \in Writers : u # w => writer'[u] = writer[u]
  BY <1>5 DEF FenceInv, TypeInv
<1>7. revision \in Nat /\ v.since \in Nat /\ v.revision \in Nat /\ revision' \in Nat
  BY <1>3, <1>4 DEF FenceInv, TypeInv
<1>8. \A q \in rows' : IsRow(q) /\ \E r \in rows : q.rev = r.rev /\ q.body = r.body
  BY <1>3, AdoptedRows DEF FenceInv, TypeInv
<1>9. TypeInv'
  BY <1>1, <1>2, <1>3, <1>4, <1>6, <1>7, <1>8 DEF FenceInv, TypeInv
<1>10. WriterInv'
  BY <1>1, <1>2, <1>4, <1>6 DEF FenceInv, WriterInv, Asks
<1>11. ThreadInv'
  BY <1>1 DEF FenceInv, ThreadInv
<1>12. CASE owner' = token /\ revision' = revision + replaced
  <2>1. \A q \in rows' : q.rev \in Nat /\ q.rev <= revision /\ q.rev <= revision'
    BY <1>7, <1>8, <1>12 DEF FenceInv, TableInv
  <2>2. writer'[owner'.by] = v /\ v.phase # "closed" /\ v.since = revision'
    BY <1>2, <1>4, <1>6, <1>12
  <2>3. TableInv'
    BY <2>1, <2>2 DEF TableInv
  <2>4. NothingBehindTheOwner'
    BY <1>7, <2>1, <2>2 DEF NothingBehindTheOwner
  <2> QED
    BY <1>9, <1>10, <1>11, <2>3, <2>4 DEF FenceInv
<1>13. CASE owner' = owner /\ rows' = rows /\ revision' = revision
  <2>1. owner # Nobody => owner.by \in Writers /\ owner.by # w
    BY <1>1 DEF FenceInv, TypeInv, TableInv, Tokens
  <2>2. TableInv' /\ NothingBehindTheOwner'
    BY <1>6, <1>13, <2>1 DEF FenceInv, TableInv, NothingBehindTheOwner
  <2> QED
    BY <1>9, <1>10, <1>11, <2>2 DEF FenceInv
<1> QED
  BY <1>3, <1>12, <1>13

(* The rows after a job: those before, and its writer's, if it still owns  *)
(* the session.                                                            *)
LEMMA JobsWriteAsOwners ==
  ASSUME FenceInv, NEW p \in Processes, taken[p] # Nobody, NEW outcome,
         outcome \in Outcomes(Head(jobs[p]), taken[p].batch),
         IF outcome.took THEN Commits(Head(jobs[p]), taken[p].batch) ELSE UNCHANGED tableVars
  PROVE  /\ owner' = owner /\ revision' \in Nat /\ revision <= revision'
         /\ \A q \in rows' :
              /\ IsRow(q) /\ q.rev \in Nat /\ q.rev <= revision'
              /\ \/ \E r \in rows : q.rev = r.rev /\ q.body = r.body
                 \/ q.rev = 0
                 \/ owner # Nobody => q.body[1] = owner.by
<1> DEFINE job == Head(jobs[p])
           batch == taken[p].batch
<1>1. /\ revision \in Nat /\ \A r \in rows : IsRow(r) /\ r.rev \in Nat /\ r.rev <= revision
  BY DEF FenceInv, TypeInv, TableInv
<1>2. CASE ~outcome.took
  <2>1. owner' = owner /\ revision' = revision /\ rows' = rows
    BY <1>2 DEF tableVars
  <2> QED
    BY <1>1, <2>1
<1>3. CASE outcome.took
  <2>1. Aligned(job.request, batch) /\ Owns(job.token)
    BY <1>3 DEF Outcomes
  <2>2. job \in Jobs /\ job.token.by = job.request.by
    <3>1. jobs[p] \in Seq(Jobs) /\ jobs[p] # <<>>
      BY DEF FenceInv, TypeInv, ThreadInv
    <3>2. job \in Jobs /\ job = jobs[p][1] /\ 1 \in DOMAIN jobs[p]
      BY <3>1
    <3> QED
      BY <3>2 DEF FenceInv, ThreadInv
  <2>3. batch # Nobody => batch \in Requests /\ batch.by = job.request.by
    BY DEF FenceInv, TypeInv, ThreadInv
  <2> DEFINE plan == Planned(job.request, batch)
  <2>4. job.request \in Requests /\ \A i \in DOMAIN plan : plan[i].body[1] = job.request.by
    <3>1. job.request \in Requests
      BY <2>2 DEF Jobs
    <3> QED
      BY <2>1, <2>3, <3>1, PlanIsTheWriters
  <2>5. owner = job.token
    BY <2>1 DEF Owns
  <2>6. /\ owner' = owner /\ revision' = revision + 1
        /\ rows' = Written(Adopted(rows, sequence), plan, next_id - 1,
                           AfterAdoption(rows, sequence).last, revision + 1)
    BY <1>3 DEF Commits
  <2> HIDE DEF plan, job, batch
  <2> SUFFICES ASSUME NEW q \in rows'
               PROVE  /\ IsRow(q) /\ q.rev \in Nat /\ q.rev <= revision'
                      /\ \/ \E r \in rows : q.rev = r.rev /\ q.body = r.body
                         \/ q.rev = 0
                         \/ owner # Nobody => q.body[1] = owner.by
    BY <1>1, <2>6
  <2>7. CASE q \in Adopted(rows, sequence)
    <3>1. IsRow(q) /\ \E r \in rows : q.rev = r.rev /\ q.body = r.body
      BY <1>1, <2>7, AdoptedRows
    <3> QED
      BY <1>1, <2>6, <3>1
  <2>8. CASE \E i \in DOMAIN plan :
               IsRow(q) /\ q.body = plan[i].body /\ (q.rev = 0 \/ q.rev = revision + 1)
    BY <1>1, <2>2, <2>4, <2>5, <2>6, <2>8
  <2> QED
    BY <2>6, <2>7, <2>8, WrittenRows
<1> QED
  BY <1>2, <1>3

LEMMA AnswersReach ==
  ASSUME FenceInv, NEW w \in Writers, NEW told, writer[w].phase = "waiting", Answered(w, told)
  PROVE  /\ SameWriters
         /\ \A u \in Writers : Asks(writer'[u]) => Asks(writer[u])
         /\ answers' \in [Writers -> Seq([request : Requests, told : Answers])]
         /\ \A u \in Writers : (answers[u] # <<>> => answers'[u] # <<>>)
         /\ \A u \in Writers : \A n \in DOMAIN answers'[u] : answers'[u][n].request.by = u
<1> DEFINE phase == IF told = "committed" THEN "ready"
                    ELSE IF told \in {"not_committed", "backend"} THEN "asking"
                    ELSE "failed"
           number == IF told = "committed" THEN writer[w].revision + 1 ELSE writer[w].revision
           what == IF told = "committed" THEN "stored"
                   ELSE IF told = "backend" \/ writer[w].doubt THEN "unknown"
                   ELSE "refused"
           doubt == IF told = "backend" THEN TRUE ELSE writer[w].doubt
<1>1. Told(w, what)
  BY DEF Answered
<1>2. writer' = [writer EXCEPT ![w] =
        [@ EXCEPT !.phase = phase, !.revision = number, !.doubt = doubt]]
  BY DEF Answered
<1>3. what \in Answers /\ phase \in {"ready", "asking", "failed"}
  BY DEF Answers
<1>4. IsWriter(writer[w]) /\ number \in Nat
  BY DEF FenceInv, TypeInv
<1> HIDE DEF phase, number, what, doubt
<1> DEFINE v == [writer[w] EXCEPT !.phase = phase, !.revision = number, !.doubt = doubt]
<1>5. /\ IsWriter(v) /\ v.phase = phase /\ v.revision = number /\ v.since = writer[w].since
      /\ v.token = writer[w].token
  BY <1>4 DEF IsWriter
<1>6. writer' = [writer EXCEPT ![w] = v]
  BY <1>2
<1> HIDE DEF v
<1>7. v.phase = "closed" <=> writer[w].phase = "closed"
  BY <1>3, <1>5
<1>8. SameWriters /\ \A u \in Writers : writer'[u] = IF u = w THEN v ELSE writer[u]
  BY <1>4, <1>5, <1>6, <1>7, WriterChanges
<1>9. \A u \in Writers : Asks(writer'[u]) => Asks(writer[u])
  BY <1>8 DEF Asks
<1> QED
  BY <1>1, <1>3, <1>8, <1>9, ToldKeeps

LEMMA Finishes ==
  ASSUME FenceInv, NEW p \in Processes, Finish(p)
  PROVE  FenceInv'
<1> DEFINE job == Head(jobs[p])
           batch == taken[p].batch
           w == job.request.by
<1>1. PICK outcome \in Outcomes(job, batch) :
        /\ IF outcome.took THEN Commits(job, batch) ELSE UNCHANGED tableVars
        /\ host' = IF outcome.told # "committed" /\ batch # Nobody
                   THEN [host EXCEPT ![w] = batch] ELSE host
        /\ IF writer[w].phase = "waiting"
           THEN Answered(w, outcome.told) ELSE UNCHANGED <<writer, answers>>
  BY DEF Finish
<1>2. /\ home' = home /\ taken[p] # Nobody /\ jobs' = [jobs EXCEPT ![p] = Tail(@)]
      /\ taken' = [taken EXCEPT ![p] = Nobody]
  BY DEF Finish
<1>3. /\ owner' = owner /\ revision' \in Nat /\ revision <= revision'
      /\ \A q \in rows' :
           /\ IsRow(q) /\ q.rev \in Nat /\ q.rev <= revision'
           /\ \/ \E r \in rows : q.rev = r.rev /\ q.body = r.body
              \/ q.rev = 0
              \/ owner # Nobody => q.body[1] = owner.by
  BY <1>1, <1>2, JobsWriteAsOwners
<1>4. jobs[p] \in Seq(Jobs) /\ jobs[p] # <<>>
  BY <1>2 DEF FenceInv, TypeInv, ThreadInv
<1>5. w \in Writers
  <2>1. job \in Jobs
    BY <1>4
  <2> QED
    BY <2>1 DEF Jobs, Requests
<1>6. batch # Nobody => batch \in Requests /\ batch.by = w
  BY <1>2 DEF FenceInv, TypeInv, ThreadInv
<1> HIDE DEF job, batch, w
<1>7. /\ DOMAIN host' = Writers
      /\ \A u \in Writers : host'[u] # Nobody => host'[u] \in Requests /\ host'[u].by = u
  <2>1. /\ DOMAIN host = Writers
        /\ \A u \in Writers : host[u] # Nobody => host[u] \in Requests /\ host[u].by = u
    BY DEF FenceInv, TypeInv, WriterInv
  <2>2. host' = host \/ (batch # Nobody /\ host' = [host EXCEPT ![w] = batch])
    BY <1>1
  <2> QED
    BY <1>5, <1>6, <2>1, <2>2
<1>8. /\ jobs' \in [Processes -> Seq(Jobs)]
      /\ \A q \in Processes : q # p => jobs'[q] = jobs[q]
      /\ \A i \in DOMAIN jobs'[p] : jobs'[p][i].token.by = jobs'[p][i].request.by
  <2>1. jobs \in [Processes -> Seq(Jobs)]
    BY DEF FenceInv, TypeInv
  <2>2. /\ Tail(jobs[p]) \in Seq(Jobs) /\ Len(jobs[p]) \in Nat
        /\ DOMAIN jobs[p] = 1..Len(jobs[p]) /\ DOMAIN Tail(jobs[p]) = 1..(Len(jobs[p]) - 1)
        /\ \A i \in DOMAIN Tail(jobs[p]) : Tail(jobs[p])[i] = jobs[p][i + 1]
    BY <1>4
  <2>3. \A i \in DOMAIN Tail(jobs[p]) :
          Tail(jobs[p])[i].token.by = Tail(jobs[p])[i].request.by
    <3> SUFFICES ASSUME NEW i \in DOMAIN Tail(jobs[p])
                 PROVE  Tail(jobs[p])[i].token.by = Tail(jobs[p])[i].request.by
      OBVIOUS
    <3>1. i + 1 \in DOMAIN jobs[p] /\ Tail(jobs[p])[i] = jobs[p][i + 1]
      BY <2>2
    <3> QED
      BY <3>1 DEF FenceInv, ThreadInv
  <2>4. jobs'[p] = Tail(jobs[p])
    BY <1>2, <2>1
  <2> QED
    BY <1>2, <2>1, <2>2, <2>3, <2>4
<1>9. /\ DOMAIN taken' = Processes /\ taken'[p] = Nobody
      /\ \A q \in Processes : q # p => taken'[q] = taken[q]
  BY <1>2 DEF FenceInv, TypeInv
<1>10. /\ SameWriters
       /\ \A u \in Writers : Asks(writer'[u]) => Asks(writer[u])
       /\ answers' \in [Writers -> Seq([request : Requests, told : Answers])]
       /\ \A u \in Writers : (answers[u] # <<>> => answers'[u] # <<>>)
       /\ \A u \in Writers : \A n \in DOMAIN answers'[u] : answers'[u][n].request.by = u
  <2>1. CASE writer[w].phase = "waiting"
    BY <1>1, <1>5, <2>1, AnswersReach
  <2>2. CASE writer' = writer /\ answers' = answers
    BY <2>2 DEF FenceInv, TypeInv, WriterInv, SameWriters
  <2> QED
    BY <1>1, <2>1, <2>2
<1>11. TypeInv'
  BY <1>2, <1>3, <1>7, <1>8, <1>9, <1>10 DEF FenceInv, TypeInv, SameWriters
<1>12. WriterInv'
  BY <1>7, <1>10 DEF FenceInv, WriterInv, SameWriters, Asks
<1>13. ThreadInv'
  BY <1>8, <1>9 DEF FenceInv, ThreadInv
<1>14. owner # Nobody => owner.by \in Writers /\ writer'[owner.by].since = writer[owner.by].since
                          /\ writer'[owner.by].phase # "closed"
                          /\ writer[owner.by].since \in Nat
  BY <1>10 DEF FenceInv, TypeInv, TableInv, Tokens, SameWriters
<1>15. TableInv'
  BY <1>3, <1>14 DEF TableInv
<1>16. NothingBehindTheOwner'
  BY <1>3, <1>14 DEF FenceInv, NothingBehindTheOwner
<1> QED
  BY <1>11, <1>12, <1>13, <1>15, <1>16 DEF FenceInv

-----------------------------------------------------------------------------
LEMMA FenceStarts == Init => FenceInv
<1> SUFFICES ASSUME Init PROVE FenceInv
  OBVIOUS
<1>1. TypeInv
  <2>1. \A w \in Writers : IsWriter(writer[w]) /\ writer[w].since \in Nat
                            /\ writer[w].revision \in Nat
    BY DEF Init, IsWriter
  <2>2. /\ jobs \in [Processes -> Seq(Jobs)]
        /\ answers \in [Writers -> Seq([request : Requests, told : Answers])]
    BY DEF Init
  <2> QED
    BY <2>1, <2>2 DEF Init, TypeInv
<1>2. WriterInv /\ ThreadInv /\ TableInv /\ NothingBehindTheOwner
  BY DEF Init, WriterInv, ThreadInv, TableInv, NothingBehindTheOwner, Asks
<1> QED
  BY <1>1, <1>2 DEF FenceInv

LEMMA FenceKeeps == FenceInv /\ [Next]_vars => FenceInv'
<1> SUFFICES ASSUME FenceInv, [Next]_vars PROVE FenceInv'
  OBVIOUS
<1>1. CASE UNCHANGED vars
  BY ZenonT(40), <1>1 DEF vars, tableVars, threadVars, FenceInv, TypeInv, WriterInv, ThreadInv, TableInv,
              NothingBehindTheOwner, Asks
<1>2. ASSUME NEW w \in Writers,
             Acquire(w) \/ Submit(w) \/ Stop(w) \/ \E shape \in Shapes : Stage(w, shape)
      PROVE  FenceInv'
  BY <1>2, Acquires, Submits, Stops, Stages
<1>3. ASSUME NEW p \in Processes, Begin(p) \/ Finish(p) \/ Crash(p)
      PROVE  FenceInv'
  BY <1>3, Begins, Finishes, Crashes
<1>4. ASSUME NEW record \in OlderRecords, OlderAppend(record)
      PROVE  FenceInv'
  BY <1>4, OlderBuildsAppend
<1> QED
  BY <1>1, <1>2, <1>3, <1>4 DEF Next

(* After an owner has read the session nobody else's commits come behind   *)
(* its back, those included that a store thread had begun when it took     *)
(* over, and those repeated after an attempt in doubt (durable.rs:585-607, *)
(* the fence check of store.rs in each transaction).                       *)
THEOREM TheFenceHolds == Spec => []NothingBehindTheOwner
<1>1. FenceInv => NothingBehindTheOwner
  BY DEF FenceInv
<1> QED
  BY <1>1, FenceStarts, FenceKeeps, PTL DEF Spec

-----------------------------------------------------------------------------
(* Numbers by counting.  Of a finite set whose members f tells apart, the  *)
(* count of the members up to one is its place: the places are those from  *)
(* one to the size of the set, and they follow f.                          *)
UpTo(S, f, x) == {y \in S : f[y] <= f[x]}

Place(S, f, x) == Cardinality(UpTo(S, f, x))

LEMMA Places ==
  ASSUME NEW S, IsFiniteSet(S), NEW f \in [S -> Int],
         \A x, y \in S : f[x] = f[y] => x = y
  PROVE  /\ \A x \in S : Place(S, f, x) \in 1..Cardinality(S)
         /\ \A x, y \in S : f[x] < f[y] => Place(S, f, x) < Place(S, f, y)
         /\ \A x, y \in S : Place(S, f, x) = Place(S, f, y) => x = y
         /\ \A n \in 1..Cardinality(S) : \E x \in S : Place(S, f, x) = n
<1>0. Cardinality(S) \in Nat
  BY FS_CardinalityType
<1>1. ASSUME NEW x \in S
      PROVE  /\ IsFiniteSet(UpTo(S, f, x)) /\ UpTo(S, f, x) \in SUBSET S
             /\ Place(S, f, x) \in Nat /\ Place(S, f, x) \in 1..Cardinality(S)
  <2>1. UpTo(S, f, x) \in SUBSET S /\ {x} \in SUBSET UpTo(S, f, x)
    BY DEF UpTo
  <2>2. IsFiniteSet(UpTo(S, f, x)) /\ Cardinality(UpTo(S, f, x)) <= Cardinality(S)
    BY <2>1, FS_Subset
  <2>3. Cardinality({x}) <= Cardinality(UpTo(S, f, x)) /\ Cardinality({x}) = 1
    BY <2>1, <2>2, FS_Subset, FS_Singleton
  <2>4. Cardinality(UpTo(S, f, x)) \in Nat
    BY <2>2, FS_CardinalityType
  <2> QED
    BY <1>0, <2>1, <2>2, <2>3, <2>4 DEF Place
<1>2. ASSUME NEW x \in S, NEW y \in S, f[x] < f[y]
      PROVE  Place(S, f, x) < Place(S, f, y)
  <2>1. y \notin UpTo(S, f, x) /\ UpTo(S, f, x) \cup {y} \in SUBSET UpTo(S, f, y)
    BY <1>2 DEF UpTo
  <2>2. Cardinality(UpTo(S, f, x) \cup {y}) = Cardinality(UpTo(S, f, x)) + 1
    BY <1>1, <2>1, FS_AddElement
  <2>3. Cardinality(UpTo(S, f, x) \cup {y}) <= Cardinality(UpTo(S, f, y))
    BY <1>1, <2>1, FS_Subset
  <2>4. Place(S, f, x) \in Nat /\ Place(S, f, y) \in Nat
    BY <1>1
  <2> QED
    BY <2>2, <2>3, <2>4 DEF Place
<1>3. ASSUME NEW x \in S, NEW y \in S, Place(S, f, x) = Place(S, f, y)
      PROVE  x = y
  <2>1. ~(f[x] < f[y]) /\ ~(f[y] < f[x])
    BY <1>1, <1>2, <1>3
  <2> QED
    BY <2>1
<1>4. ASSUME NEW n \in 1..Cardinality(S)
      PROVE  \E x \in S : Place(S, f, x) = n
  <2> DEFINE T == 1..Cardinality(S)
             g == [x \in S |-> Place(S, f, x)]
  <2>1. IsFiniteSet(T) /\ Cardinality(T) = Cardinality(S)
    <3>1. 1 \in Int /\ Cardinality(S) \in Int
      BY <1>0
    <3>2. IsFiniteSet(T) /\ Cardinality(T) = IF 1 > Cardinality(S) THEN 0 ELSE Cardinality(S) - 1 + 1
      BY <3>1, FS_Interval
    <3> QED
      BY <1>0, <3>2
  <2>2. g \in Injection(S, T)
    BY <1>1, <1>3 DEF Injection, IsInjective
  <2> HIDE DEF T, g
  <2>3. g \in Surjection(S, T)
    BY <2>1, <2>2, FS_Injection
  <2>4. \E x \in S : g[x] = n
    BY <2>3 DEF Surjection, T
  <2> QED
    BY <2>4 DEF g
<1> QED
  BY <1>1, <1>2, <1>3, <1>4

-----------------------------------------------------------------------------
(* The events among the first n records of a batch take the numbers from   *)
(* one to their count, in order.                                           *)
LEMMA EventNumbers ==
  ASSUME NEW batch, NEW n \in Nat
  PROVE  /\ EventsUpTo(batch, n) \in Nat
         /\ \A i \in 1..n : IsEvent(batch[i]) =>
              EventsUpTo(batch, i) \in 1..EventsUpTo(batch, n)
         /\ \A i, j \in 1..n : IsEvent(batch[i]) /\ IsEvent(batch[j])
                                 /\ EventsUpTo(batch, i) = EventsUpTo(batch, j) => i = j
         /\ \A k \in 1..EventsUpTo(batch, n) : \E i \in 1..n :
              IsEvent(batch[i]) /\ EventsUpTo(batch, i) = k
<1> DEFINE S == {j \in 1..n : IsEvent(batch[j])}
           f == [j \in S |-> j]
<1>1. IsFiniteSet(S)
  <2>1. IsFiniteSet(1..n)
    BY FS_Interval
  <2> QED
    BY <2>1, FS_Subset
<1>2. f \in [S -> Int] /\ \A x, y \in S : f[x] = f[y] => x = y
  OBVIOUS
<1>3. EventsUpTo(batch, n) = Cardinality(S)
  BY DEF EventsUpTo, IsEvent
<1>4. ASSUME NEW i \in S PROVE EventsUpTo(batch, i) = Place(S, f, i)
  <2>1. {j \in 1..i : ~IsDraft(batch[j])} = UpTo(S, f, i)
    BY DEF UpTo, IsEvent
  <2> QED
    BY <2>1 DEF EventsUpTo, Place
<1>5. \A i \in 1..n : IsEvent(batch[i]) <=> i \in S
  OBVIOUS
<1>6. S \in SUBSET (1..n)
  OBVIOUS
<1> HIDE DEF S, f
<1>7. /\ \A x \in S : Place(S, f, x) \in 1..Cardinality(S)
      /\ \A x, y \in S : Place(S, f, x) = Place(S, f, y) => x = y
      /\ \A k \in 1..Cardinality(S) : \E x \in S : Place(S, f, x) = k
  BY <1>1, <1>2, Places
<1>8. Cardinality(S) \in Nat
  BY <1>1, FS_CardinalityType
<1>9. \A i \in 1..n : IsEvent(batch[i]) => EventsUpTo(batch, i) \in 1..EventsUpTo(batch, n)
  BY <1>3, <1>4, <1>5, <1>7
<1>10. \A i, j \in 1..n : IsEvent(batch[i]) /\ IsEvent(batch[j])
                            /\ EventsUpTo(batch, i) = EventsUpTo(batch, j) => i = j
  BY <1>4, <1>5, <1>7
<1>11. ASSUME NEW k \in 1..EventsUpTo(batch, n)
       PROVE  \E i \in 1..n : IsEvent(batch[i]) /\ EventsUpTo(batch, i) = k
  <2>1. PICK x \in S : Place(S, f, x) = k
    BY <1>3, <1>7
  <2>2. x \in 1..n /\ IsEvent(batch[x]) /\ EventsUpTo(batch, x) = k
    BY <1>4, <1>5, <1>6, <2>1
  <2> QED
    BY <2>2
<1> QED
  BY <1>3, <1>8, <1>9, <1>10, <1>11

(* A table of rows: next is an id above all, last the last number given.   *)
Bodies == (Writers \cup {Nobody}) \X Nat \X Nat

RowIn(r, next, last) ==
  /\ IsRow(r) /\ r.id \in Nat /\ r.id < next /\ r.seq \in 0..last
  /\ r.seq # 0 => IsEvent(r)
  /\ r.seq = 0 => r.rev = 0
  /\ r.rev \in Nat /\ r.body \in Bodies

Table(set, next, last) ==
  /\ IsFiniteSet(set) /\ next \in Nat \ {0} /\ last \in Nat
  /\ \A r \in set : RowIn(r, next, last)
  /\ \A q, r \in set : q.id = r.id => q = r
  /\ \A q, r \in set : q.seq = r.seq /\ q.seq # 0 => q = r
  /\ \A n \in 1..last : \E r \in set : r.seq = n

(* The row that a row becomes when it takes a number.                      *)
LEMMA Numbered ==
  ASSUME NEW r, IsRow(r), NEW n
  PROVE  LET q == [r EXCEPT !.seq = n] IN
         /\ IsRow(q) /\ q.seq = n /\ q.id = r.id /\ q.kind = r.kind
         /\ q.stream = r.stream /\ q.body = r.body /\ q.rev = r.rev
BY DEF IsRow

(* A table that keeps the rows with a number; rows that took one by        *)
(* adoption; no body, and no two rows of one body, that were not there.    *)
KeepsNumbers(set, new) == \A r \in set : r.seq # 0 => r \in new

FromAdoption(set, new, last) ==
  \A q \in new : \/ q \in set
                  \/ /\ q.seq > last /\ q.rev = 0
                     /\ \E r \in set : q.body = r.body

SameBodies(set, new) ==
  \A q, r \in new : \E p, t \in set :
    p.body = q.body /\ t.body = r.body /\ (p = t => q = r)

(* Adoption gives the rows it numbers the next numbers, under revision 0;  *)
(* it leaves a row that has a number alone, and every body is kept.        *)
LEMMA AdoptedTable ==
  ASSUME NEW set, NEW next, NEW s, Table(set, next, s.last)
  PROVE  /\ AfterAdoption(set, s).last \in Nat /\ s.last <= AfterAdoption(set, s).last
         /\ Table(Adopted(set, s), next, AfterAdoption(set, s).last)
         /\ KeepsNumbers(set, Adopted(set, s))
         /\ FromAdoption(set, Adopted(set, s), s.last)
         /\ SameBodies(set, Adopted(set, s))
<1> DEFINE P == Pending(set, s.through)
           m == Cardinality(P)
           f == [r \in P |-> r.id]
           h == [r \in set |-> IF r \in P THEN [r EXCEPT !.seq = s.last + Place(P, f, r)] ELSE r]
           new == {h[r] : r \in set}
<1>1. IsFiniteSet(set) /\ next \in Nat \ {0} /\ s.last \in Nat
  BY DEF Table
<1>2. \A r \in set : RowIn(r, next, s.last)
  BY DEF Table
<1>3. \A q, r \in set : q.id = r.id => q = r
  BY DEF Table
<1>4. \A q, r \in set : q.seq = r.seq /\ q.seq # 0 => q = r
  BY DEF Table
<1>5. \A n \in 1..s.last : \E r \in set : r.seq = n
  BY DEF Table
<1>6. P \in SUBSET set /\ \A r \in P : IsEvent(r) /\ r.seq = 0
  BY DEF Pending, IsEvent
<1>7. IsFiniteSet(P) /\ m \in Nat
  BY <1>1, <1>6, FS_Subset, FS_CardinalityType
<1>8. f \in [P -> Int] /\ \A x, y \in P : f[x] = f[y] => x = y
  BY <1>2, <1>3, <1>6 DEF RowIn
<1>9. ASSUME NEW r \in P PROVE Rank(P, r) = Place(P, f, r)
  <2>1. {p \in P : p.id <= r.id} = UpTo(P, f, r)
    BY DEF UpTo
  <2> QED
    BY <2>1 DEF Rank, Place
<1>10. AfterAdoption(set, s).last = s.last + m
  BY DEF AfterAdoption
<1>11. Adopted(set, s) = new
  <2>1. Adopted(set, s) = {r \in set : r \notin P}
                            \cup {[r EXCEPT !.seq = s.last + Rank(P, r)] : r \in P}
    BY DEF Adopted
  <2> HIDE DEF P, f
  <2>2. Adopted(set, s) \subseteq new
    BY <1>6, <1>9, <2>1
  <2>3. new \subseteq Adopted(set, s)
    BY <1>6, <1>9, <2>1
  <2> QED
    BY <2>2, <2>3
<1> HIDE DEF m, f
<1>12. /\ \A x \in P : Place(P, f, x) \in 1..m
       /\ \A x, y \in P : Place(P, f, x) = Place(P, f, y) => x = y
       /\ \A k \in 1..m : \E x \in P : Place(P, f, x) = k
  BY <1>7, <1>8, Places DEF m
<1> HIDE DEF P
<1>13. ASSUME NEW r \in set
       PROVE  /\ r \notin P => h[r] = r
              /\ r \in P => /\ IsRow(h[r]) /\ h[r].seq = s.last + Place(P, f, r)
                            /\ h[r].id = r.id /\ h[r].kind = r.kind /\ h[r].body = r.body
                            /\ h[r].rev = r.rev
              /\ h[r].id = r.id /\ h[r].body = r.body
  BY <1>2, Numbered DEF RowIn
<1>14. DOMAIN h = set /\ \A q : q \in new <=> \E r \in set : q = h[r]
  OBVIOUS
<1>15. h \in [set -> new]
  OBVIOUS
<1> HIDE DEF h, new
<1>16. IsFiniteSet(new)
  <2>1. h \in Surjection(set, new)
    BY <1>14, <1>15 DEF Surjection
  <2> QED
    BY <1>1, <2>1, FS_Surjection
<1>17. ASSUME NEW r \in P
       PROVE  /\ RowIn(h[r], next, s.last + m) /\ h[r].seq > s.last /\ h[r].rev = 0
              /\ IsEvent(h[r])
  <2>1. /\ RowIn(r, next, s.last) /\ IsEvent(r) /\ r.seq = 0 /\ r \in set
        /\ Place(P, f, r) \in 1..m
    BY <1>2, <1>6, <1>12
  <2>2. /\ IsRow(h[r]) /\ h[r].seq = s.last + Place(P, f, r)
        /\ h[r].id = r.id /\ h[r].kind = r.kind /\ h[r].body = r.body /\ h[r].rev = r.rev
    BY <1>13, <2>1
  <2> QED
    BY <1>1, <1>7, <2>1, <2>2 DEF RowIn, IsEvent, IsDraft
<1>18. ASSUME NEW r \in set, r \notin P
       PROVE  RowIn(h[r], next, s.last + m) /\ h[r] = r /\ h[r].seq <= s.last
  BY <1>1, <1>2, <1>7, <1>13, <1>18 DEF RowIn
<1>19. \A q \in new : RowIn(q, next, s.last + m)
  BY <1>14, <1>17, <1>18
<1>20. \A q, r \in new : q.id = r.id => q = r
  BY <1>3, <1>13, <1>14
<1>21. ASSUME NEW a \in set, NEW b \in set, h[a].seq = h[b].seq, h[a].seq # 0
       PROVE  a = b
  <2>1. CASE a \in P /\ b \in P
    <3>1. Place(P, f, a) = Place(P, f, b)
      BY <1>1, <1>12, <1>13, <1>21, <2>1
    <3> QED
      BY <1>12, <2>1, <3>1
  <2>2. CASE a \notin P /\ b \notin P
    BY <1>4, <1>13, <1>21, <2>2
  <2>3. CASE a \in P /\ b \notin P
    BY <1>1, <1>2, <1>17, <1>18, <1>21, <2>3 DEF RowIn
  <2>4. CASE a \notin P /\ b \in P
    BY <1>1, <1>2, <1>17, <1>18, <1>21, <2>4 DEF RowIn
  <2> QED
    BY <2>1, <2>2, <2>3, <2>4
<1>22. \A q, r \in new : q.seq = r.seq /\ q.seq # 0 => q = r
  BY <1>14, <1>21
<1>23. ASSUME NEW n \in 1..(s.last + m)
       PROVE  \E q \in new : q.seq = n
  <2>1. CASE n <= s.last
    <3>1. PICK r \in set : r.seq = n
      BY <1>1, <1>5, <1>7, <2>1
    <3>2. r \notin P
      BY <1>6, <3>1
    <3> QED
      BY <1>14, <1>18, <3>1, <3>2
  <2>2. CASE n > s.last
    <3>1. n - s.last \in 1..m
      BY <1>1, <1>7, <2>2
    <3>2. PICK r \in P : Place(P, f, r) = n - s.last
      BY <1>12, <3>1
    <3>3. r \in set /\ h[r].seq = n
      BY <1>1, <1>6, <1>13, <3>2
    <3> QED
      BY <1>14, <3>3
  <2> QED
    BY <1>1, <2>1, <2>2
<1>24. Table(new, next, s.last + m)
  BY <1>1, <1>7, <1>16, <1>19, <1>20, <1>22, <1>23 DEF Table
<1>25. KeepsNumbers(set, new)
  BY <1>6, <1>14, <1>18 DEF KeepsNumbers
<1>26. FromAdoption(set, new, s.last)
  BY <1>13, <1>14, <1>17, <1>18 DEF FromAdoption
<1>27. SameBodies(set, new)
  <2> SUFFICES ASSUME NEW q \in new, NEW r \in new
               PROVE  \E p, t \in set : p.body = q.body /\ t.body = r.body /\ (p = t => q = r)
    BY DEF SameBodies
  <2>1. PICK p \in set, t \in set : q = h[p] /\ r = h[t]
    BY <1>14
  <2>2. p.body = q.body /\ t.body = r.body
    BY <1>13, <2>1
  <2> QED
    BY <2>1, <2>2
<1>28. s.last + m \in Nat /\ s.last <= s.last + m
  BY <1>1, <1>7
<1> QED
  BY <1>10, <1>11, <1>24, <1>25, <1>26, <1>27, <1>28

(* A transaction's records take the next ids, its events the next numbers. *)
(* It removes drafts only, which have no number.                           *)
LEMMA RowAtIs ==
  ASSUME NEW batch, NEW i, NEW base, NEW last, NEW rev
  PROVE  LET q == RowAt(batch, i, base, last, rev) IN
         /\ IsRow(q) /\ q.id = base + i /\ q.body = batch[i].body
         /\ IsEvent(q) <=> IsEvent(batch[i])
         /\ IsEvent(batch[i]) => q.seq = last + EventsUpTo(batch, i) /\ q.rev = rev
         /\ ~IsEvent(batch[i]) => q.seq = 0 /\ q.rev = 0
<1>1. ASSUME NEW n, NEW v
      PROVE  LET q == Row(batch[i], base + i, n, v) IN
             /\ IsRow(q) /\ q.id = base + i /\ q.body = batch[i].body
             /\ q.kind = batch[i].kind /\ q.seq = n /\ q.rev = v
  BY DEF Row, IsRow
<1> QED
  BY <1>1 DEF RowAt, IsEvent, IsDraft

FromBatch(set, new, batch, n, next, last, rev) ==
  \A q \in new : \/ q \in set
                  \/ \E i \in 1..n :
                       /\ q.body = batch[i].body /\ q.id = next - 1 + i
                       /\ q.seq # 0 => q.seq > last /\ q.rev = rev

HasEvents(new, batch, n, last, rev) ==
  \A i \in 1..n : IsEvent(batch[i]) =>
    \E q \in new : /\ q.body = batch[i].body /\ q.rev = rev
                   /\ q.seq = last + EventsUpTo(batch, i)

LEMMA WrittenTable ==
  ASSUME NEW set, NEW next, NEW last, Table(set, next, last),
         NEW batch, NEW n \in Nat, DOMAIN batch = 1..n,
         \A i \in 1..n : batch[i].body \in Bodies, NEW rev \in Nat
  PROVE  LET new == Written(set, batch, next - 1, last, rev) IN
         /\ last + EventsUpTo(batch, n) \in Nat /\ last <= last + EventsUpTo(batch, n)
         /\ Table(new, next + n, last + EventsUpTo(batch, n))
         /\ KeepsNumbers(set, new)
         /\ FromBatch(set, new, batch, n, next, last, rev)
         /\ HasEvents(new, batch, n, last, rev)
<1> DEFINE new == Written(set, batch, next - 1, last, rev)
           m == EventsUpTo(batch, n)
           h == [i \in 1..n |-> RowAt(batch, i, next - 1, last, rev)]
           all == set \cup {h[i] : i \in 1..n}
<1>1. /\ IsFiniteSet(set) /\ next \in Nat \ {0} /\ last \in Nat
      /\ \A r \in set : RowIn(r, next, last)
  BY DEF Table
<1>2. /\ \A q, r \in set : q.id = r.id => q = r
      /\ \A q, r \in set : q.seq = r.seq /\ q.seq # 0 => q = r
  BY DEF Table
<1>3. \A k \in 1..last : \E r \in set : r.seq = k
  BY DEF Table
<1>4. /\ m \in Nat
      /\ \A i \in 1..n : IsEvent(batch[i]) => EventsUpTo(batch, i) \in 1..m
      /\ \A i, j \in 1..n : IsEvent(batch[i]) /\ IsEvent(batch[j])
                              /\ EventsUpTo(batch, i) = EventsUpTo(batch, j) => i = j
      /\ \A k \in 1..m : \E i \in 1..n : IsEvent(batch[i]) /\ EventsUpTo(batch, i) = k
  BY EventNumbers
<1>5. DOMAIN h = 1..n /\ IsFiniteSet({h[i] : i \in 1..n})
  <2>1. DOMAIN h = 1..n /\ h \in Surjection(1..n, {h[i] : i \in 1..n})
    BY DEF Surjection
  <2>2. IsFiniteSet(1..n)
    BY FS_Interval
  <2> HIDE DEF h
  <2> QED
    BY <2>1, <2>2, FS_Surjection
<1>6. ASSUME NEW i \in 1..n
      PROVE  /\ IsRow(h[i]) /\ h[i].id = next - 1 + i /\ h[i].body = batch[i].body
             /\ IsEvent(h[i]) <=> IsEvent(batch[i])
             /\ IsEvent(batch[i]) => h[i].seq = last + EventsUpTo(batch, i) /\ h[i].rev = rev
             /\ ~IsEvent(batch[i]) => h[i].seq = 0 /\ h[i].rev = 0
  BY RowAtIs
<1>7. \A q \in new : q \in set \/ \E i \in 1..n : q = h[i]
  BY DEF Written
<1>8. \A r \in set : r.seq # 0 => r \in new
  BY DEF Written, Ends
<1>9. ASSUME NEW i \in 1..n, IsEvent(batch[i]) PROVE h[i] \in new
  <2>1. ~IsDraft(h[i]) /\ h[i] = RowAt(batch, i, next - 1, last, rev)
    BY <1>6, <1>9 DEF IsEvent
  <2> HIDE DEF h
  <2> QED
    BY <2>1 DEF Written, Ends
<1> HIDE DEF new, m, h
<1>10. IsFiniteSet(new)
  <2>1. IsFiniteSet(all)
    BY <1>1, <1>5, FS_Union
  <2>2. new \in SUBSET all
    BY <1>7
  <2> HIDE DEF all
  <2> QED
    BY <2>1, <2>2, FS_Subset
<1>11. ASSUME NEW i \in 1..n PROVE RowIn(h[i], next + n, last + m)
  <2>1. next - 1 + i \in Nat /\ next - 1 + i < next + n
    BY <1>1
  <2>2. batch[i].body \in Bodies
    OBVIOUS
  <2>3. CASE IsEvent(batch[i])
    <3>1. EventsUpTo(batch, i) \in 1..m
      BY <1>4, <2>3
    <3>2. last + EventsUpTo(batch, i) \in 0..(last + m) /\ last + EventsUpTo(batch, i) # 0
      BY <1>1, <1>4, <3>1
    <3> QED
      BY <1>6, <2>1, <2>2, <2>3, <3>2 DEF RowIn
  <2>4. CASE ~IsEvent(batch[i])
    <3>1. 0 \in 0..(last + m)
      BY <1>1, <1>4
    <3> QED
      BY <1>6, <2>1, <2>2, <2>4, <3>1 DEF RowIn
  <2> QED
    BY <2>3, <2>4
<1>12. ASSUME NEW r \in set PROVE RowIn(r, next + n, last + m)
  BY <1>1, <1>4 DEF RowIn
<1>13. \A q \in new : RowIn(q, next + n, last + m)
  BY <1>7, <1>11, <1>12
<1>14. ASSUME NEW q \in new, NEW r \in new, q.id = r.id PROVE q = r
  <2>1. ASSUME NEW a \in set, NEW i \in 1..n PROVE a.id # h[i].id
    <3>1. a.id \in Nat /\ a.id < next /\ h[i].id = next - 1 + i
      BY <1>1, <1>6 DEF RowIn
    <3> QED
      BY <1>1, <3>1
  <2>2. ASSUME NEW i \in 1..n, NEW j \in 1..n, h[i].id = h[j].id PROVE i = j
    BY <1>1, <1>6, <2>2
  <2> QED
    BY <1>2, <1>7, <1>14, <2>1, <2>2
<1>15. ASSUME NEW q \in new, NEW r \in new, q.seq = r.seq, q.seq # 0 PROVE q = r
  <2>1. ASSUME NEW i \in 1..n, h[i].seq # 0
        PROVE  IsEvent(batch[i]) /\ h[i].seq = last + EventsUpTo(batch, i) /\ h[i].seq > last
    <3>1. IsEvent(batch[i]) /\ h[i].seq = last + EventsUpTo(batch, i)
      BY <1>6, <2>1
    <3>2. EventsUpTo(batch, i) \in 1..m
      BY <1>4, <3>1
    <3> QED
      BY <1>1, <1>4, <3>1, <3>2
  <2>2. ASSUME NEW a \in set, NEW i \in 1..n, h[i].seq # 0 PROVE a.seq # h[i].seq
    <3>1. a.seq \in 0..last
      BY <1>1 DEF RowIn
    <3> QED
      BY <1>1, <2>1, <2>2, <3>1
  <2>3. ASSUME NEW i \in 1..n, NEW j \in 1..n, h[i].seq = h[j].seq, h[i].seq # 0 PROVE i = j
    <3>1. /\ IsEvent(batch[i]) /\ h[i].seq = last + EventsUpTo(batch, i)
          /\ IsEvent(batch[j]) /\ h[j].seq = last + EventsUpTo(batch, j)
      BY <2>1, <2>3
    <3>2. EventsUpTo(batch, i) \in Int /\ EventsUpTo(batch, j) \in Int /\ last \in Int
      BY <1>1, <1>4, <3>1
    <3>3. last + EventsUpTo(batch, i) = last + EventsUpTo(batch, j)
      BY <2>3, <3>1
    <3>4. EventsUpTo(batch, i) = EventsUpTo(batch, j)
      BY <3>2, <3>3
    <3> QED
      BY <1>4, <3>1, <3>4
  <2> QED
    BY <1>2, <1>7, <1>15, <2>2, <2>3
<1>16. ASSUME NEW k \in 1..(last + m) PROVE \E q \in new : q.seq = k
  <2>1. CASE k <= last
    <3>1. PICK r \in set : r.seq = k
      BY <1>1, <1>3, <1>4, <2>1
    <3> QED
      BY <1>8, <3>1
  <2>2. CASE k > last
    <3>1. k - last \in 1..m
      BY <1>1, <1>4, <2>2
    <3>2. PICK i \in 1..n : IsEvent(batch[i]) /\ EventsUpTo(batch, i) = k - last
      BY <1>4, <3>1
    <3>3. h[i] \in new /\ h[i].seq = k
      BY <1>1, <1>6, <1>9, <3>2
    <3> QED
      BY <3>3
  <2> QED
    BY <1>1, <2>1, <2>2
<1>17. next + n \in Nat \ {0} /\ last + m \in Nat /\ last <= last + m
  BY <1>1, <1>4
<1>18. Table(new, next + n, last + m)
  BY <1>10, <1>13, <1>14, <1>15, <1>16, <1>17 DEF Table
<1>19. FromBatch(set, new, batch, n, next, last, rev)
  <2>1. ASSUME NEW i \in 1..n, h[i].seq # 0 PROVE h[i].seq > last /\ h[i].rev = rev
    <3>1. IsEvent(batch[i]) /\ h[i].seq = last + EventsUpTo(batch, i) /\ h[i].rev = rev
      BY <1>6, <2>1
    <3>2. EventsUpTo(batch, i) \in 1..m
      BY <1>4, <3>1
    <3> QED
      BY <1>1, <1>4, <3>1, <3>2
  <2> QED
    BY <1>6, <1>7, <2>1 DEF FromBatch
<1>20. HasEvents(new, batch, n, last, rev)
  BY <1>6, <1>9 DEF HasEvents
<1>21. new = Written(set, batch, next - 1, last, rev) /\ m = EventsUpTo(batch, n)
  BY DEF new, m
<1> QED
  BY <1>8, <1>17, <1>18, <1>19, <1>20, <1>21 DEF KeepsNumbers

(* An older build's record takes the next id and no number.                *)
LEMMA AppendedTable ==
  ASSUME NEW set, NEW next, NEW last, Table(set, next, last),
         NEW record, record.body \in Bodies
  PROVE  /\ Table(Appended(set, record, next), next + 1, last)
         /\ KeepsNumbers(set, Appended(set, record, next))
         /\ \A q \in Appended(set, record, next) :
              q \in set \/ (q.body = record.body /\ q.seq = 0)
<1> DEFINE new == Appended(set, record, next)
           row == Row(record, next, 0, 0)
<1>1. /\ IsFiniteSet(set) /\ next \in Nat \ {0} /\ last \in Nat
      /\ \A r \in set : RowIn(r, next, last)
      /\ \A q, r \in set : q.id = r.id => q = r
      /\ \A q, r \in set : q.seq = r.seq /\ q.seq # 0 => q = r
      /\ \A n \in 1..last : \E r \in set : r.seq = n
  BY DEF Table
<1>2. IsRow(row) /\ row.id = next /\ row.seq = 0 /\ row.rev = 0 /\ row.body = record.body
  BY DEF Row, IsRow
<1>3. \A q \in new : q \in set \/ q = row
  BY DEF Appended
<1>4. \A r \in set : r.seq # 0 => r \in new
  BY DEF Appended, Ends
<1> HIDE DEF new, row
<1>5. IsFiniteSet(new)
  <2>1. IsFiniteSet(set \cup {row}) /\ new \in SUBSET (set \cup {row})
    BY <1>1, <1>3, FS_AddElement
  <2> QED
    BY <2>1, FS_Subset
<1>6. ASSUME NEW q \in new PROVE RowIn(q, next + 1, last)
  <2>1. CASE q \in set
    BY <1>1, <2>1 DEF RowIn
  <2>2. CASE q = row
    BY <1>1, <1>2, <2>2 DEF RowIn
  <2> QED
    BY <1>3, <2>1, <2>2
<1>7. ASSUME NEW q \in new, NEW r \in new, q.id = r.id PROVE q = r
  <2>1. ASSUME NEW a \in set PROVE a.id # next
    BY <1>1 DEF RowIn
  <2> QED
    BY <1>1, <1>2, <1>3, <1>7, <2>1
<1>8. \A q, r \in new : q.seq = r.seq /\ q.seq # 0 => q = r
  BY <1>1, <1>2, <1>3
<1>9. \A n \in 1..last : \E r \in new : r.seq = n
  BY <1>1, <1>4
<1>10. next + 1 \in Nat \ {0}
  BY <1>1
<1>11. Table(new, next + 1, last)
  BY <1>1, <1>5, <1>6, <1>7, <1>8, <1>9, <1>10 DEF Table
<1> QED
  BY <1>2, <1>3, <1>4, <1>11 DEF new, KeepsNumbers

-----------------------------------------------------------------------------
(* A request's records are told apart by their bodies; its events are      *)
(* those records that are no drafts, in order.                             *)
LEMMA RequestIs ==
  ASSUME NEW request \in Requests
  PROVE  /\ request.by \in Writers /\ request.n \in Nat
         /\ Len(RecordsOf(request)) \in Nat
         /\ DOMAIN RecordsOf(request) = 1..Len(RecordsOf(request))
         /\ \A i \in DOMAIN RecordsOf(request) :
              /\ RecordsOf(request)[i] = RecordAt(request, i)
              /\ RecordsOf(request)[i].body = <<request.by, request.n, i>>
              /\ RecordsOf(request)[i].body \in Bodies
<1>1. request.by \in Writers /\ request.n \in Nat
  BY DEF Requests
<1>2. Len(RecordsOf(request)) \in Nat /\ DOMAIN RecordsOf(request) = 1..Len(RecordsOf(request))
  BY RecordsAre
<1>3. ASSUME NEW i \in DOMAIN RecordsOf(request)
      PROVE  RecordsOf(request)[i] = RecordAt(request, i)
  BY DEF RecordsOf
<1>4. ASSUME NEW i \in DOMAIN RecordsOf(request)
      PROVE  /\ RecordsOf(request)[i].body = <<request.by, request.n, i>>
             /\ RecordsOf(request)[i].body \in Bodies
  <2>1. RecordsOf(request)[i].body = <<request.by, request.n, i>>
    BY <1>3, RecordIs
  <2>2. i \in Nat
    BY <1>2
  <2>3. <<request.by, request.n, i>> \in Bodies
    BY <1>1, <2>2 DEF Bodies
  <2> QED
    BY <2>1, <2>3
<1> QED
  BY <1>1, <1>2, <1>3, <1>4

LEMMA EventsOfAre ==
  ASSUME NEW request \in Requests, NEW m, m = EventsIn(RecordsOf(request)),
         NEW n, n = Len(RecordsOf(request))
  PROVE  /\ m \in Nat /\ DOMAIN EventsOf(request) = 1..m /\ Len(EventsOf(request)) = m
         /\ \A i \in 1..n : IsEvent(RecordsOf(request)[i]) =>
              /\ EventsUpTo(RecordsOf(request), i) \in 1..m
              /\ EventsOf(request)[EventsUpTo(RecordsOf(request), i)] = RecordAt(request, i)
         /\ \A k \in 1..m : \E i \in 1..n :
              /\ IsEvent(RecordsOf(request)[i]) /\ EventsUpTo(RecordsOf(request), i) = k
              /\ EventsOf(request)[k] = RecordAt(request, i)
<1> DEFINE records == RecordsOf(request)
           at(k) == CHOOSE i \in DOMAIN records : IsEvent(records[i]) /\ EventsUpTo(records, i) = k
<1>1. n \in Nat /\ DOMAIN records = 1..n
  BY RequestIs
<1>2. /\ m \in Nat
      /\ \A i \in 1..n : IsEvent(records[i]) => EventsUpTo(records, i) \in 1..m
      /\ \A i, j \in 1..n : IsEvent(records[i]) /\ IsEvent(records[j])
                              /\ EventsUpTo(records, i) = EventsUpTo(records, j) => i = j
      /\ \A k \in 1..m : \E i \in 1..n : IsEvent(records[i]) /\ EventsUpTo(records, i) = k
  <2>1. m = EventsUpTo(records, n)
    BY DEF EventsIn
  <2> HIDE DEF records
  <2>2. /\ EventsUpTo(records, n) \in Nat
        /\ \A i \in 1..n : IsEvent(records[i]) =>
             EventsUpTo(records, i) \in 1..EventsUpTo(records, n)
        /\ \A i, j \in 1..n : IsEvent(records[i]) /\ IsEvent(records[j])
                              /\ EventsUpTo(records, i) = EventsUpTo(records, j) => i = j
        /\ \A k \in 1..EventsUpTo(records, n) : \E i \in 1..n :
             IsEvent(records[i]) /\ EventsUpTo(records, i) = k
    BY <1>1, EventNumbers
  <2> QED
    BY <2>1, <2>2
<1>3. EventsOf(request) = [k \in 1..m |-> RecordAt(request, at(k))]
  BY DEF EventsOf
<1> HIDE DEF records
<1>4. ASSUME NEW k \in 1..m
      PROVE  at(k) \in 1..n /\ IsEvent(records[at(k)]) /\ EventsUpTo(records, at(k)) = k
  BY <1>1, <1>2
<1> HIDE DEF at
<1>5. DOMAIN EventsOf(request) = 1..m /\ Len(EventsOf(request)) = m
  BY <1>2, <1>3
<1>6. \A k \in 1..m : EventsOf(request)[k] = RecordAt(request, at(k))
  BY <1>3
<1>7. ASSUME NEW i \in 1..n, IsEvent(records[i])
      PROVE  /\ EventsUpTo(records, i) \in 1..m
             /\ EventsOf(request)[EventsUpTo(records, i)] = RecordAt(request, i)
  <2>1. EventsUpTo(records, i) \in 1..m
    BY <1>2, <1>7
  <2>2. at(EventsUpTo(records, i)) = i
    BY <1>2, <1>4, <1>7, <2>1
  <2> QED
    BY <1>6, <2>1, <2>2
<1>8. ASSUME NEW k \in 1..m
      PROVE  \E i \in 1..n : /\ IsEvent(records[i]) /\ EventsUpTo(records, i) = k
                             /\ EventsOf(request)[k] = RecordAt(request, i)
  BY <1>4, <1>6
<1>9. \A i \in 1..n : IsEvent(records[i]) =>
        /\ EventsUpTo(records, i) \in 1..m
        /\ EventsOf(request)[EventsUpTo(records, i)] = RecordAt(request, i)
  BY <1>7
<1>10. \A k \in 1..m : \E i \in 1..n :
         /\ IsEvent(records[i]) /\ EventsUpTo(records, i) = k
         /\ EventsOf(request)[k] = RecordAt(request, i)
  BY <1>8
<1>11. m \in Nat
  BY <1>2
<1> USE DEF records
<1> QED
  BY <1>5, <1>9, <1>10, <1>11, Zenon

(* The bodies of a request's events tell them apart.                       *)
LEMMA EventBodies ==
  ASSUME NEW request \in Requests
  PROVE  /\ Len(EventsOf(request)) \in Nat
         /\ DOMAIN EventsOf(request) = 1..Len(EventsOf(request))
         /\ \A k \in DOMAIN EventsOf(request) :
              /\ EventsOf(request)[k].body[1] = request.by
              /\ EventsOf(request)[k].body[2] = request.n
              /\ EventsOf(request)[k].body \in Bodies
              /\ IsEvent(EventsOf(request)[k])
         /\ \A j, k \in DOMAIN EventsOf(request) :
              EventsOf(request)[j].body = EventsOf(request)[k].body => j = k
<1> DEFINE records == RecordsOf(request)
           m == EventsIn(records)
           n == Len(records)
<1>1. /\ m \in Nat /\ DOMAIN EventsOf(request) = 1..m /\ Len(EventsOf(request)) = m
      /\ \A k \in 1..m : \E i \in 1..n :
           /\ IsEvent(records[i]) /\ EventsUpTo(records, i) = k
           /\ EventsOf(request)[k] = RecordAt(request, i)
  BY SMTT(30), EventsOfAre
<1>2. \A i \in 1..n : /\ records[i] = RecordAt(request, i)
                      /\ records[i].body = <<request.by, request.n, i>>
                      /\ records[i].body \in Bodies
  BY RequestIs
<1> HIDE DEF records, m, n
<1>3. \A k \in 1..m : \E i \in 1..n :
        /\ EventsUpTo(records, i) = k /\ EventsOf(request)[k] = records[i]
        /\ EventsOf(request)[k].body = <<request.by, request.n, i>>
        /\ EventsOf(request)[k].body \in Bodies /\ IsEvent(EventsOf(request)[k])
  <2> SUFFICES ASSUME NEW k \in 1..m
               PROVE  \E i \in 1..n :
                 /\ EventsUpTo(records, i) = k /\ EventsOf(request)[k] = records[i]
                 /\ EventsOf(request)[k].body = <<request.by, request.n, i>>
                 /\ EventsOf(request)[k].body \in Bodies /\ IsEvent(EventsOf(request)[k])
    OBVIOUS
  <2>1. PICK i \in 1..n : /\ IsEvent(records[i]) /\ EventsUpTo(records, i) = k
                          /\ EventsOf(request)[k] = RecordAt(request, i)
    BY <1>1
  <2>2. EventsOf(request)[k] = records[i]
    BY <1>2, <2>1
  <2>3. EventsOf(request)[k].body = <<request.by, request.n, i>>
        /\ EventsOf(request)[k].body \in Bodies /\ IsEvent(EventsOf(request)[k])
    BY <1>2, <2>1, <2>2
  <2> QED
    BY <2>1, <2>2, <2>3
<1>4. ASSUME NEW j \in 1..m, NEW k \in 1..m, EventsOf(request)[j].body = EventsOf(request)[k].body
      PROVE  j = k
  <2>1. PICK a \in 1..n : /\ EventsUpTo(records, a) = j
                          /\ EventsOf(request)[j].body = <<request.by, request.n, a>>
    BY <1>3
  <2>2. PICK b \in 1..n : /\ EventsUpTo(records, b) = k
                          /\ EventsOf(request)[k].body = <<request.by, request.n, b>>
    BY <1>3
  <2>3. EventsOf(request)[j].body[3] = a /\ EventsOf(request)[k].body[3] = b
    BY <2>1, <2>2
  <2>4. a = b
    BY <1>4, <2>3
  <2> QED
    BY <2>1, <2>2, <2>4
<1>5. ASSUME NEW k \in 1..m
      PROVE  /\ EventsOf(request)[k].body[1] = request.by
             /\ EventsOf(request)[k].body[2] = request.n
             /\ EventsOf(request)[k].body \in Bodies /\ IsEvent(EventsOf(request)[k])
  BY <1>3
<1> QED
  BY <1>1, <1>4, <1>5

(* What a job writes is its request: with its batch all records, without   *)
(* one the events; either way every event, at its place among the events.  *)
LEMMA PlanIs ==
  ASSUME NEW request \in Requests, NEW batch \in {Nobody, request},
         NEW plan, plan = Planned(request, batch)
  PROVE  /\ Len(plan) \in Nat /\ DOMAIN plan = 1..Len(plan)
         /\ \A i \in DOMAIN plan : /\ plan[i].body[1] = request.by
                                   /\ plan[i].body[2] = request.n
                                   /\ plan[i].body \in Bodies
         /\ \A i, j \in DOMAIN plan : plan[i].body = plan[j].body => i = j
         /\ \A k \in DOMAIN EventsOf(request) : \E i \in DOMAIN plan :
              /\ IsEvent(plan[i]) /\ plan[i].body = EventsOf(request)[k].body
              /\ EventsUpTo(plan, i) = k
<1> DEFINE events == EventsOf(request)
           records == RecordsOf(request)
           n == Len(records)
<1>1. /\ Len(events) \in Nat /\ DOMAIN events = 1..Len(events)
      /\ \A k \in DOMAIN events : /\ events[k].body[1] = request.by
                                  /\ events[k].body[2] = request.n
                                  /\ events[k].body \in Bodies
                                  /\ IsEvent(events[k])
      /\ \A j, k \in DOMAIN events : events[j].body = events[k].body => j = k
  BY EventBodies
<1>2. CASE batch = Nobody
  <2>1. plan = events
    BY <1>2 DEF Planned
  <2> HIDE DEF events
  <2>2. ASSUME NEW k \in DOMAIN events PROVE EventsUpTo(events, k) = k
    <3>1. k \in Nat /\ \A j \in 1..k : ~IsDraft(events[j])
      BY <1>1 DEF IsEvent
    <3>2. {j \in 1..k : ~IsDraft(events[j])} = 1..k
      BY <3>1
    <3>3. Cardinality(1..k) = k
      <4>1. 1 \in Int /\ k \in Int /\ k >= 1
        BY <1>1
      <4>2. Cardinality(1..k) = IF 1 > k THEN 0 ELSE k - 1 + 1
        BY <4>1, FS_Interval
      <4> QED
        BY <4>1, <4>2
    <3> QED
      BY <3>2, <3>3 DEF EventsUpTo
  <2>3. \A k \in DOMAIN events : \E i \in DOMAIN events :
          /\ IsEvent(events[i]) /\ events[i].body = events[k].body
          /\ EventsUpTo(events, i) = k
    BY <1>1, <2>2
  <2> QED
    BY <1>1, <2>1, <2>3 DEF events
<1>3. CASE batch = request /\ batch # Nobody
  <2>1. /\ n \in Nat /\ DOMAIN records = 1..n /\ request.by \in Writers
        /\ \A i \in 1..n : /\ records[i] = RecordAt(request, i)
                           /\ records[i].body = <<request.by, request.n, i>>
                           /\ records[i].body \in Bodies
    BY RequestIs
  <2> DEFINE m == EventsIn(records)
  <2>2. /\ DOMAIN events = 1..m
        /\ \A i \in 1..n : IsEvent(records[i]) =>
              events[EventsUpTo(records, i)] = RecordAt(request, i)
        /\ \A k \in 1..m : \E i \in 1..n :
              /\ IsEvent(records[i]) /\ EventsUpTo(records, i) = k
              /\ events[k] = RecordAt(request, i)
    BY EventsOfAre
  <2>3. plan = [i \in DOMAIN records |->
                 IF IsDraft(records[i]) THEN records[i] ELSE events[EventsUpTo(records, i)]]
    BY <1>3 DEF Planned
  <2>4. records = [i \in 1..n |-> records[i]]
    BY DEF RecordsOf
  <2> HIDE DEF records, events, n, m
  <2>5. \A i \in 1..n : plan[i] = records[i]
    BY <2>1, <2>2, <2>3 DEF IsEvent
  <2>6. DOMAIN plan = 1..n /\ plan = [i \in 1..n |-> plan[i]]
    BY <2>1, <2>3
  <2>7. plan = records
    BY <2>4, <2>5, <2>6
  <2>8. ASSUME NEW i \in 1..n
        PROVE  /\ records[i].body[1] = request.by /\ records[i].body[2] = request.n
               /\ records[i].body[3] = i
    BY <2>1
  <2>9. \A i, j \in 1..n : records[i].body = records[j].body => i = j
    <3> SUFFICES ASSUME NEW i \in 1..n, NEW j \in 1..n, records[i].body = records[j].body
                 PROVE  i = j
      OBVIOUS
    <3> QED
      BY <2>8
  <2>10. \A k \in DOMAIN events : \E i \in 1..n :
           /\ IsEvent(records[i]) /\ records[i].body = events[k].body
           /\ EventsUpTo(records, i) = k
    BY <2>1, <2>2
  <2> QED
    BY <2>1, <2>7, <2>8, <2>9, <2>10 DEF n, events
<1> QED
  BY <1>2, <1>3

-----------------------------------------------------------------------------
(* The inductive invariant: the table, the requests under way, and what is *)
(* written of the requests.                                                *)
LogInv == Table(rows, next_id, sequence.last)

(* The events of a request are next to each other, under one revision.     *)
PlacedIn(set, last, rev, request) ==
  \E first \in 0..last, v \in 1..rev :
    \A i \in DOMAIN EventsOf(request) :
      \E r \in set : /\ r.body = EventsOf(request)[i].body
                     /\ r.seq = first + i /\ r.rev = v

Placed(request) == PlacedIn(rows, sequence.last, revision, request)

(* Of a request nothing was written.                                       *)
Unwritten(w, n) == \A r \in rows : ~(r.body[1] = w /\ r.body[2] = n)

HasJob(w) == \E p \in Processes : \E i \in DOMAIN jobs[p] : jobs[p][i].request.by = w

(* A job is for the last request of its writer, which waits for it or has  *)
(* stopped, and it is the only one of this writer: a writer in doubt has   *)
(* no second attempt under way.                                            *)
JobFits(p, i) ==
  LET job == jobs[p][i]
      w   == job.request.by
  IN /\ home[w] = p
     /\ writer[w].phase \in {"waiting", "stopped"}
     /\ answers[w] # <<>>
     /\ job.request = answers[w][Current(w)].request
     /\ answers[w][Current(w)].told = "unknown"
     /\ job.expected = writer[w].revision
     /\ \A j \in DOMAIN jobs[p] : jobs[p][j].request.by = w => j = i

(* A job fits as long as nothing it is about changes.                      *)
LEMMA FitStays ==
  ASSUME NEW p, NEW i, JobFits(p, i),
         home' = home, jobs' = jobs, writer' = writer, answers' = answers
  PROVE  JobFits(p, i)'
<1>1. Current(jobs[p][i].request.by)' = Current(jobs[p][i].request.by)
  BY DEF Current
<1> QED
  BY <1>1 DEF JobFits

JobsAt(p) ==
  /\ \A i \in DOMAIN jobs[p] : JobFits(p, i)
  /\ taken[p] # Nobody /\ taken[p].batch # Nobody =>
       taken[p].batch = Head(jobs[p]).request

(* A writer's batch is its last request.  As long as the revision it knows *)
(* is the session's, or it is not in doubt, nothing of it was written: a   *)
(* commit it was not told of raised the revision, and a later attempt for  *)
(* the revision before is a conflict.                                      *)
AsksAt(w) ==
  /\ \A n \in DOMAIN answers[w] : answers[w][n].request.n = n
  /\ host[w] # Nobody =>
       answers[w] # <<>> /\ host[w] = answers[w][Current(w)].request
  /\ writer[w].revision <= revision
  /\ (Asks(writer[w]) \/ HasJob(w)) /\ writer[w].revision = revision =>
       Unwritten(w, Current(w))
  /\ Asks(writer[w]) /\ ~writer[w].doubt => Unwritten(w, Current(w))

AskInv == (\A p \in Processes : JobsAt(p)) /\ (\A w \in Writers : AsksAt(w))

(* What is written was asked for, once, and its events are in place.       *)
WrittenInv ==
  /\ \A r \in rows : r.body[1] \in Writers =>
       /\ r.body[2] \in DOMAIN answers[r.body[1]]
       /\ Placed(answers[r.body[1]][r.body[2]].request)
  /\ \A q, r \in rows : q.body = r.body /\ q.body[1] \in Writers => q = r
  /\ resume # Nobody =>
       \E w \in Writers : \E n \in DOMAIN answers[w] :
         resume = <<w, n>> /\ Placed(answers[w][n].request)

ToldInv ==
  \A w \in Writers : \A n \in DOMAIN answers[w] :
    /\ answers[w][n].told = "stored" => Placed(answers[w][n].request)
    /\ answers[w][n].told = "refused" => Unwritten(w, n)

KeptInv == FenceInv /\ LogInv /\ AskInv /\ WrittenInv /\ ToldInv

-----------------------------------------------------------------------------
(* How the table may change, whoever changes it.                           *)
Grows ==
  /\ sequence'.last \in Nat /\ sequence.last <= sequence'.last
  /\ revision' \in {revision, revision + 1}
  /\ \A r \in rows : r.seq # 0 => r \in rows'
  /\ \E mid \in Nat : \A q \in rows' : q.seq > sequence.last =>
       \/ q.seq <= mid /\ q.rev = 0
       \/ q.seq > mid /\ q.rev = revision' /\ revision' = revision + 1

(* Nothing is written of a request that was not there.                     *)
Foreign ==
  /\ \A q \in rows' : q.body[1] \in Writers => \E r \in rows : r.body = q.body
  /\ \A q, r \in rows' : q.body = r.body /\ q.body[1] \in Writers => q = r

AnswersKept ==
  \A w \in Writers : \A n \in DOMAIN answers[w] :
    n \in DOMAIN answers'[w] /\ answers'[w][n].request = answers[w][n].request

LEMMA SeqIs ==
  ASSUME NEW S, NEW s \in Seq(S)
  PROVE  /\ Len(s) \in Nat /\ DOMAIN s = 1..Len(s)
         /\ \A n \in DOMAIN s : s[n] \in S /\ n \in Nat
OBVIOUS

LEMMA Typed ==
  ASSUME FenceInv
  PROVE  /\ revision \in Nat
         /\ \A w \in Writers :
              /\ answers[w] \in Seq([request : Requests, told : Answers])
              /\ Len(answers[w]) \in Nat /\ DOMAIN answers[w] = 1..Len(answers[w])
              /\ \A n \in DOMAIN answers[w] :
                   /\ answers[w][n].request \in Requests
                   /\ answers[w][n].request.by = w
                   /\ n \in Nat
              /\ writer[w].revision \in Nat
         /\ \A p \in Processes :
              /\ jobs[p] \in Seq(Jobs) /\ Len(jobs[p]) \in Nat
              /\ DOMAIN jobs[p] = 1..Len(jobs[p])
              /\ \A i \in DOMAIN jobs[p] :
                   /\ jobs[p][i].request \in Requests
                   /\ jobs[p][i].request.by \in Writers
<1>1. ASSUME NEW w \in Writers
      PROVE  /\ answers[w] \in Seq([request : Requests, told : Answers])
             /\ Len(answers[w]) \in Nat /\ DOMAIN answers[w] = 1..Len(answers[w])
             /\ writer[w].revision \in Nat
  <2>1. answers[w] \in Seq([request : Requests, told : Answers]) /\ writer[w].revision \in Nat
    BY DEF FenceInv, TypeInv
  <2> QED
    BY <2>1, SeqIs
<1>2. ASSUME NEW w \in Writers, NEW n \in DOMAIN answers[w]
      PROVE  answers[w][n].request \in Requests /\ answers[w][n].request.by = w /\ n \in Nat
  <2>1. answers[w][n] \in [request : Requests, told : Answers] /\ n \in Nat
    BY <1>1, SeqIs
  <2> QED
    BY <2>1 DEF FenceInv, WriterInv
<1>3. ASSUME NEW p \in Processes
      PROVE  /\ jobs[p] \in Seq(Jobs) /\ Len(jobs[p]) \in Nat
             /\ DOMAIN jobs[p] = 1..Len(jobs[p])
  BY DEF FenceInv, TypeInv
<1>4. ASSUME NEW p \in Processes, NEW i \in DOMAIN jobs[p]
      PROVE  jobs[p][i].request \in Requests /\ jobs[p][i].request.by \in Writers
  <2>1. jobs[p][i] \in Jobs
    BY <1>3
  <2> QED
    BY <2>1 DEF Jobs, Requests
<1> QED
  BY <1>1, <1>2, <1>3, <1>4 DEF FenceInv, TypeInv

LEMMA PlacedStays ==
  ASSUME NEW set, NEW set2, NEW last \in Nat, NEW last2 \in Nat, last <= last2,
         NEW rev \in Nat, NEW rev2 \in Nat, rev <= rev2,
         \A r \in set : r.seq # 0 => r \in set2,
         NEW request \in Requests, PlacedIn(set, last, rev, request)
  PROVE  PlacedIn(set2, last2, rev2, request)
<1>1. PICK first \in 0..last, v \in 1..rev :
        \A i \in DOMAIN EventsOf(request) :
          \E r \in set : /\ r.body = EventsOf(request)[i].body
                         /\ r.seq = first + i /\ r.rev = v
  BY DEF PlacedIn
<1>2. first \in 0..last2 /\ v \in 1..rev2
  OBVIOUS
<1>3. ASSUME NEW i \in DOMAIN EventsOf(request)
      PROVE  \E r \in set2 : /\ r.body = EventsOf(request)[i].body
                             /\ r.seq = first + i /\ r.rev = v
  <2>1. PICK r \in set : /\ r.body = EventsOf(request)[i].body
                         /\ r.seq = first + i /\ r.rev = v
    BY <1>1
  <2>2. i \in Nat \ {0}
    BY EventBodies
  <2>3. r.seq # 0
    BY <1>2, <2>1, <2>2
  <2> QED
    BY <2>1, <2>3
<1> QED
  BY <1>2, <1>3 DEF PlacedIn

LEMMA StaysPlaced ==
  ASSUME KeptInv, Grows, NEW request \in Requests, Placed(request)
  PROVE  Placed(request)'
<1>1. /\ sequence.last \in Nat /\ sequence'.last \in Nat /\ sequence.last <= sequence'.last
      /\ revision \in Nat /\ revision' \in Nat /\ revision <= revision'
      /\ \A r \in rows : r.seq # 0 => r \in rows'
  BY DEF KeptInv, FenceInv, TypeInv, LogInv, Table, Grows
<1>2. PlacedIn(rows', sequence'.last, revision', request)
  BY <1>1, PlacedStays DEF Placed
<1> QED
  BY <1>2 DEF Placed

LEMMA AnswerStaysPlaced ==
  ASSUME KeptInv, Grows, AnswersKept,
         NEW w \in Writers, NEW n \in DOMAIN answers[w], Placed(answers[w][n].request)
  PROVE  /\ n \in DOMAIN answers'[w]
         /\ PlacedIn(rows', sequence'.last, revision', answers'[w][n].request)
<1> DEFINE request == answers[w][n].request
<1>1. n \in DOMAIN answers'[w] /\ answers'[w][n].request = request
  BY DEF AnswersKept
<1>2. request \in Requests /\ Placed(request)
  BY Typed DEF KeptInv
<1> HIDE DEF request
<1>3. PICK x \in Requests : x = request
  BY <1>2
<1>4. Placed(x)'
  BY <1>2, <1>3, StaysPlaced
<1> QED
  BY <1>1, <1>3, <1>4 DEF Placed

LEMMA WrittenStays ==
  ASSUME KeptInv, Grows, Foreign, AnswersKept, resume' = resume
  PROVE  WrittenInv'
<1>1. ASSUME NEW q \in rows', q.body[1] \in Writers
      PROVE  /\ q.body[2] \in DOMAIN answers'[q.body[1]]
             /\ PlacedIn(rows', sequence'.last, revision',
                         answers'[q.body[1]][q.body[2]].request)
  <2>1. PICK r \in rows : r.body = q.body
    BY <1>1 DEF Foreign
  <2>2. /\ q.body[2] \in DOMAIN answers[q.body[1]]
        /\ Placed(answers[q.body[1]][q.body[2]].request)
    BY <1>1, <2>1 DEF KeptInv, WrittenInv
  <2> QED
    BY <1>1, <2>2, AnswerStaysPlaced
<1>2. \A q, r \in rows' : q.body = r.body /\ q.body[1] \in Writers => q = r
  BY DEF Foreign
<1>3. ASSUME resume' # Nobody
      PROVE  \E w \in Writers : \E n \in DOMAIN answers'[w] :
               /\ resume' = <<w, n>>
               /\ PlacedIn(rows', sequence'.last, revision', answers'[w][n].request)
  <2>1. PICK w \in Writers : \E n \in DOMAIN answers[w] :
          resume = <<w, n>> /\ Placed(answers[w][n].request)
    BY <1>3 DEF KeptInv, WrittenInv
  <2>2. PICK n \in DOMAIN answers[w] : resume = <<w, n>> /\ Placed(answers[w][n].request)
    BY <2>1
  <2> QED
    BY <2>2, AnswerStaysPlaced
<1> QED
  BY <1>1, <1>2, <1>3 DEF WrittenInv, Placed

LEMMA ToldStays ==
  ASSUME KeptInv, Grows, Foreign, AnswersKept,
         \A w \in Writers : \A n \in DOMAIN answers'[w] :
           \/ n \in DOMAIN answers[w] /\ answers'[w][n].told = answers[w][n].told
           \/ answers'[w][n].told = "unknown"
           \/ answers'[w][n].told = "refused" /\ Unwritten(w, n)
  PROVE  ToldInv'
<1>1. \A w \in Writers : \A n \in DOMAIN answers[w] : answers[w][n].request \in Requests
  BY Typed DEF KeptInv
<1>2. ASSUME NEW w \in Writers, NEW n, Unwritten(w, n)
      PROVE  Unwritten(w, n)'
  BY <1>2 DEF Unwritten, Foreign
<1>3. ASSUME NEW w \in Writers, NEW n \in DOMAIN answers'[w], answers'[w][n].told = "stored"
      PROVE  PlacedIn(rows', sequence'.last, revision', answers'[w][n].request)
  <2>1. n \in DOMAIN answers[w] /\ answers[w][n].told = "stored"
    BY <1>3
  <2>2. PICK x \in Requests : x = answers[w][n].request /\ x = answers'[w][n].request
    BY <1>1, <2>1 DEF AnswersKept
  <2>3. Placed(x)
    BY <2>1, <2>2 DEF KeptInv, ToldInv
  <2>4. Placed(x)'
    BY <2>3, StaysPlaced
  <2> QED
    BY <2>2, <2>4 DEF Placed
<1>4. ASSUME NEW w \in Writers, NEW n \in DOMAIN answers'[w], answers'[w][n].told = "refused"
      PROVE  Unwritten(w, n)'
  <2>1. CASE n \in DOMAIN answers[w] /\ answers[w][n].told = "refused"
    BY <1>2, <2>1 DEF KeptInv, ToldInv
  <2>2. CASE Unwritten(w, n)
    BY <1>2, <2>2
  <2> QED
    BY <1>4, <2>1, <2>2
<1> QED
  BY <1>3, <1>4 DEF ToldInv, Placed

(* The jobs of a step that leaves them alone.                              *)
LEMMA JobsStay ==
  ASSUME KeptInv, home' = home, jobs' = jobs, taken' = taken,
         \A w \in Writers : HasJob(w) =>
           /\ writer'[w].phase \in {"waiting", "stopped"}
           /\ writer'[w].revision = writer[w].revision
           /\ answers'[w] = answers[w]
  PROVE  \A p \in Processes : JobsAt(p)'
<1> SUFFICES ASSUME NEW p \in Processes
             PROVE  JobsAt(p)'
  OBVIOUS
<1>1. ASSUME NEW i \in DOMAIN jobs[p]
      PROVE  JobFits(p, i)'
  <2>1. JobFits(p, i)
    BY DEF KeptInv, AskInv, JobsAt
  <2>2. jobs[p][i].request.by \in Writers /\ HasJob(jobs[p][i].request.by)
    BY Typed DEF KeptInv, HasJob
  <2> QED
    BY <2>1, <2>2 DEF JobFits, Current
<1> QED
  BY <1>1 DEF JobsAt, KeptInv, AskInv

(* A writer that does nothing, or only stops.                              *)
LEMMA AsksStayOf ==
  ASSUME KeptInv, Grows, NEW u \in Writers,
         \A q \in rows' : q.body[1] = u => \E r \in rows : r.body = q.body,
         answers'[u] = answers[u], host'[u] \in {host[u], Nobody},
         writer'[u].revision = writer[u].revision,
         Asks(writer'[u]) => Asks(writer[u]) /\ (~writer'[u].doubt => ~writer[u].doubt),
         HasJob(u)' => HasJob(u)
  PROVE  AsksAt(u)'
<1>1. AsksAt(u) /\ revision \in Nat /\ writer[u].revision \in Nat
  BY Typed DEF KeptInv, AskInv
<1>3. revision' \in {revision, revision + 1}
  BY DEF Grows
<1>4. Unwritten(u, Current(u)) => Unwritten(u, Current(u))'
  BY DEF Unwritten, Current
<1>5. (Asks(writer'[u]) \/ HasJob(u)') /\ writer'[u].revision = revision' =>
        Unwritten(u, Current(u))'
  BY <1>1, <1>3, <1>4 DEF AsksAt
<1>6. Asks(writer'[u]) /\ ~writer'[u].doubt => Unwritten(u, Current(u))'
  BY <1>1, <1>4 DEF AsksAt
<1>7. writer'[u].revision <= revision'
  BY <1>1, <1>3 DEF AsksAt
<1>8. /\ \A n \in DOMAIN answers'[u] : answers'[u][n].request.n = n
      /\ host'[u] # Nobody =>
           answers'[u] # <<>> /\ host'[u] = answers'[u][Current(u)'].request
  BY <1>1 DEF AsksAt, Current
<1> QED
  BY <1>5, <1>6, <1>7, <1>8 DEF AsksAt, Asks, HasJob

LEMMA AsksStay ==
  ASSUME KeptInv, Grows, Foreign, NEW u \in Writers,
         answers'[u] = answers[u], host'[u] \in {host[u], Nobody},
         writer'[u].revision = writer[u].revision,
         Asks(writer'[u]) => Asks(writer[u]) /\ (~writer'[u].doubt => ~writer[u].doubt),
         HasJob(u)' => HasJob(u)
  PROVE  AsksAt(u)'
BY AsksStayOf DEF Foreign

(* A step that leaves the table alone.                                     *)
LEMMA TableAlone ==
  ASSUME KeptInv, UNCHANGED tableVars
  PROVE  Grows /\ Foreign /\ LogInv' /\ resume' = resume
<1>1. /\ rows' = rows /\ sequence' = sequence /\ revision' = revision
      /\ next_id' = next_id /\ resume' = resume
  BY DEF tableVars
<1>2. LogInv'
  BY <1>1 DEF KeptInv, LogInv
<1>3. sequence.last \in Nat /\ \A r \in rows : r.seq \in 0..sequence.last
  BY DEF KeptInv, LogInv, Table, RowIn
<1>4. Grows
  <2>1. 0 \in Nat /\ \A q \in rows' : ~(q.seq > sequence.last)
    BY <1>1, <1>3
  <2> QED
    BY <1>1, <1>3, <2>1 DEF Grows
<1>5. Foreign
  BY <1>1 DEF Foreign, KeptInv, WrittenInv
<1> QED
  BY <1>1, <1>2, <1>4, <1>5

-----------------------------------------------------------------------------
(* Each step keeps the invariant, and the table only grows.                *)
LEMMA NoJob ==
  ASSUME KeptInv, NEW w \in Writers, writer[w].phase \notin {"waiting", "stopped"}
  PROVE  ~HasJob(w)
BY DEF KeptInv, AskInv, JobsAt, JobFits, HasJob

LEMMA NewIsUnwritten ==
  ASSUME KeptInv, NEW w \in Writers
  PROVE  Unwritten(w, Len(answers[w]) + 1)
<1>1. Len(answers[w]) \in Nat /\ DOMAIN answers[w] = 1..Len(answers[w])
  BY Typed DEF KeptInv
<1>2. Len(answers[w]) + 1 \notin DOMAIN answers[w]
  BY <1>1
<1> QED
  BY <1>2 DEF Unwritten, KeptInv, WrittenInv

(* What telling a writer changes.                                          *)
LEMMA ToldIs ==
  ASSUME KeptInv, NEW w \in Writers, NEW what, Told(w, what), answers[w] # <<>>
  PROVE  /\ \A u \in Writers : u # w => answers'[u] = answers[u]
         /\ answers'[w] # <<>> /\ Len(answers'[w]) = Len(answers[w])
         /\ DOMAIN answers'[w] = DOMAIN answers[w] /\ Current(w) \in DOMAIN answers[w]
         /\ \A n \in DOMAIN answers[w] :
              /\ answers'[w][n].request = answers[w][n].request
              /\ n # Current(w) => answers'[w][n] = answers[w][n]
         /\ answers'[w][Current(w)].told = what
<1> DEFINE S == [request : Requests, told : Answers]
           old == answers[w]
           n == Len(old)
           e == [old[n] EXCEPT !.told = what]
           new == [old EXCEPT ![n] = e]
<1>1. DOMAIN answers = Writers
  BY DEF KeptInv, FenceInv, TypeInv
<1>2. old \in Seq(S) /\ n \in Nat /\ DOMAIN old = 1..n
  BY Typed DEF KeptInv
<1>3. n \in DOMAIN old
  BY <1>2
<1>4. old[n] \in S
  <2> HIDE DEF S
  <2> QED
    BY <1>2, <1>3, SeqIs
<1>5. e.request = old[n].request /\ e.told = what
  BY <1>4
<1>6. answers' = [answers EXCEPT ![w] = new]
  BY DEF Told, Current
<1> HIDE DEF S, e
<1>7. /\ DOMAIN new = DOMAIN old /\ new[n] = e /\ Len(new) = n /\ new # <<>>
      /\ \A i \in DOMAIN old : i # n => new[i] = old[i]
  BY <1>2, <1>3
<1> HIDE DEF new
<1>8. answers'[w] = new /\ \A u \in Writers : u # w => answers'[u] = answers[u]
  BY <1>1, <1>6
<1> QED
  BY <1>3, <1>5, <1>7, <1>8 DEF Current

LEMMA StageKeeps ==
  ASSUME KeptInv, NEW w \in Writers, NEW shape \in Shapes, Stage(w, shape)
  PROVE  Grows /\ LogInv' /\ AskInv' /\ WrittenInv' /\ ToldInv'
<1> DEFINE request == [by |-> w, n |-> Len(answers[w]) + 1, shape |-> shape]
           new == [request |-> request, told |-> "refused"]
           S == [request : Requests, told : Answers]
<1>1. UNCHANGED tableVars /\ home' = home /\ jobs' = jobs /\ taken' = taken
      /\ writer[w].phase = "ready"
  BY DEF Stage, threadVars
<1>2. Grows /\ Foreign /\ LogInv' /\ resume' = resume
  BY <1>1, TableAlone
<1>3. /\ DOMAIN answers = Writers /\ DOMAIN writer = Writers /\ DOMAIN host = Writers
      /\ IsWriter(writer[w])
  BY DEF KeptInv, FenceInv, TypeInv, WriterInv
<1>4. answers[w] \in Seq(S) /\ Len(answers[w]) \in Nat /\ DOMAIN answers[w] = 1..Len(answers[w])
  BY Typed DEF KeptInv
<1>5. ~HasJob(w) /\ \A u \in Writers : (HasJob(u)' => HasJob(u)) /\ (HasJob(u) => HasJob(u)')
  BY <1>1, NoJob DEF HasJob
<1>6. ASSUME NEW u \in Writers, HasJob(u)
      PROVE  u # w /\ writer[u].phase \in {"waiting", "stopped"}
  BY <1>1, <1>6, NoJob
<1>7. CASE host[w] = Nobody
  <2>1. /\ host' = [host EXCEPT ![w] = request]
        /\ writer' = [writer EXCEPT ![w] =
             [@ EXCEPT !.phase = "asking", !.tries = 0, !.doubt = FALSE]]
        /\ answers' = [answers EXCEPT ![w] = Append(@, new)]
    BY <1>7 DEF Stage
  <2>2. request.n = Len(answers[w]) + 1 /\ new.request = request /\ new.told = "refused"
        /\ request \in Requests /\ new \in S
    BY <1>4 DEF Requests, Answers
  <2>3. \A u \in Writers : u # w =>
          answers'[u] = answers[u] /\ writer'[u] = writer[u] /\ host'[u] = host[u]
    BY <1>3, <2>1
  <2>4. /\ host'[w] = request
        /\ writer'[w].phase = "asking" /\ writer'[w].doubt = FALSE
        /\ writer'[w].revision = writer[w].revision
    BY <1>3, <2>1 DEF IsWriter
  <2>5. answers'[w] = Append(answers[w], new)
    BY <1>3, <2>1
  <2> HIDE DEF request, new, S
  <2>6. /\ answers'[w] # <<>> /\ DOMAIN answers'[w] = 1..(Len(answers[w]) + 1)
        /\ Len(answers'[w]) = Len(answers[w]) + 1
        /\ answers'[w][Len(answers[w]) + 1] = new
        /\ \A n \in DOMAIN answers[w] : answers'[w][n] = answers[w][n]
    BY <1>4, <2>2, <2>5, AppendIs
  <2>7. AnswersKept
    <3>1. \A n \in DOMAIN answers[w] : n \in DOMAIN answers'[w]
      BY <1>4, <2>6
    <3> QED
      BY <2>3, <2>6, <3>1 DEF AnswersKept
  <2>8. \A u \in Writers : \A n \in DOMAIN answers'[u] :
          \/ n \in DOMAIN answers[u] /\ answers'[u][n].told = answers[u][n].told
          \/ answers'[u][n].told = "refused" /\ Unwritten(u, n)
    <3>1. \A n \in DOMAIN answers'[w] : n \in DOMAIN answers[w] \/ n = Len(answers[w]) + 1
      BY <1>4, <2>6
    <3> QED
      BY <2>2, <2>3, <2>6, <3>1, NewIsUnwritten
  <2>9. WrittenInv' /\ ToldInv'
    BY <1>2, <2>7, <2>8, WrittenStays, ToldStays
  <2>10. \A p \in Processes : JobsAt(p)'
    BY <1>1, <1>6, <2>3, JobsStay
  <2>11. ASSUME NEW u \in Writers, u # w PROVE AsksAt(u)'
    BY <1>2, <1>5, <2>3, <2>11, AsksStay
  <2>12. AsksAt(w)'
    <3>1. \A r \in rows' : ~(r.body[1] = w /\ r.body[2] = Len(answers[w]) + 1)
      BY <1>1, NewIsUnwritten DEF Unwritten, tableVars
    <3>2. AsksAt(w) /\ revision' = revision
      BY <1>1 DEF KeptInv, AskInv, tableVars
    <3>3. Current(w)' = Len(answers[w]) + 1 /\ Current(w)' = Len(answers'[w])
      BY <2>6 DEF Current
    <3>4. \A n \in DOMAIN answers'[w] : answers'[w][n].request.n = n
      <4>1. \A n \in DOMAIN answers'[w] : n \in DOMAIN answers[w] \/ n = Len(answers[w]) + 1
        BY <1>4, <2>6
      <4> QED
        BY <2>2, <2>6, <3>2, <4>1 DEF AsksAt
    <3>5. host'[w] = answers'[w][Current(w)'].request /\ answers'[w] # <<>>
      BY <2>2, <2>4, <2>6, <3>3
    <3>6. writer'[w].revision <= revision'
      BY <2>4, <3>2 DEF AsksAt
    <3>7. Unwritten(w, Current(w))'
      BY <3>1, <3>3 DEF Unwritten
    <3> QED
      BY <3>4, <3>5, <3>6, <3>7 DEF AsksAt
  <2>13. AskInv'
    BY <2>10, <2>11, <2>12 DEF AskInv
  <2> QED
    BY <1>2, <2>9, <2>13
<1>8. CASE host[w] # Nobody
  <2>1. /\ host' = [host EXCEPT ![w] = Nobody]
        /\ writer' = [writer EXCEPT ![w].phase = "stopped"]
        /\ answers' = answers
    BY <1>8 DEF Stage
  <2>2. \A u \in Writers : u # w => writer'[u] = writer[u] /\ host'[u] = host[u]
    BY <1>3, <2>1
  <2>3. /\ host'[w] = Nobody /\ writer'[w].phase = "stopped"
        /\ writer'[w].revision = writer[w].revision
    BY <1>3, <2>1 DEF IsWriter
  <2>4. AnswersKept
    BY <2>1 DEF AnswersKept
  <2>5. WrittenInv' /\ ToldInv'
    BY <1>2, <2>1, <2>4, WrittenStays, ToldStays
  <2>6. \A p \in Processes : JobsAt(p)'
    BY <1>1, <1>6, <2>1, <2>2, JobsStay
  <2>7. ASSUME NEW u \in Writers PROVE AsksAt(u)'
    <3>1. Asks(writer'[u]) => u # w
      BY <2>3 DEF Asks
    <3> QED
      BY <1>2, <1>5, <2>1, <2>2, <2>3, <3>1, AsksStay
  <2> QED
    BY <1>2, <2>5, <2>6, <2>7 DEF AskInv
<1> QED
  BY <1>7, <1>8

LEMMA StopKeeps ==
  ASSUME KeptInv, NEW w \in Writers, Stop(w)
  PROVE  Grows /\ LogInv' /\ AskInv' /\ WrittenInv' /\ ToldInv'
<1>1. UNCHANGED tableVars /\ home' = home /\ jobs' = jobs /\ taken' = taken
      /\ answers' = answers /\ host' = [host EXCEPT ![w] = Nobody]
      /\ writer' = [writer EXCEPT ![w].phase = "stopped"]
  BY DEF Stop, threadVars
<1>2. Grows /\ Foreign /\ LogInv' /\ resume' = resume
  BY <1>1, TableAlone
<1>3. DOMAIN writer = Writers /\ DOMAIN host = Writers /\ IsWriter(writer[w])
  BY DEF KeptInv, FenceInv, TypeInv, WriterInv
<1>4. \A u \in Writers : u # w => writer'[u] = writer[u] /\ host'[u] = host[u]
  BY <1>1, <1>3
<1>5. /\ host'[w] = Nobody /\ writer'[w].phase = "stopped"
      /\ writer'[w].revision = writer[w].revision
  BY <1>1, <1>3 DEF IsWriter
<1>6. AnswersKept
  BY <1>1 DEF AnswersKept
<1>7. WrittenInv' /\ ToldInv'
  BY <1>1, <1>2, <1>6, WrittenStays, ToldStays
<1>8. ASSUME NEW u \in Writers, HasJob(u)
      PROVE  /\ writer'[u].phase \in {"waiting", "stopped"}
             /\ writer'[u].revision = writer[u].revision
  BY <1>4, <1>5, <1>8, NoJob
<1>9. \A p \in Processes : JobsAt(p)'
  BY <1>1, <1>8, JobsStay
<1>10. ASSUME NEW u \in Writers PROVE AsksAt(u)'
  <2>1. Asks(writer'[u]) => u # w
    BY <1>5 DEF Asks
  <2>2. HasJob(u)' => HasJob(u)
    BY <1>1 DEF HasJob
  <2> QED
    BY <1>1, <1>2, <1>4, <1>5, <2>1, <2>2, AsksStay
<1> QED
  BY <1>2, <1>7, <1>9, <1>10 DEF AskInv

LEMMA SubmitKeeps ==
  ASSUME KeptInv, NEW w \in Writers, Submit(w)
  PROVE  Grows /\ LogInv' /\ AskInv' /\ WrittenInv' /\ ToldInv'
<1> DEFINE job == [request |-> answers[w][Current(w)].request, token |-> writer[w].token,
                   expected |-> writer[w].revision]
           p == home[w]
<1>1. UNCHANGED tableVars /\ home' = home /\ host' = host /\ taken' = taken
      /\ writer[w].phase = "asking" /\ Told(w, "unknown")
      /\ jobs' = [jobs EXCEPT ![p] = Append(@, job)]
      /\ writer' = [writer EXCEPT ![w].phase = "waiting", ![w].tries = @ + 1]
  BY DEF Submit
<1>2. Grows /\ Foreign /\ LogInv' /\ resume' = resume
  BY <1>1, TableAlone
<1>3. DOMAIN writer = Writers /\ IsWriter(writer[w]) /\ p \in Processes /\ DOMAIN jobs = Processes
  BY DEF KeptInv, FenceInv, TypeInv
<1>4. answers[w] # <<>>
  BY <1>1 DEF KeptInv, FenceInv, WriterInv, Asks
<1>5. /\ \A u \in Writers : u # w => answers'[u] = answers[u]
      /\ answers'[w] # <<>> /\ Len(answers'[w]) = Len(answers[w])
      /\ DOMAIN answers'[w] = DOMAIN answers[w] /\ Current(w) \in DOMAIN answers[w]
      /\ \A n \in DOMAIN answers[w] :
           /\ answers'[w][n].request = answers[w][n].request
           /\ n # Current(w) => answers'[w][n] = answers[w][n]
      /\ answers'[w][Current(w)].told = "unknown"
  BY <1>1, <1>4, ToldIs
<1>6. \A u \in Writers : u # w => writer'[u] = writer[u]
  BY <1>1, <1>3
<1>7. /\ writer'[w].phase = "waiting" /\ writer'[w].revision = writer[w].revision
      /\ writer'[w].doubt = writer[w].doubt
  BY <1>1, <1>3 DEF IsWriter
<1>8. AnswersKept
  BY <1>5 DEF AnswersKept
<1>9. \A u \in Writers : \A n \in DOMAIN answers'[u] :
        \/ n \in DOMAIN answers[u] /\ answers'[u][n].told = answers[u][n].told
        \/ answers'[u][n].told = "unknown"
  BY <1>5
<1>10. WrittenInv' /\ ToldInv'
  BY <1>2, <1>8, <1>9, WrittenStays, ToldStays
<1>11. ~HasJob(w)
  BY <1>1, NoJob
<1>12. job.request = answers[w][Current(w)].request /\ job.expected = writer[w].revision
  OBVIOUS
<1>13. job.request.by = w
  BY <1>5, Typed DEF KeptInv
<1> HIDE DEF job
<1>14. \A q \in Processes : q # p => jobs'[q] = jobs[q]
  BY <1>1, <1>3
<1>15. /\ jobs'[p] = Append(jobs[p], job)
       /\ DOMAIN jobs[p] = 1..Len(jobs[p]) /\ Len(jobs[p]) \in Nat
       /\ jobs[p] \in Seq(Jobs)
  BY <1>1, <1>3, Typed DEF KeptInv
<1>16. /\ DOMAIN jobs'[p] = 1..(Len(jobs[p]) + 1)
       /\ jobs'[p][Len(jobs[p]) + 1] = job
       /\ \A i \in DOMAIN jobs[p] : jobs'[p][i] = jobs[p][i]
       /\ jobs[p] # <<>> => Head(jobs'[p]) = Head(jobs[p])
  BY <1>15
<1>17. ASSUME NEW q \in Processes, NEW i \in DOMAIN jobs[q]
       PROVE  /\ jobs[q][i].request.by \in Writers \ {w}
              /\ jobs'[q][i] = jobs[q][i]
  BY <1>11, <1>14, <1>16, Typed DEF HasJob, KeptInv
<1>18. ASSUME NEW q \in Processes, NEW i \in DOMAIN jobs'[q]
       PROVE  i \in DOMAIN jobs[q] \/ (q = p /\ i = Len(jobs[p]) + 1)
  BY <1>14, <1>15, <1>16
<1>19. \A u \in Writers : u # w => (HasJob(u)' => HasJob(u))
  BY SMTT(30), <1>13, <1>16, <1>17, <1>18 DEF HasJob
<1>20. ASSUME NEW q \in Processes, NEW i \in DOMAIN jobs'[q]
       PROVE  JobFits(q, i)'
  <2>1. CASE i \in DOMAIN jobs[q]
    <3> DEFINE u == jobs[q][i].request.by
    <3>1. JobFits(q, i) /\ u \in Writers /\ u # w /\ jobs'[q][i] = jobs[q][i]
      BY <1>17, <2>1 DEF KeptInv, AskInv, JobsAt
    <3>2. answers'[u] = answers[u] /\ writer'[u] = writer[u]
      BY <1>5, <1>6, <3>1
    <3>3. \A j \in DOMAIN jobs'[q] : jobs'[q][j].request.by = u => j = i
      BY <1>13, <1>16, <1>17, <1>18, <3>1 DEF JobFits
    <3> QED
      BY <1>1, <3>1, <3>2, <3>3 DEF JobFits, Current
  <2>2. CASE q = p /\ i = Len(jobs[p]) + 1
    <3>1. jobs'[q][i] = job
      BY <1>16, <2>2
    <3>2. \A j \in DOMAIN jobs'[q] : jobs'[q][j].request.by = w => j = i
      BY <1>17, <1>18, <2>2
    <3>3. Current(w)' = Current(w)
      BY <1>5 DEF Current
    <3>4. /\ job.request = answers'[w][Current(w)'].request
          /\ answers'[w][Current(w)'].told = "unknown"
      BY <1>5, <1>12, <3>3
    <3>5. /\ job.expected = writer'[w].revision
          /\ writer'[w].phase \in {"waiting", "stopped"}
          /\ answers'[w] # <<>>
      BY <1>5, <1>7, <1>12
    <3>6. home'[w] = q
      BY <1>1, <2>2
    <3> QED
      BY <1>13, <3>1, <3>2, <3>4, <3>5, <3>6 DEF JobFits
  <2> QED
    BY <1>18, <2>1, <2>2
<1>21. ASSUME NEW q \in Processes, taken'[q] # Nobody, taken'[q].batch # Nobody
       PROVE  taken'[q].batch = Head(jobs'[q]).request
  <2>1. taken[q].batch = Head(jobs[q]).request /\ jobs[q] # <<>>
    BY <1>1, <1>21 DEF KeptInv, AskInv, JobsAt, FenceInv, ThreadInv
  <2>2. Head(jobs'[q]) = Head(jobs[q])
    BY <1>14, <1>16, <2>1
  <2> QED
    BY <1>1, <2>1, <2>2
<1>22. \A q \in Processes : JobsAt(q)'
  BY <1>20, <1>21 DEF JobsAt
<1>23. ASSUME NEW u \in Writers, u # w PROVE AsksAt(u)'
  BY <1>1, <1>2, <1>5, <1>6, <1>19, <1>23, AsksStay
<1>24. AsksAt(w)'
  <2>1. AsksAt(w) /\ revision' = revision /\ rows' = rows /\ Asks(writer[w])
    BY <1>1 DEF KeptInv, AskInv, tableVars, Asks
  <2>2. Current(w)' = Current(w)
    BY <1>5 DEF Current
  <2>3. Unwritten(w, Current(w)) => Unwritten(w, Current(w))'
    BY <2>1, <2>2 DEF Unwritten
  <2>4. /\ \A n \in DOMAIN answers'[w] : answers'[w][n].request.n = n
        /\ host'[w] # Nobody =>
             answers'[w] # <<>> /\ host'[w] = answers'[w][Current(w)'].request
    BY <1>1, <1>5, <2>1, <2>2 DEF AsksAt
  <2>5. writer'[w].revision <= revision'
    BY <1>7, <2>1 DEF AsksAt
  <2>6. writer'[w].revision = revision' => Unwritten(w, Current(w))'
    BY <1>7, <2>1, <2>3 DEF AsksAt
  <2>7. ~writer'[w].doubt => Unwritten(w, Current(w))'
    BY <1>7, <2>1, <2>3 DEF AsksAt
  <2> QED
    BY <2>4, <2>5, <2>6, <2>7 DEF AsksAt
<1> QED
  BY <1>2, <1>10, <1>22, <1>23, <1>24 DEF AskInv

LEMMA BeginKeeps ==
  ASSUME KeptInv, NEW p \in Processes, Begin(p)
  PROVE  Grows /\ LogInv' /\ AskInv' /\ WrittenInv' /\ ToldInv'
<1> DEFINE w == Head(jobs[p]).request.by
<1>1. UNCHANGED tableVars /\ home' = home /\ jobs' = jobs /\ writer' = writer
      /\ answers' = answers /\ jobs[p] # <<>>
      /\ taken' = [taken EXCEPT ![p] = [batch |-> host[w]]]
      /\ host' = [host EXCEPT ![w] = Nobody]
  BY DEF Begin, BatchOwner
<1>2. Grows /\ Foreign /\ LogInv' /\ resume' = resume
  BY <1>1, TableAlone
<1>3. /\ 1 \in DOMAIN jobs[p] /\ Head(jobs[p]) = jobs[p][1] /\ w \in Writers
      /\ DOMAIN host = Writers /\ DOMAIN taken = Processes
  <2>1. /\ jobs[p] \in Seq(Jobs) /\ DOMAIN jobs[p] = 1..Len(jobs[p])
        /\ \A i \in DOMAIN jobs[p] : jobs[p][i].request.by \in Writers
    BY Typed DEF KeptInv
  <2>2. 1 \in DOMAIN jobs[p] /\ Head(jobs[p]) = jobs[p][1]
    BY <1>1, <2>1
  <2> QED
    BY <2>1, <2>2 DEF KeptInv, FenceInv, TypeInv, WriterInv
<1>4. /\ AskInv /\ \A q \in Processes : \A i \in DOMAIN jobs[q] : JobFits(q, i)
  BY DEF KeptInv, AskInv, JobsAt
<1>5. AnswersKept
  BY <1>1 DEF AnswersKept
<1>6. WrittenInv' /\ ToldInv'
  BY <1>1, <1>2, <1>5, WrittenStays, ToldStays
<1>7. ASSUME NEW q \in Processes, NEW i \in DOMAIN jobs'[q]
      PROVE  JobFits(q, i)'
  BY <1>1, <1>4, FitStays
<1>8. ASSUME NEW q \in Processes, taken'[q] # Nobody, taken'[q].batch # Nobody
      PROVE  taken'[q].batch = Head(jobs'[q]).request
  <2>1. CASE q = p
    <3>1. taken'[q].batch = host[w]
      BY <1>1, <1>3, <2>1
    <3>2. host[w] = answers[w][Current(w)].request
      BY <1>3, <1>4, <1>8, <3>1 DEF AskInv, AsksAt
    <3>3. Head(jobs[p]).request = answers[w][Current(w)].request
      BY <1>3, <1>4 DEF JobFits
    <3> QED
      BY <1>1, <2>1, <3>1, <3>2, <3>3
  <2>2. CASE q # p
    BY <1>1, <1>3, <1>4, <1>8, <2>2 DEF AskInv, JobsAt
  <2> QED
    BY <2>1, <2>2
<1>9. \A q \in Processes : JobsAt(q)'
  BY <1>7, <1>8 DEF JobsAt
<1>10. ASSUME NEW u \in Writers PROVE AsksAt(u)'
  <2>1. host'[u] \in {host[u], Nobody} /\ (HasJob(u)' => HasJob(u))
    BY <1>1, <1>3 DEF HasJob
  <2> QED
    BY <1>1, <1>2, <2>1, AsksStay
<1> QED
  BY <1>2, <1>6, <1>9, <1>10 DEF AskInv

LEMMA CrashKeeps ==
  ASSUME KeptInv, NEW p \in Processes, Crash(p)
  PROVE  Grows /\ LogInv' /\ AskInv' /\ WrittenInv' /\ ToldInv'
<1>1. UNCHANGED tableVars /\ home' = home /\ answers' = answers
      /\ jobs' = [jobs EXCEPT ![p] = <<>>] /\ taken' = [taken EXCEPT ![p] = Nobody]
      /\ host' = [w \in Writers |-> IF home[w] = p THEN Nobody ELSE host[w]]
      /\ writer' = [w \in Writers |->
           IF home[w] = p /\ writer[w].phase # "closed"
           THEN [writer[w] EXCEPT !.phase = "stopped"] ELSE writer[w]]
  BY DEF Crash
<1>2. Grows /\ Foreign /\ LogInv' /\ resume' = resume
  BY <1>1, TableAlone
<1>3. DOMAIN jobs = Processes /\ DOMAIN taken = Processes /\ \A w \in Writers : IsWriter(writer[w])
  BY DEF KeptInv, FenceInv, TypeInv
<1>4. AnswersKept
  BY <1>1 DEF AnswersKept
<1>5. WrittenInv' /\ ToldInv'
  BY <1>1, <1>2, <1>4, WrittenStays, ToldStays
<1>6. \A w \in Writers :
        /\ host'[w] \in {host[w], Nobody} /\ writer'[w].revision = writer[w].revision
        /\ home[w] # p => writer'[w] = writer[w]
        /\ writer'[w] = writer[w] \/ writer'[w].phase = "stopped"
  <2> SUFFICES ASSUME NEW w \in Writers
               PROVE  /\ host'[w] \in {host[w], Nobody}
                      /\ writer'[w].revision = writer[w].revision
                      /\ home[w] # p => writer'[w] = writer[w]
                      /\ writer'[w] = writer[w] \/ writer'[w].phase = "stopped"
    OBVIOUS
  <2>1. /\ [writer[w] EXCEPT !.phase = "stopped"].phase = "stopped"
        /\ [writer[w] EXCEPT !.phase = "stopped"].revision = writer[w].revision
    BY <1>3 DEF IsWriter
  <2> QED
    BY <1>1, <2>1
<1>7. \A q \in Processes : \A i \in DOMAIN jobs'[q] : q # p /\ i \in DOMAIN jobs[q]
  BY <1>1, <1>3
<1>8. \A q \in Processes : q # p => jobs'[q] = jobs[q] /\ taken'[q] = taken[q]
  BY SMTT(30), <1>1, <1>3
<1>9. ASSUME NEW q \in Processes, NEW i \in DOMAIN jobs'[q]
      PROVE  JobFits(q, i)'
  <2>1. q # p /\ JobFits(q, i) /\ jobs[q][i].request.by \in Writers /\ jobs'[q] = jobs[q]
    BY <1>7, <1>8, Typed DEF KeptInv, AskInv, JobsAt
  <2>2. writer'[jobs[q][i].request.by] = writer[jobs[q][i].request.by]
    BY <1>6, <2>1 DEF JobFits
  <2> QED
    BY <1>1, <2>1, <2>2 DEF JobFits, Current
<1>10. ASSUME NEW q \in Processes, taken'[q] # Nobody, taken'[q].batch # Nobody
       PROVE  taken'[q].batch = Head(jobs'[q]).request
  <2>1. q # p
    BY <1>1, <1>3, <1>10
  <2> QED
    BY <1>8, <1>10, <2>1 DEF KeptInv, AskInv, JobsAt
<1>11. \A q \in Processes : JobsAt(q)'
  BY <1>9, <1>10 DEF JobsAt
<1>12. ASSUME NEW u \in Writers PROVE AsksAt(u)'
  <2>1. HasJob(u)' => HasJob(u)
    BY <1>7, <1>8 DEF HasJob
  <2>2. Asks(writer'[u]) => writer'[u] = writer[u]
    BY <1>6 DEF Asks
  <2> QED
    BY <1>1, <1>2, <1>6, <2>1, <2>2, AsksStay
<1> QED
  BY <1>2, <1>5, <1>11, <1>12 DEF AskInv

LEMMA OlderAppendKeeps ==
  ASSUME KeptInv, NEW record \in OlderRecords, OlderAppend(record)
  PROVE  Grows /\ LogInv' /\ AskInv' /\ WrittenInv' /\ ToldInv'
<1> DEFINE new == [kind |-> record.kind, stream |-> record.stream,
                   body |-> <<Nobody, next_id, 1>>]
<1>1. /\ home' = home /\ sequence' = sequence /\ revision' = revision /\ resume' = resume
      /\ host' = host /\ jobs' = jobs /\ taken' = taken /\ writer' = writer
      /\ answers' = answers /\ next_id' = next_id + 1
      /\ rows' = Appended(rows, new, next_id)
  BY DEF OlderAppend, threadVars
<1>2. Table(rows, next_id, sequence.last)
  BY DEF KeptInv, LogInv
<1>3. new.body \in Bodies /\ new.body[1] \notin Writers
  <2>1. next_id \in Nat
    BY <1>2 DEF Table
  <2> QED
    BY <2>1, NobodyAssumption DEF Bodies
<1> HIDE DEF new
<1>4. /\ Table(rows', next_id', sequence'.last)
      /\ \A r \in rows : r.seq # 0 => r \in rows'
      /\ \A q \in rows' : q \in rows \/ (q.body = new.body /\ q.seq = 0)
  BY <1>1, <1>2, <1>3, AppendedTable DEF KeepsNumbers
<1>5. sequence.last \in Nat /\ \A r \in rows : r.seq \in 0..sequence.last
  BY <1>2 DEF Table, RowIn
<1>6. Grows
  <2>1. 0 \in Nat /\ \A q \in rows' : ~(q.seq > sequence.last)
    BY <1>4, <1>5
  <2> QED
    BY <1>1, <1>4, <1>5, <2>1 DEF Grows
<1>7. Foreign
  <2>1. \A q \in rows' : q.body[1] \in Writers => q \in rows
    BY <1>3, <1>4
  <2> QED
    BY <2>1 DEF Foreign, KeptInv, WrittenInv
<1>8. AnswersKept
  BY <1>1 DEF AnswersKept
<1>9. WrittenInv' /\ ToldInv'
  BY <1>1, <1>6, <1>7, <1>8, WrittenStays, ToldStays
<1>10. ASSUME NEW u \in Writers, HasJob(u)
       PROVE  writer'[u].phase \in {"waiting", "stopped"}
  BY <1>1, <1>10, NoJob
<1>11. \A p \in Processes : JobsAt(p)'
  BY <1>1, <1>10, JobsStay
<1>12. ASSUME NEW u \in Writers PROVE AsksAt(u)'
  <2>1. HasJob(u)' => HasJob(u)
    BY <1>1 DEF HasJob
  <2> QED
    BY <1>1, <1>6, <1>7, <2>1, AsksStay
<1> QED
  BY <1>4, <1>6, <1>9, <1>11, <1>12 DEF LogInv, AskInv

LEMMA AcquireKeeps ==
  ASSUME KeptInv, NEW w \in Writers, Acquire(w)
  PROVE  Grows /\ LogInv' /\ AskInv' /\ WrittenInv' /\ ToldInv'
<1>1. /\ home' = home /\ next_id' = next_id /\ resume' = resume /\ host' = host
      /\ jobs' = jobs /\ taken' = taken /\ answers' = answers
      /\ writer[w].phase = "closed"
  BY DEF Acquire, threadVars
<1>2. /\ revision \in Nat /\ sequence.last \in Nat
      /\ \A r \in rows : r.seq \in 0..sequence.last
      /\ Table(rows, next_id, sequence.last)
      /\ DOMAIN writer = Writers /\ IsWriter(writer[w])
  BY DEF KeptInv, FenceInv, TypeInv, LogInv, Table, RowIn
<1>3. PICK replaced \in {0, 1}, phase \in {"ready", "stopped"} :
        /\ \E token : writer' = [writer EXCEPT ![w] =
             [@ EXCEPT !.phase = phase, !.token = token, !.since = revision + replaced,
                       !.revision = revision + replaced]]
        /\ \/ /\ rows' = Adopted(rows, sequence)
              /\ sequence' = AfterAdoption(rows, sequence)
              /\ revision' = revision + replaced
           \/ rows' = rows /\ sequence' = sequence /\ revision' = revision /\ replaced = 0
  BY <1>1 DEF Acquire
<1>4. /\ \A u \in Writers : u # w => writer'[u] = writer[u]
      /\ writer'[w].phase = phase /\ writer'[w].revision = revision + replaced
  <2>1. PICK token : writer' = [writer EXCEPT ![w] =
             [@ EXCEPT !.phase = phase, !.token = token, !.since = revision + replaced,
                       !.revision = revision + replaced]]
    BY <1>3
  <2> QED
    BY <1>2, <2>1 DEF IsWriter
<1>5. revision' = revision + replaced
  BY <1>2, <1>3
<1>6. /\ Table(rows', next_id', sequence'.last)
      /\ sequence'.last \in Nat /\ sequence.last <= sequence'.last
      /\ KeepsNumbers(rows, rows') /\ FromAdoption(rows, rows', sequence.last)
      /\ SameBodies(rows, rows')
  <2>1. CASE rows' = rows /\ sequence' = sequence
    <3>1. KeepsNumbers(rows, rows) /\ FromAdoption(rows, rows, sequence.last)
      BY DEF KeepsNumbers, FromAdoption
    <3>2. SameBodies(rows, rows)
      BY DEF SameBodies
    <3> QED
      BY <1>1, <1>2, <2>1, <3>1, <3>2
  <2>2. CASE rows' = Adopted(rows, sequence) /\ sequence' = AfterAdoption(rows, sequence)
    BY <1>1, <1>2, <2>2, AdoptedTable
  <2> QED
    BY <1>3, <2>1, <2>2
<1>7. Grows
  <2>1. sequence'.last \in Nat /\ \A q \in rows' : q.seq > sequence.last =>
          q.seq <= sequence'.last /\ q.rev = 0
    <3>1. \A q \in rows' : q.seq \in 0..sequence'.last
      BY <1>6 DEF Table, RowIn
    <3> QED
      BY <1>2, <1>6, <3>1 DEF FromAdoption
  <2> QED
    BY <1>2, <1>5, <1>6, <2>1 DEF Grows, KeepsNumbers
<1>8. Foreign
  <2>1. \A q \in rows' : \E r \in rows : r.body = q.body
    BY <1>6 DEF FromAdoption
  <2>2. ASSUME NEW q \in rows', NEW r \in rows', q.body = r.body, q.body[1] \in Writers
        PROVE  q = r
    <3>1. PICK a, b \in rows : a.body = q.body /\ b.body = r.body /\ (a = b => q = r)
      BY <1>6 DEF SameBodies
    <3> QED
      BY <2>2, <3>1 DEF KeptInv, WrittenInv
  <2> QED
    BY <2>1, <2>2 DEF Foreign
<1>9. AnswersKept
  BY <1>1 DEF AnswersKept
<1>10. WrittenInv' /\ ToldInv'
  BY <1>1, <1>7, <1>8, <1>9, WrittenStays, ToldStays
<1>11. ASSUME NEW u \in Writers, HasJob(u)
       PROVE  u # w /\ writer[u].phase \in {"waiting", "stopped"}
  BY <1>1, <1>11, NoJob
<1>12. \A p \in Processes : JobsAt(p)'
  BY <1>1, <1>4, <1>11, JobsStay
<1>13. \A u \in Writers : HasJob(u)' => HasJob(u)
  BY <1>1 DEF HasJob
<1>14. ASSUME NEW u \in Writers, u # w PROVE AsksAt(u)'
  BY <1>1, <1>4, <1>7, <1>8, <1>13, <1>14, AsksStay
<1>15. AsksAt(w)'
  <2>1. ~Asks(writer'[w]) /\ ~HasJob(w)'
    BY <1>3, <1>4, <1>11, <1>13 DEF Asks
  <2>2. AsksAt(w)
    BY DEF KeptInv, AskInv
  <2>3. /\ \A n \in DOMAIN answers'[w] : answers'[w][n].request.n = n
        /\ host'[w] # Nobody =>
             answers'[w] # <<>> /\ host'[w] = answers'[w][Current(w)'].request
    BY <1>1, <2>2 DEF AsksAt, Current
  <2>4. writer'[w].revision <= revision'
    BY <1>2, <1>4, <1>5
  <2> QED
    BY <2>1, <2>3, <2>4 DEF AsksAt
<1> QED
  BY <1>6, <1>7, <1>10, <1>12, <1>14, <1>15 DEF LogInv, AskInv

(* A commit writes the events of its request, all that there will ever be  *)
(* of it, and nothing of another one.                                      *)
LEMMA CommitWrites ==
  ASSUME KeptInv, AnswersKept, NEW w \in Writers, answers[w] # <<>>,
         NEW request \in Requests, request = answers[w][Current(w)].request,
         Unwritten(w, Current(w)),
         NEW job, job.request = request, NEW batch \in {Nobody, request}, Commits(job, batch)
  PROVE  /\ Grows /\ LogInv' /\ WrittenInv' /\ revision' = revision + 1
         /\ PlacedIn(rows', sequence'.last, revision', request)
         /\ \A q \in rows' : q.body[1] \in Writers =>
              \/ \E r \in rows : r.body = q.body
              \/ q.body[1] = w /\ q.body[2] = Current(w)
<1> DEFINE plan == Planned(request, batch)
           n == Len(plan)
           A == Adopted(rows, sequence)
           last == AfterAdoption(rows, sequence).last
           number == EventsUpTo(plan, n)
<1>1. /\ rows' = Written(A, plan, next_id - 1, last, revision + 1)
      /\ next_id' = next_id + n /\ sequence'.last = last + number
      /\ revision' = revision + 1
      /\ resume' = IF batch # Nobody /\ batch.shape.resume
                   THEN <<batch.by, batch.n>> ELSE resume
  BY DEF Commits, EventsIn
<1>2. /\ Current(w) \in DOMAIN answers[w] /\ request.by = w /\ request.n = Current(w)
      /\ revision \in Nat /\ sequence.last \in Nat
      /\ \A r \in rows : r.seq \in 0..sequence.last
      /\ Table(rows, next_id, sequence.last)
  <2>1. Len(answers[w]) \in Nat /\ DOMAIN answers[w] = 1..Len(answers[w])
        /\ answers[w] \in Seq([request : Requests, told : Answers])
        /\ \A i \in DOMAIN answers[w] : answers[w][i].request.by = w
    BY Typed DEF KeptInv
  <2>2. Current(w) \in DOMAIN answers[w]
    BY <2>1 DEF Current
  <2>3. \A i \in DOMAIN answers[w] : answers[w][i].request.n = i
    BY DEF KeptInv, AskInv, AsksAt
  <2>4. revision \in Nat /\ Table(rows, next_id, sequence.last)
    BY DEF KeptInv, FenceInv, TypeInv, LogInv
  <2> QED
    BY <2>1, <2>2, <2>3, <2>4 DEF Table, RowIn
<1>3. /\ n \in Nat /\ DOMAIN plan = 1..n
      /\ \A i \in DOMAIN plan : /\ plan[i].body[1] = request.by
                                /\ plan[i].body[2] = request.n
                                /\ plan[i].body \in Bodies
      /\ \A i, j \in DOMAIN plan : plan[i].body = plan[j].body => i = j
      /\ \A k \in DOMAIN EventsOf(request) : \E i \in DOMAIN plan :
           /\ IsEvent(plan[i]) /\ plan[i].body = EventsOf(request)[k].body
           /\ EventsUpTo(plan, i) = k
  BY ZenonT(30), PlanIs
<1>4. /\ last \in Nat /\ sequence.last <= last /\ Table(A, next_id, last)
      /\ KeepsNumbers(rows, A) /\ FromAdoption(rows, A, sequence.last) /\ SameBodies(rows, A)
  BY <1>2, AdoptedTable
<1> HIDE DEF plan, A, last
<1>5. /\ last + number \in Nat /\ last <= last + number
      /\ Table(rows', next_id', sequence'.last) /\ KeepsNumbers(A, rows')
      /\ FromBatch(A, rows', plan, n, next_id, last, revision + 1)
      /\ HasEvents(rows', plan, n, last, revision + 1)
  <2>1. revision + 1 \in Nat /\ \A i \in 1..n : plan[i].body \in Bodies
    BY <1>2, <1>3
  <2>2. n \in Nat /\ DOMAIN plan = 1..n
    BY <1>3
  <2> HIDE DEF n
  <2> DEFINE new == Written(A, plan, next_id - 1, last, revision + 1)
  <2>3. /\ last + EventsUpTo(plan, n) \in Nat /\ last <= last + EventsUpTo(plan, n)
        /\ Table(new, next_id + n, last + EventsUpTo(plan, n)) /\ KeepsNumbers(A, new)
        /\ FromBatch(A, new, plan, n, next_id, last, revision + 1)
        /\ HasEvents(new, plan, n, last, revision + 1)
    BY <1>4, <2>1, <2>2, WrittenTable
  <2>4. rows' = new /\ next_id' = next_id + n /\ sequence'.last = last + EventsUpTo(plan, n)
    BY <1>1
  <2> HIDE DEF new
  <2> QED
    BY <2>3, <2>4
<1> HIDE DEF n, number
<1>6. sequence'.last \in Nat /\ sequence.last <= sequence'.last
  BY <1>1, <1>2, <1>4, <1>5
<1>7. Grows
  <2>1. \A r \in rows : r.seq # 0 => r \in rows'
    BY <1>4, <1>5 DEF KeepsNumbers
  <2>2. ASSUME NEW q \in rows', q.seq > sequence.last
        PROVE  \/ q.seq <= last /\ q.rev = 0
               \/ q.seq > last /\ q.rev = revision' /\ revision' = revision + 1
    <3>1. CASE q \in A
      <4>1. q.seq \in 0..last
        BY <1>4, <3>1 DEF Table, RowIn
      <4>2. q \notin rows
        BY <1>2, <2>2
      <4> QED
        BY <1>4, <3>1, <4>1, <4>2 DEF FromAdoption
    <3>2. CASE q \notin A
      <4>1. q.seq # 0
        BY <1>2, <2>2
      <4> QED
        BY <1>1, <1>5, <3>2, <4>1 DEF FromBatch
    <3> QED
      BY <3>1, <3>2
  <2> QED
    BY <1>1, <1>4, <1>6, <2>1, <2>2 DEF Grows
<1>8. PlacedIn(rows', sequence'.last, revision', request)
  <2>1. last \in 0..sequence'.last /\ revision' \in 1..revision'
    BY <1>1, <1>2, <1>4, <1>5
  <2>2. ASSUME NEW k \in DOMAIN EventsOf(request)
        PROVE  \E r \in rows' : /\ r.body = EventsOf(request)[k].body
                                /\ r.seq = last + k /\ r.rev = revision'
    BY <1>1, <1>3, <1>5 DEF HasEvents
  <2> QED
    BY <2>1, <2>2 DEF PlacedIn
<1>9. ASSUME NEW q \in rows'
      PROVE  \/ q \in A /\ \E r \in rows : r.body = q.body
             \/ q.body[1] = w /\ q.body[2] = Current(w)
  <2>1. CASE q \in A
    BY <1>4, <2>1 DEF FromAdoption
  <2>2. CASE q \notin A
    BY <1>2, <1>3, <1>5, <2>2 DEF FromBatch
  <2> QED
    BY <2>1, <2>2
<1>10. ASSUME NEW q \in rows', NEW r \in rows', q.body = r.body, q.body[1] \in Writers
       PROVE  q = r
  <2>1. CASE q \in A /\ r \in A
    <3>1. PICK a, b \in rows : a.body = q.body /\ b.body = r.body /\ (a = b => q = r)
      BY <1>4, <2>1 DEF SameBodies
    <3> QED
      BY <1>10, <3>1 DEF KeptInv, WrittenInv
  <2>2. ASSUME NEW x \in A, NEW i \in 1..n
        PROVE  x.body # plan[i].body
    <3>1. plan[i].body[1] = w /\ plan[i].body[2] = Current(w)
      BY <1>2, <1>3
    <3>2. \E y \in rows : y.body = x.body
      BY <1>4 DEF FromAdoption
    <3> QED
      BY <3>1, <3>2 DEF Unwritten
  <2>3. CASE q \notin A /\ r \notin A
    <3>1. PICK i \in 1..n : q.body = plan[i].body /\ q.id = next_id - 1 + i
      BY <1>5, <2>3 DEF FromBatch
    <3>2. PICK j \in 1..n : r.body = plan[j].body /\ r.id = next_id - 1 + j
      BY <1>5, <2>3 DEF FromBatch
    <3>3. i = j
      BY <1>3, <1>10, <3>1, <3>2
    <3> QED
      BY <1>5, <3>1, <3>2, <3>3 DEF Table
  <2>4. CASE ~(q \in A <=> r \in A)
    BY <1>5, <1>10, <2>2, <2>4 DEF FromBatch
  <2> QED
    BY <2>1, <2>3, <2>4
<1>12. /\ Current(w) \in DOMAIN answers'[w]
       /\ answers'[w][Current(w)].request = request
  BY <1>2 DEF AnswersKept
<1>13. ASSUME NEW q \in rows', q.body[1] \in Writers
       PROVE  /\ q.body[2] \in DOMAIN answers'[q.body[1]]
              /\ PlacedIn(rows', sequence'.last, revision',
                          answers'[q.body[1]][q.body[2]].request)
  <2>1. CASE q.body[1] = w /\ q.body[2] = Current(w)
    BY <1>8, <1>12, <2>1
  <2>2. CASE \E r \in rows : r.body = q.body
    <3>1. /\ q.body[2] \in DOMAIN answers[q.body[1]]
          /\ Placed(answers[q.body[1]][q.body[2]].request)
      BY <1>13, <2>2 DEF KeptInv, WrittenInv
    <3> QED
      BY <1>7, <1>13, <3>1, AnswerStaysPlaced
  <2> QED
    BY <1>9, <2>1, <2>2
<1>14. ASSUME resume' # Nobody
       PROVE  \E u \in Writers : \E i \in DOMAIN answers'[u] :
                /\ resume' = <<u, i>>
                /\ PlacedIn(rows', sequence'.last, revision', answers'[u][i].request)
  <2>1. CASE resume' = <<request.by, request.n>>
    BY <1>2, <1>8, <1>12, <2>1
  <2>2. CASE resume' = resume
    <3>1. PICK u \in Writers : \E i \in DOMAIN answers[u] :
            resume = <<u, i>> /\ Placed(answers[u][i].request)
      BY <1>14, <2>2 DEF KeptInv, WrittenInv
    <3>2. PICK i \in DOMAIN answers[u] : resume = <<u, i>> /\ Placed(answers[u][i].request)
      BY <3>1
    <3> QED
      BY <1>7, <2>2, <3>2, AnswerStaysPlaced
  <2> QED
    BY <1>1, <2>1, <2>2
<1>15. WrittenInv'
  BY <1>10, <1>13, <1>14 DEF WrittenInv, Placed
<1>16. LogInv'
  BY <1>5 DEF LogInv
<1> QED
  BY <1>1, <1>7, <1>8, <1>9, <1>15, <1>16

(* What an answer leaves with a writer that waits.                         *)
LEMMA AnsweredIs ==
  ASSUME KeptInv, NEW w \in Writers, NEW told, Answered(w, told)
  PROVE  /\ \A u \in Writers : u # w => writer'[u] = writer[u]
         /\ writer'[w].revision = IF told = "committed" THEN writer[w].revision + 1
                                  ELSE writer[w].revision
         /\ Asks(writer'[w]) => told \in {"not_committed", "backend"}
         /\ told = "backend" => writer'[w].doubt
         /\ told # "backend" => (~writer'[w].doubt => ~writer[w].doubt)
         /\ \E what \in Answers :
              /\ Told(w, what)
              /\ what = "stored" => told = "committed"
              /\ what = "refused" => told \notin {"committed", "backend"} /\ ~writer[w].doubt
<1> DEFINE phase == IF told = "committed" THEN "ready"
                    ELSE IF told \in {"not_committed", "backend"} THEN "asking"
                    ELSE "failed"
           number == IF told = "committed" THEN writer[w].revision + 1 ELSE writer[w].revision
           what == IF told = "committed" THEN "stored"
                   ELSE IF told = "backend" \/ writer[w].doubt THEN "unknown"
                   ELSE "refused"
           doubt == IF told = "backend" THEN TRUE ELSE writer[w].doubt
<1>1. Told(w, what)
  BY DEF Answered
<1>2. writer' = [writer EXCEPT ![w] =
        [@ EXCEPT !.phase = phase, !.revision = number, !.doubt = doubt]]
  BY DEF Answered
<1>3. /\ what \in Answers
      /\ what = "stored" => told = "committed"
      /\ what = "refused" => told \notin {"committed", "backend"} /\ ~writer[w].doubt
  BY DEF Answers
<1>4. phase \in {"asking", "waiting"} => told \in {"not_committed", "backend"}
  OBVIOUS
<1>5. told = "backend" => doubt
  OBVIOUS
<1>6. told # "backend" => doubt = writer[w].doubt
  OBVIOUS
<1>7. DOMAIN writer = Writers /\ IsWriter(writer[w])
  BY DEF KeptInv, FenceInv, TypeInv
<1> HIDE DEF phase, what, doubt, number
<1>8. /\ writer'[w].phase = phase /\ writer'[w].revision = number
      /\ writer'[w].doubt = doubt
      /\ \A u \in Writers : u # w => writer'[u] = writer[u]
  BY <1>2, <1>7 DEF IsWriter
<1>9. Asks(writer'[w]) => told \in {"not_committed", "backend"}
  BY <1>4, <1>8 DEF Asks
<1>10. (told = "backend" => writer'[w].doubt)
       /\ (told # "backend" => (~writer'[w].doubt => ~writer[w].doubt))
  BY <1>5, <1>6, <1>8
<1> QED
  BY <1>1, <1>3, <1>8, <1>9, <1>10 DEF number

LEMMA FitsIs ==
  ASSUME NEW p, NEW i, JobFits(p, i), NEW w, w = jobs[p][i].request.by
  PROVE  /\ home[w] = p /\ writer[w].phase \in {"waiting", "stopped"}
         /\ answers[w] # <<>> /\ jobs[p][i].request = answers[w][Current(w)].request
         /\ answers[w][Current(w)].told = "unknown"
         /\ jobs[p][i].expected = writer[w].revision
         /\ \A j \in DOMAIN jobs[p] : jobs[p][j].request.by = w => j = i
BY DEF JobFits

FirstJob(p) == Head(jobs[p])

LEMMA FinishOf ==
  ASSUME KeptInv, NEW p \in Processes, Finish(p),
         NEW w \in Writers, w = FirstJob(p).request.by
  PROVE  Grows /\ LogInv' /\ AskInv' /\ WrittenInv' /\ ToldInv'
<1> DEFINE job == FirstJob(p)
           batch == taken[p].batch
           request == job.request
<1>1. PICK outcome \in Outcomes(job, batch) :
        /\ IF outcome.took THEN Commits(job, batch) ELSE UNCHANGED tableVars
        /\ host' = IF outcome.told # "committed" /\ batch # Nobody
                   THEN [host EXCEPT ![w] = batch] ELSE host
        /\ IF writer[w].phase = "waiting"
           THEN Answered(w, outcome.told) ELSE UNCHANGED <<writer, answers>>
  BY DEF Finish, FirstJob
<1>2. /\ home' = home /\ taken[p] # Nobody /\ jobs' = [jobs EXCEPT ![p] = Tail(@)]
      /\ taken' = [taken EXCEPT ![p] = Nobody]
  BY DEF Finish
<1>3. /\ jobs[p] \in Seq(Jobs) /\ jobs[p] # <<>> /\ Len(jobs[p]) \in Nat
      /\ DOMAIN jobs[p] = 1..Len(jobs[p])
      /\ DOMAIN jobs = Processes /\ DOMAIN taken = Processes /\ DOMAIN host = Writers
      /\ DOMAIN writer = Writers
  <2>1. /\ jobs[p] \in Seq(Jobs) /\ Len(jobs[p]) \in Nat
        /\ DOMAIN jobs[p] = 1..Len(jobs[p])
    BY Typed DEF KeptInv
  <2> QED
    BY <1>2, <2>1 DEF KeptInv, FenceInv, TypeInv, ThreadInv, WriterInv
<1>4. 1 \in DOMAIN jobs[p] /\ job = jobs[p][1]
  BY <1>3 DEF FirstJob
<1>5. \A q \in Processes : \A i \in DOMAIN jobs[q] :
        JobFits(q, i) /\ jobs[q][i].request.by \in Writers
  BY Typed DEF KeptInv, AskInv, JobsAt
<1>6. /\ home[w] = p /\ writer[w].phase \in {"waiting", "stopped"}
      /\ answers[w] # <<>> /\ request = answers[w][Current(w)].request
      /\ answers[w][Current(w)].told = "unknown" /\ job.expected = writer[w].revision
      /\ \A j \in DOMAIN jobs[p] : jobs[p][j].request.by = w => j = 1
  <2>1. JobFits(p, 1) /\ w = jobs[p][1].request.by
    BY <1>4, <1>5
  <2>2. request = jobs[p][1].request /\ job = jobs[p][1]
    BY <1>4
  <2> HIDE DEF job, request
  <2> QED
    BY <2>1, <2>2, FitsIs
<1>7. HasJob(w) /\ AsksAt(w)
  BY <1>4, <1>5 DEF HasJob, KeptInv, AskInv
<1>8. batch \in {Nobody, request}
  <2>1. JobsAt(p)
    BY DEF KeptInv, AskInv
  <2> QED
    BY <1>2, <2>1 DEF JobsAt, FirstJob
<1>9. request \in Requests
  BY <1>4, Typed DEF KeptInv
<1>10. /\ outcome.took \in BOOLEAN
       /\ outcome.took => job.expected = revision /\ outcome.told \in {"committed", "backend"}
       /\ ~outcome.took => outcome.told # "committed"
  BY <1>1 DEF Outcomes, IsCurrent, CommitError
<1> HIDE DEF job, batch, request
<1>11. /\ jobs'[p] = Tail(jobs[p]) /\ taken'[p] = Nobody
       /\ \A q \in Processes : q # p => jobs'[q] = jobs[q] /\ taken'[q] = taken[q]
  BY <1>2, <1>3
<1>12. /\ DOMAIN jobs'[p] = 1..(Len(jobs[p]) - 1)
       /\ \A i \in DOMAIN jobs'[p] : jobs'[p][i] = jobs[p][i + 1] /\ i + 1 \in DOMAIN jobs[p]
  BY <1>3, <1>11
(* What the writer is told, if it still waits.                             *)
<1>13. /\ AnswersKept /\ Current(w) \in DOMAIN answers[w]
       /\ DOMAIN answers'[w] = DOMAIN answers[w] /\ answers'[w] # <<>>
       /\ Current(w)' = Current(w)
       /\ \A u \in Writers : u # w => answers'[u] = answers[u] /\ writer'[u] = writer[u]
       /\ \A n \in DOMAIN answers[w] : n # Current(w) => answers'[w][n] = answers[w][n]
       /\ \/ answers'[w][Current(w)].told = "unknown"
          \/ answers'[w][Current(w)].told = "stored" /\ outcome.took
          \/ /\ answers'[w][Current(w)].told = "refused" /\ ~outcome.took
             /\ Asks(writer[w]) /\ ~writer[w].doubt
  <2>1. CASE writer[w].phase = "waiting"
    <3>1. Answered(w, outcome.told)
      BY <1>1, <2>1
    <3>2. PICK what \in Answers :
            /\ Told(w, what)
            /\ what = "stored" => outcome.told = "committed"
            /\ what = "refused" =>
                 outcome.told \notin {"committed", "backend"} /\ ~writer[w].doubt
      BY <1>7, <3>1, AnsweredIs
    <3>3. \A u \in Writers : u # w => writer'[u] = writer[u]
      BY SMTT(30), <1>7, <3>1, AnsweredIs
    <3>4. /\ \A u \in Writers : u # w => answers'[u] = answers[u]
          /\ answers'[w] # <<>> /\ Len(answers'[w]) = Len(answers[w])
          /\ DOMAIN answers'[w] = DOMAIN answers[w] /\ Current(w) \in DOMAIN answers[w]
          /\ \A n \in DOMAIN answers[w] :
               /\ answers'[w][n].request = answers[w][n].request
               /\ n # Current(w) => answers'[w][n] = answers[w][n]
          /\ answers'[w][Current(w)].told = what
      BY <1>6, <1>7, <3>2, ToldIs
    <3>5. AnswersKept
      BY SMTT(30), <3>4 DEF AnswersKept
    <3>6. Current(w)' = Current(w)
      BY <3>4 DEF Current
    <3>7. what \in {"stored", "refused", "unknown"} /\ Asks(writer[w])
      BY <2>1 DEF Answers, Asks
    <3> QED
      BY <1>10, <3>2, <3>3, <3>4, <3>5, <3>6, <3>7
  <2>2. CASE writer[w].phase # "waiting"
    <3>1. writer' = writer /\ answers' = answers
      BY <1>1, <2>2
    <3>2. Current(w) \in DOMAIN answers[w]
      <4>1. /\ answers[w] \in Seq([request : Requests, told : Answers])
            /\ Len(answers[w]) \in Nat /\ DOMAIN answers[w] = 1..Len(answers[w])
        BY <1>7, Typed DEF KeptInv
      <4> QED
        BY <1>6, <4>1 DEF Current
    <3>3. AnswersKept /\ Current(w)' = Current(w)
      BY <3>1 DEF AnswersKept, Current
    <3> QED
      BY <1>6, <3>1, <3>2, <3>3
  <2> QED
    BY SMTT(30), <2>1, <2>2
<1>others. \A u \in Writers : u # w => answers'[u] = answers[u] /\ writer'[u] = writer[u]
  BY ZenonT(30), <1>13
<1>14. Asks(writer'[w]) =>
         /\ Asks(writer[w]) /\ writer'[w].revision = writer[w].revision
         /\ ~writer'[w].doubt => ~outcome.took /\ ~writer[w].doubt
  <2>1. CASE writer[w].phase = "waiting"
    <3>1. Answered(w, outcome.told)
      BY <1>1, <2>1
    <3> QED
      BY <1>7, <1>10, <2>1, <3>1, AnsweredIs DEF Asks
  <2>2. CASE writer[w].phase # "waiting"
    BY <1>1, <1>6, <2>2 DEF Asks
  <2> QED
    BY <2>1, <2>2
<1>15. \/ writer'[w].revision = writer[w].revision
       \/ outcome.took /\ writer'[w].revision = writer[w].revision + 1
  <2>1. CASE writer[w].phase = "waiting"
    <3>1. Answered(w, outcome.told)
      BY <1>1, <2>1
    <3> QED
      BY <1>7, <1>10, <3>1, AnsweredIs
  <2>2. CASE writer[w].phase # "waiting"
    BY <1>1, <2>2
  <2> QED
    BY <2>1, <2>2
(* The jobs that remain are of other writers.                              *)
<1>16. ASSUME NEW q \in Processes, NEW i \in DOMAIN jobs'[q]
       PROVE  /\ jobs'[q][i].request.by \in Writers \ {w}
              /\ JobFits(q, i)'
              /\ \E j \in DOMAIN jobs[q] : jobs[q][j] = jobs'[q][i]
  <2>1. CASE q = p
    <3> DEFINE u == jobs[p][i + 1].request.by
    <3>1. /\ jobs'[p][i] = jobs[p][i + 1] /\ i + 1 \in DOMAIN jobs[p] /\ i \in Nat \ {0}
      BY <1>3, <1>12, <2>1
    <3>2. JobFits(p, i + 1) /\ u \in Writers
      BY <1>5, <3>1
    <3>3. u # w
      BY <1>6, <3>1
    <3>4. ASSUME NEW j \in DOMAIN jobs'[p], jobs'[p][j].request.by = u
          PROVE  j = i
      <4>1. jobs'[p][j] = jobs[p][j + 1] /\ j + 1 \in DOMAIN jobs[p] /\ j \in Nat
        BY <1>3, <1>12
      <4>2. j + 1 = i + 1
        <5>1. \A k \in DOMAIN jobs[p] : jobs[p][k].request.by = u => k = i + 1
          BY <3>2 DEF JobFits
        <5>2. jobs[p][j + 1].request.by = u
          BY <3>4, <4>1
        <5> QED
          BY <4>1, <5>1, <5>2
      <4> QED
        BY <3>1, <4>1, <4>2
    <3>5. answers'[u] = answers[u] /\ writer'[u] = writer[u]
      BY <1>others, <3>2, <3>3
    <3>6. JobFits(p, i)'
      BY <1>2, <3>1, <3>2, <3>4, <3>5 DEF JobFits, Current
    <3> QED
      BY <2>1, <3>1, <3>2, <3>3, <3>6
  <2>2. CASE q # p
    <3> DEFINE u == jobs[q][i].request.by
    <3>1. jobs'[q] = jobs[q] /\ JobFits(q, i) /\ u \in Writers
      BY <1>5, <1>11, <2>2
    <3>2. u # w
      <4>1. home[u] = q /\ home[w] = p
        BY <1>6, <3>1, FitsIs
      <4> QED
        BY <2>2, <4>1
    <3>3. answers'[u] = answers[u] /\ writer'[u] = writer[u]
      BY <1>others, <3>1, <3>2
    <3>4. JobFits(q, i)'
      BY <1>2, <3>1, <3>3 DEF JobFits, Current
    <3> QED
      BY <3>1, <3>2, <3>4
  <2> QED
    BY <2>1, <2>2
<1>17. \A q \in Processes : JobsAt(q)'
  <2>1. ASSUME NEW q \in Processes, taken'[q] # Nobody, taken'[q].batch # Nobody
        PROVE  taken'[q].batch = Head(jobs'[q]).request
    BY <1>11, <2>1 DEF KeptInv, AskInv, JobsAt
  <2> QED
    BY <1>16, <2>1 DEF JobsAt
<1>18. ~HasJob(w)' /\ \A u \in Writers : HasJob(u)' => HasJob(u)
  BY <1>16 DEF HasJob
<1>19. /\ host'[w] \in {host[w], request}
       /\ \A u \in Writers : u # w => host'[u] = host[u]
  BY SMTT(30), <1>1, <1>3, <1>7, <1>8
<1>20. /\ \A n \in DOMAIN answers'[w] : answers'[w][n].request.n = n
       /\ host'[w] # Nobody =>
            answers'[w] # <<>> /\ host'[w] = answers'[w][Current(w)'].request
  <2>1. \A n \in DOMAIN answers[w] : answers'[w][n].request = answers[w][n].request
    BY ZenonT(30), <1>7, <1>13 DEF AnswersKept
  <2>2. host'[w] # Nobody => host'[w] = request
    BY <1>6, <1>7, <1>19 DEF AsksAt
  <2>3. \A n \in DOMAIN answers[w] : answers[w][n].request.n = n
    BY SMTT(30), <1>7 DEF AsksAt
  <2>4. \A n \in DOMAIN answers'[w] : answers'[w][n].request.n = n
    BY ZenonT(30), <1>13, <2>1, <2>3
  <2>5. request = answers'[w][Current(w)'].request
    BY <1>6, <1>13, <2>1
  <2> QED
    BY ZenonT(30), <1>13, <2>2, <2>4, <2>5
<1>21. revision \in Nat /\ writer[w].revision \in Nat /\ writer[w].revision <= revision
  BY <1>7, Typed DEF KeptInv, AsksAt
<1>22. CASE ~outcome.took
  <2>1. UNCHANGED tableVars
    BY <1>1, <1>22
  <2>2. Grows /\ Foreign /\ LogInv' /\ resume' = resume
    BY SMTT(30), <2>1, TableAlone
  <2>3. \A u \in Writers : \A n \in DOMAIN answers'[u] :
          \/ n \in DOMAIN answers[u] /\ answers'[u][n].told = answers[u][n].told
          \/ answers'[u][n].told = "unknown"
          \/ answers'[u][n].told = "refused" /\ Unwritten(u, n)
    <3>1. Asks(writer[w]) /\ ~writer[w].doubt => Unwritten(w, Current(w))
      BY SMTT(30), <1>7 DEF AsksAt
    <3> QED
      BY <1>13, <1>22, <3>1
  <2>4. WrittenInv' /\ ToldInv'
    BY ZenonT(30), <1>13, <2>2, <2>3, WrittenStays, ToldStays
  <2>5. ASSUME NEW u \in Writers, u # w PROVE AsksAt(u)'
    BY <1>13, <1>18, <1>19, <2>2, <2>5, AsksStay
  <2>6. AsksAt(w)'
    <3>1. revision' = revision /\ rows' = rows
      BY SMTT(30), <2>1 DEF tableVars
    <3>2. Unwritten(w, Current(w)) => Unwritten(w, Current(w))'
      BY <1>13, <3>1 DEF Unwritten
    <3>3. writer'[w].revision <= revision'
      BY SMTT(30), <1>15, <1>21, <1>22, <3>1
    <3>4. Asks(writer'[w]) /\ writer'[w].revision = revision' => Unwritten(w, Current(w))'
      BY SMTT(30), <1>7, <1>14, <3>1, <3>2 DEF AsksAt
    <3>5. Asks(writer'[w]) /\ ~writer'[w].doubt => Unwritten(w, Current(w))'
      BY <1>7, <1>14, <3>2 DEF AsksAt
    <3> QED
      BY <1>18, <1>20, <3>3, <3>4, <3>5 DEF AsksAt
  <2> QED
    BY <1>17, <2>2, <2>4, <2>5, <2>6 DEF AskInv
<1>23. CASE outcome.took
  <2>1. Commits(job, batch) /\ writer[w].revision = revision
    BY <1>1, <1>6, <1>10, <1>23
  <2>2. Unwritten(w, Current(w))
    BY SMTT(30), <1>7, <2>1 DEF AsksAt
  <2>3. /\ Grows /\ LogInv' /\ WrittenInv' /\ revision' = revision + 1
        /\ PlacedIn(rows', sequence'.last, revision', request)
        /\ \A q \in rows' : q.body[1] \in Writers =>
             \/ \E r \in rows : r.body = q.body
             \/ q.body[1] = w /\ q.body[2] = Current(w)
    <3>1. PICK x \in Requests : x = request
      BY <1>9
    <3>2. job.request = x /\ batch \in {Nobody, x} /\ x = answers[w][Current(w)].request
      BY SMTT(30), <1>6, <1>8, <3>1 DEF request
    <3>3. AnswersKept /\ answers[w] # <<>> /\ Commits(job, batch)
      BY <1>6, <1>13, <2>1
    <3> QED
      BY <2>2, <3>1, <3>2, <3>3, CommitWrites
  <2>4. ASSUME NEW u \in Writers, NEW n \in DOMAIN answers'[u], answers'[u][n].told = "stored"
        PROVE  PlacedIn(rows', sequence'.last, revision', answers'[u][n].request)
    <3>1. CASE u = w /\ n = Current(w)
      BY ZenonT(30), <1>6, <1>7, <1>13, <2>3, <3>1 DEF AnswersKept
    <3>2. CASE ~(u = w /\ n = Current(w))
      <4>1. n \in DOMAIN answers[u] /\ answers[u][n].told = "stored"
        BY ZenonT(30), <1>13, <2>4, <3>2
      <4>2. Placed(answers[u][n].request)
        BY <4>1 DEF KeptInv, ToldInv
      <4> QED
        BY ZenonT(30), <1>13, <2>3, <4>1, <4>2, AnswerStaysPlaced
    <3> QED
      BY SMTT(30), <3>1, <3>2
  <2>5. ASSUME NEW u \in Writers, NEW n \in DOMAIN answers'[u], answers'[u][n].told = "refused"
        PROVE  Unwritten(u, n)'
    <3>1. ~(u = w /\ n = Current(w))
      BY SMTT(30), <1>13, <1>23, <2>5
    <3>2. n \in DOMAIN answers[u] /\ answers[u][n].told = "refused"
      BY ZenonT(30), <1>13, <2>5, <3>1
    <3>3. Unwritten(u, n)
      BY <3>2 DEF KeptInv, ToldInv
    <3> QED
      BY <2>3, <3>1, <3>3 DEF Unwritten
  <2>6. ToldInv'
    BY <2>4, <2>5 DEF ToldInv, Placed
  <2>7. ASSUME NEW u \in Writers, u # w PROVE AsksAt(u)'
    <3>1. \A q \in rows' : q.body[1] = u => \E r \in rows : r.body = q.body
      BY SMTT(30), <2>3, <2>7
    <3> QED
      BY <1>13, <1>18, <1>19, <2>3, <2>7, <3>1, AsksStayOf
  <2>8. AsksAt(w)'
    <3>1. writer'[w].revision <= revision'
      BY <1>15, <1>21, <2>3
    <3>2. ~(Asks(writer'[w]) /\ writer'[w].revision = revision')
      BY <1>14, <1>21, <2>3
    <3>3. ~(Asks(writer'[w]) /\ ~writer'[w].doubt)
      BY <1>14, <1>23
    <3> QED
      BY <1>18, <1>20, <3>1, <3>2, <3>3 DEF AsksAt
  <2> QED
    BY <1>17, <2>3, <2>6, <2>7, <2>8 DEF AskInv
<1> QED
  BY <1>10, <1>22, <1>23

LEMMA FinishKeeps ==
  ASSUME KeptInv, NEW p \in Processes, Finish(p)
  PROVE  Grows /\ LogInv' /\ AskInv' /\ WrittenInv' /\ ToldInv'
<1>1. jobs[p] # <<>>
  BY DEF Finish, KeptInv, FenceInv, ThreadInv
<1>2. /\ jobs[p] \in Seq(Jobs) /\ DOMAIN jobs[p] = 1..Len(jobs[p])
      /\ \A i \in DOMAIN jobs[p] : jobs[p][i].request.by \in Writers
  BY Typed DEF KeptInv
<1>3. FirstJob(p).request.by \in Writers
  BY <1>1, <1>2 DEF FirstJob
<1> QED
  BY <1>3, FinishOf

-----------------------------------------------------------------------------
LEMMA KeptStarts == Init => KeptInv
<1> SUFFICES ASSUME Init PROVE KeptInv
  OBVIOUS
<1>1. FenceInv
  BY FenceStarts
<1>2. LogInv
  <2>1. IsFiniteSet({})
    BY FS_EmptySet
  <2>2. Table({}, 1, 0)
    BY <2>1 DEF Table
  <2>3. rows = {} /\ next_id = 1 /\ sequence.last = 0
    BY DEF Init
  <2> QED
    BY <2>2, <2>3 DEF LogInv
<1>3. AskInv
  <2>1. \A p \in Processes : jobs[p] = <<>> /\ taken[p] = Nobody
    BY DEF Init
  <2>2. \A p \in Processes : JobsAt(p)
    BY <2>1 DEF JobsAt
  <2>3. ASSUME NEW w \in Writers PROVE AsksAt(w)
    <3>1. /\ answers[w] = <<>> /\ host[w] = Nobody /\ writer[w].phase = "closed"
          /\ writer[w].revision = 0 /\ revision = 0
      BY DEF Init
    <3>2. ~HasJob(w) /\ ~Asks(writer[w])
      BY <2>1, <3>1 DEF HasJob, Asks
    <3> QED
      BY <3>1, <3>2 DEF AsksAt
  <2> QED
    BY <2>2, <2>3 DEF AskInv
<1>4. WrittenInv /\ ToldInv
  BY DEF Init, WrittenInv, ToldInv
<1> QED
  BY <1>1, <1>2, <1>3, <1>4 DEF KeptInv

LEMMA StepGrows ==
  ASSUME KeptInv, Next
  PROVE  Grows /\ LogInv' /\ AskInv' /\ WrittenInv' /\ ToldInv'
<1>1. ASSUME NEW w \in Writers,
             Acquire(w) \/ Submit(w) \/ Stop(w) \/ \E shape \in Shapes : Stage(w, shape)
      PROVE  Grows /\ LogInv' /\ AskInv' /\ WrittenInv' /\ ToldInv'
  BY <1>1, AcquireKeeps, SubmitKeeps, StopKeeps, StageKeeps
<1>2. ASSUME NEW p \in Processes, Begin(p) \/ Finish(p) \/ Crash(p)
      PROVE  Grows /\ LogInv' /\ AskInv' /\ WrittenInv' /\ ToldInv'
  BY <1>2, BeginKeeps, FinishKeeps, CrashKeeps
<1>3. ASSUME NEW record \in OlderRecords, OlderAppend(record)
      PROVE  Grows /\ LogInv' /\ AskInv' /\ WrittenInv' /\ ToldInv'
  BY <1>3, OlderAppendKeeps
<1> QED
  BY <1>1, <1>2, <1>3 DEF Next

LEMMA KeptKeeps == KeptInv /\ [Next]_vars => KeptInv'
<1> SUFFICES ASSUME KeptInv, [Next]_vars PROVE KeptInv'
  OBVIOUS
<1>1. FenceInv'
  BY FenceKeeps DEF KeptInv
<1>2. CASE Next
  BY <1>1, <1>2, StepGrows DEF KeptInv
<1>3. CASE UNCHANGED vars
  <2>1. /\ rows' = rows /\ next_id' = next_id /\ sequence' = sequence
        /\ revision' = revision /\ resume' = resume /\ home' = home /\ host' = host
        /\ jobs' = jobs /\ taken' = taken /\ writer' = writer /\ answers' = answers
    BY <1>3 DEF vars, tableVars, threadVars
  <2>2. LogInv' /\ WrittenInv' /\ ToldInv'
    BY <2>1 DEF KeptInv, LogInv, WrittenInv, ToldInv, Placed, Unwritten
  <2>3. ASSUME NEW p \in Processes PROVE JobsAt(p)'
    <3>1. JobsAt(p)
      BY DEF KeptInv, AskInv
    <3>2. \A i \in DOMAIN jobs[p] : JobFits(p, i)'
      BY <2>1, <3>1, FitStays DEF JobsAt
    <3> QED
      BY <2>1, <3>1, <3>2 DEF JobsAt
  <2>4. ASSUME NEW w \in Writers PROVE AsksAt(w)'
    <3>1. AsksAt(w) /\ (HasJob(w)' => HasJob(w))
          /\ (Unwritten(w, Current(w)) => Unwritten(w, Current(w))')
      BY <2>1 DEF KeptInv, AskInv, HasJob, Unwritten, Current
    <3> QED
      BY <2>1, <3>1 DEF AsksAt, Current
  <2> QED
    BY <1>1, <2>2, <2>3, <2>4 DEF KeptInv, AskInv
<1> QED
  BY <1>2, <1>3

LEMMA KeptInvariant == Spec => []KeptInv
BY KeptStarts, KeptKeeps, PTL DEF Spec

-----------------------------------------------------------------------------
(* The log that readers see, as a function of the table.                   *)
EventIn(set, n) ==
  IF \E r \in set : r.seq = n /\ IsEvent(r)
  THEN LET r == CHOOSE r \in set : r.seq = n IN [body |-> r.body, rev |-> r.rev]
  ELSE Nobody

LogOf(set, last) == [n \in 1..last |-> EventIn(set, n)]

LEMMA LogOfIs ==
  ASSUME NEW set, NEW next, NEW last, Table(set, next, last)
  PROVE  /\ last \in Nat /\ Len(LogOf(set, last)) = last
         /\ \A n \in 1..last : \E r \in set :
              r.seq = n /\ LogOf(set, last)[n] = [body |-> r.body, rev |-> r.rev]
         /\ \A r \in set : r.seq # 0 =>
              /\ r.seq \in 1..last
              /\ LogOf(set, last)[r.seq] = [body |-> r.body, rev |-> r.rev]
<1>1. last \in Nat /\ \A r \in set : r.seq \in 0..last /\ (r.seq # 0 => IsEvent(r))
  BY DEF Table, RowIn
<1>2. Len(LogOf(set, last)) = last /\ \A n \in 1..last : LogOf(set, last)[n] = EventIn(set, n)
  BY <1>1 DEF LogOf
<1>3. ASSUME NEW r \in set, r.seq # 0
      PROVE  EventIn(set, r.seq) = [body |-> r.body, rev |-> r.rev]
  <2> DEFINE q == CHOOSE q \in set : q.seq = r.seq
  <2>1. q \in set /\ q.seq = r.seq
    OBVIOUS
  <2>2. EventIn(set, r.seq) = [body |-> q.body, rev |-> q.rev]
    BY <1>1, <1>3 DEF EventIn
  <2> HIDE DEF q
  <2>3. q = r
    BY <1>3, <2>1 DEF Table
  <2> QED
    BY <2>2, <2>3
<1>4. \A n \in 1..last : \E r \in set : r.seq = n
  BY DEF Table
<1>5. ASSUME NEW r \in set, r.seq # 0
      PROVE  /\ r.seq \in 1..last
             /\ LogOf(set, last)[r.seq] = [body |-> r.body, rev |-> r.rev]
  BY <1>1, <1>2, <1>3, <1>5
<1>6. ASSUME NEW n \in 1..last
      PROVE  \E r \in set :
               r.seq = n /\ LogOf(set, last)[n] = [body |-> r.body, rev |-> r.rev]
  <2>1. PICK r \in set : r.seq = n
    BY <1>4
  <2>2. r.seq # 0
    BY <1>1, <2>1
  <2> QED
    BY <1>5, <2>1, <2>2
<1> QED
  BY <1>1, <1>2, <1>5, <1>6

LEMMA LogGrows ==
  ASSUME KeptInv, LogInv', Grows
  PROVE  LET L == LogOf(rows, sequence.last)
             M == LogOf(rows', sequence'.last)
             New == (Len(L) + 1) .. Len(M)
         IN /\ Len(M) >= Len(L)
            /\ \A n \in 1 .. Len(L) : M[n] = L[n]
            /\ \A n \in New : M[n] \in [body : Bodies, rev : Nat]
            /\ revision' \in {revision, revision + 1}
            /\ \A n \in New :
                 \/ M[n].rev = 0 /\ \A m \in New : m < n => M[m].rev = 0
                 \/ M[n].rev = revision' /\ revision' = revision + 1
<1> DEFINE L == LogOf(rows, sequence.last)
           M == LogOf(rows', sequence'.last)
           New == (Len(L) + 1) .. Len(M)
<1>1. Table(rows, next_id, sequence.last) /\ Table(rows', next_id', sequence'.last)
  BY DEF KeptInv, LogInv
<1>2. /\ sequence.last \in Nat /\ Len(L) = sequence.last
      /\ \A n \in 1..sequence.last : \E r \in rows :
           r.seq = n /\ L[n] = [body |-> r.body, rev |-> r.rev]
  BY <1>1, LogOfIs
<1>3. /\ sequence'.last \in Nat /\ Len(M) = sequence'.last
      /\ \A n \in 1..sequence'.last : \E r \in rows' :
           r.seq = n /\ M[n] = [body |-> r.body, rev |-> r.rev]
      /\ \A r \in rows' : r.seq # 0 => M[r.seq] = [body |-> r.body, rev |-> r.rev]
  BY <1>1, LogOfIs
<1> HIDE DEF L, M
<1>4. /\ sequence.last <= sequence'.last /\ revision' \in {revision, revision + 1}
      /\ \A r \in rows : r.seq # 0 => r \in rows'
  BY DEF Grows
<1>5. PICK mid \in Nat : \A q \in rows' : q.seq > sequence.last =>
        \/ q.seq <= mid /\ q.rev = 0
        \/ q.seq > mid /\ q.rev = revision' /\ revision' = revision + 1
  BY DEF Grows
<1>6. ASSUME NEW n \in 1 .. Len(L) PROVE M[n] = L[n]
  <2>1. PICK r \in rows : r.seq = n /\ L[n] = [body |-> r.body, rev |-> r.rev]
    BY <1>2
  <2>2. r \in rows' /\ r.seq # 0
    BY <1>2, <1>4, <2>1
  <2> QED
    BY <1>3, <2>1, <2>2
<1>7. ASSUME NEW n \in New
      PROVE  /\ M[n] \in [body : Bodies, rev : Nat] /\ n \in Nat
             /\ \/ n <= mid /\ M[n].rev = 0
                \/ n > mid /\ M[n].rev = revision' /\ revision' = revision + 1
  <2>1. n \in 1..sequence'.last /\ n > sequence.last /\ n \in Nat
    BY <1>2, <1>3
  <2>2. PICK r \in rows' : r.seq = n /\ M[n] = [body |-> r.body, rev |-> r.rev]
    BY <1>3, <2>1
  <2>3. r.body \in Bodies /\ r.rev \in Nat
    BY <1>1 DEF Table, RowIn
  <2>4. M[n].rev = r.rev /\ M[n] \in [body : Bodies, rev : Nat]
    BY <2>2, <2>3
  <2> QED
    BY <1>5, <2>1, <2>2, <2>4
<1>8. ASSUME NEW n \in New
      PROVE  \/ M[n].rev = 0 /\ \A m \in New : m < n => M[m].rev = 0
             \/ M[n].rev = revision' /\ revision' = revision + 1
  <2>1. CASE n <= mid /\ M[n].rev = 0
    <3>1. ASSUME NEW m \in New, m < n PROVE M[m].rev = 0
      <4>1. m \in Nat /\ n \in Nat /\ ~(m > mid)
        BY <1>7, <2>1, <3>1
      <4> QED
        BY <1>7, <4>1
    <3> QED
      BY <2>1, <3>1
  <2>2. CASE M[n].rev = revision' /\ revision' = revision + 1
    BY <2>2
  <2> QED
    BY <1>7, <2>1, <2>2
<1>9. Len(M) >= Len(L)
  BY <1>2, <1>3, <1>4
<1> QED
  BY <1>4, <1>6, <1>7, <1>8, <1>9 DEF L, M

(* The events of a session are a sequence without holes that only grows,   *)
(* whoever owns the session, whatever older builds append and whichever    *)
(* commits fail or are in doubt (durable.rs:1-9): every step of the store  *)
(* extends the log that readers see, or leaves it alone.                   *)
THEOREM EventsStay == Spec => EventsAreKept
<1>1. Init => Log!LogInit
  <2> SUFFICES ASSUME Init PROVE Log!LogInit
    OBVIOUS
  <2>1. 1..sequence.last = {} /\ revision = 0
    BY DEF Init
  <2> QED
    BY <2>1 DEF Log!LogInit
<1>2. KeptInv /\ [Next]_vars => [Log!Extend]_(Log!logVars)
  <2> SUFFICES ASSUME KeptInv, [Next]_vars PROVE [Log!Extend]_(Log!logVars)
    OBVIOUS
  <2>1. [n \in 1..sequence.last |-> Event(n)] = LogOf(rows, sequence.last)
    BY DEF LogOf, Event, EventIn
  <2>2. [n \in 1..sequence.last |-> Event(n)]' = LogOf(rows', sequence'.last)
    BY DEF LogOf, Event, EventIn
  <2>3. CASE Next
    <3>1. Grows /\ LogInv'
      BY <2>3, StepGrows
    <3> QED
      BY <2>1, <2>2, <3>1, LogGrows DEF Log!Extend, Log!New, Log!Events, Bodies
  <2>4. CASE UNCHANGED vars
    <3>1. rows' = rows /\ sequence' = sequence /\ revision' = revision
      BY <2>4 DEF vars, tableVars
    <3> QED
      BY <2>1, <2>2, <3>1 DEF Log!logVars
  <2> QED
    BY <2>3, <2>4
<1> QED
  BY <1>1, <1>2, KeptInvariant, PTL DEF Spec, EventsAreKept, Log!LogSpec

-----------------------------------------------------------------------------
LEMMA InPlaceIs ==
  ASSUME NEW request, Placed(request)
  PROVE  InPlace(request)
BY DEF Placed, PlacedIn, InPlace

(* The rows of a request are as many as its events: one for each.          *)
LEMMA StoredAreAll ==
  ASSUME KeptInv, NEW request \in Requests, Placed(request)
  PROVE  Cardinality(Stored(request)) = Len(EventsOf(request))
<1> DEFINE events == EventsOf(request)
           m == Len(events)
           f == [k \in 1..m |-> CHOOSE r \in rows : r.body = events[k].body]
<1>1. /\ m \in Nat /\ DOMAIN events = 1..m
      /\ \A k \in DOMAIN events : events[k].body[1] = request.by
      /\ \A j, k \in DOMAIN events : events[j].body = events[k].body => j = k
  BY EventBodies
<1>2. request.by \in Writers
  BY DEF Requests
<1> HIDE DEF events, m
<1>3. \A k \in 1..m : \E r \in rows : r.body = events[k].body
  BY <1>1 DEF Placed, PlacedIn, events
<1>4. ASSUME NEW k \in 1..m PROVE f[k] \in rows /\ f[k].body = events[k].body
  BY <1>3
<1>5. DOMAIN f = 1..m /\ f = [k \in 1..m |-> f[k]]
  OBVIOUS
<1> HIDE DEF f
<1>6. Stored(request) = {r \in rows : \E k \in 1..m : r.body = events[k].body}
  BY <1>1 DEF Stored, events
<1>7. ASSUME NEW r \in rows, NEW k \in 1..m, r.body = events[k].body
      PROVE  r = f[k]
  <2>1. r.body = f[k].body /\ f[k] \in rows /\ r.body[1] \in Writers
    BY <1>1, <1>2, <1>4, <1>7
  <2> QED
    BY <2>1 DEF KeptInv, WrittenInv
<1>8. f \in [1..m -> Stored(request)]
  BY <1>4, <1>5, <1>6
<1>9. ASSUME NEW j \in 1..m, NEW k \in 1..m, f[j] = f[k] PROVE j = k
  BY <1>1, <1>4, <1>9
<1>10. \A r \in Stored(request) : \E k \in 1..m : f[k] = r
  BY <1>6, <1>7
<1>11. f \in Bijection(1..m, Stored(request))
  BY <1>8, <1>9, <1>10 DEF Bijection, Injection, Surjection, IsInjective
<1>12. ExistsBijection(1..m, Stored(request))
  BY <1>11 DEF ExistsBijection
<1> QED
  BY <1>1, <1>12, FS_CountingElements DEF m, events

LEMMA RequestsAreWhole == KeptInv => AllOrNothing
<1> SUFFICES ASSUME KeptInv, NEW request \in Asked
             PROVE  /\ Stored(request) # {} =>
                         /\ Cardinality(Stored(request)) = Len(EventsOf(request))
                         /\ InPlace(request)
                    /\ \/ resume = <<request.by, request.n>>
                       \/ \E r \in rows : /\ IsDraft(r) /\ r.body[1] = request.by
                                          /\ r.body[2] = request.n
                       => InPlace(request)
  BY DEF AllOrNothing
<1>1. PICK S \in {{answers[w][n].request : n \in DOMAIN answers[w]} : w \in Writers} :
        request \in S
  BY DEF Asked
<1>2. PICK w \in Writers : S = {answers[w][n].request : n \in DOMAIN answers[w]}
  BY <1>1
<1>3. PICK n \in DOMAIN answers[w] : request = answers[w][n].request
  BY <1>1, <1>2
<1>4. request \in Requests /\ request.by = w /\ n \in Nat
  BY <1>3, Typed DEF KeptInv
<1>5. request.n = n
  BY <1>3 DEF KeptInv, AskInv, AsksAt
<1>6. ASSUME NEW r \in rows, r.body[1] = w, r.body[2] = n
      PROVE  Placed(request)
  BY <1>3, <1>6 DEF KeptInv, WrittenInv
<1>7. ASSUME Stored(request) # {}
      PROVE  Placed(request)
  <2>1. PICK r \in rows : \E i \in DOMAIN EventsOf(request) : r.body = EventsOf(request)[i].body
    BY <1>7 DEF Stored
  <2>2. r.body[1] = w /\ r.body[2] = n
    BY <1>4, <1>5, <2>1, EventBodies
  <2> QED
    BY <1>6, <2>2
<1>8. ASSUME resume = <<request.by, request.n>>
      PROVE  Placed(request)
  <2>1. resume = <<w, n>> /\ <<w, n>> \in Writers \X Nat
    BY <1>4, <1>5, <1>8
  <2>2. resume # Nobody
    BY <2>1, NobodyAssumption
  <2>3. PICK u \in Writers : \E i \in DOMAIN answers[u] :
          resume = <<u, i>> /\ Placed(answers[u][i].request)
    BY <2>2 DEF KeptInv, WrittenInv
  <2>4. PICK i \in DOMAIN answers[u] : resume = <<u, i>> /\ Placed(answers[u][i].request)
    BY <2>3
  <2>5. u = w /\ i = n
    BY <2>1, <2>4
  <2> QED
    BY <1>3, <2>4, <2>5
<1> QED
  BY <1>4, <1>5, <1>6, <1>7, <1>8, StoredAreAll, InPlaceIs

(* A request is stored once and as a whole or not at all, though it is     *)
(* repeated after an attempt in doubt (durable/store.rs:77-83,             *)
(* durable.rs:761-774): an attempt that was carried out raised the         *)
(* revision, so that every later attempt of the same writer is refused.    *)
THEOREM RequestsAreStoredWhole == Spec => []AllOrNothing
BY KeptInvariant, RequestsAreWhole, PTL

(* What a writer is told is true for good: a stored request is in the      *)
(* sequence, a refused one left nothing (durable.rs:761-774).              *)
THEOREM AnswersStayTrue == Spec => []AnswersAreTrue
<1>1. KeptInv => AnswersAreTrue
  BY InPlaceIs DEF KeptInv, ToldInv, Unwritten, AnswersAreTrue
<1> QED
  BY <1>1, KeptInvariant, PTL

==============================================================================
