---------------------------- MODULE WebPartsProofs ----------------------------
(***************************************************************************)
(* Proofs about the parts of the web server that keep state, for any       *)
(* number of sessions, panes, texts, requests and steps: what the review   *)
(* of a checkout shows was made from its snapshot and a thread asks as     *)
(* long as a task works on it; what a user typed is shown until the        *)
(* session has had it, the prompt that is sent is the one that was shown,  *)
(* and a quiet tab shows the session's draft; the session in focus becomes *)
(* the active one.                                                         *)
(***************************************************************************)
EXTENDS WebParts, FiniteSetTheorems, SequenceTheorems, TLAPS

-----------------------------------------------------------------------------
(* The fields of the records; what they hold is said below.                *)
IsReview(v) ==
  v = [f \in {"generation", "version", "pages", "overviews", "active", "threads"} |-> v[f]]
IsCapture(v) == v = [f \in {"version", "content"} |-> v[f]]
IsLoading(v) == v = [f \in {"range", "generation", "version", "content"} |-> v[f]]
IsOperation(v) ==
  v = [f \in {"key", "version", "gate", "run", "outcome", "result"} |-> v[f]]
IsRequest(v) == v = [f \in {"at", "key", "op"} |-> v[f]]
IsQuestion(v) ==
  v = [f \in {"at", "thread", "generation", "version", "content", "cancelled"} |-> v[f]]
IsThread(v) == v = [f \in {"status", "name", "said", "from"} |-> v[f]]

-----------------------------------------------------------------------------
(* The inductive invariant.  Checkouts only grow, so what was read between *)
(* two looks at one version is of that version.                            *)
Between(version, content) == content \in Nat /\ version <= content /\ content <= disk

(* A version that work of a generation goes by: the version of the review, *)
(* as long as the generation is current.  No work is of a later one.       *)
GoesBy(generation, version) ==
  /\ generation \in Nat /\ generation <= review.generation
  /\ version \in Nat /\ version <= disk
  /\ Current(generation) => version = review.version

ReviewInv ==
  /\ disk \in Nat /\ IsReview(review)
  /\ review.generation \in Int /\ review.generation >= -1
  /\ review.version \in Nat /\ review.version <= disk

CaptureInv ==
  capture # None =>
    /\ IsCapture(capture) /\ capture.version \in Nat /\ capture.version <= disk
    /\ capture.content # None => Between(capture.version, capture.content)

LoadingInv ==
  loading # None =>
    /\ IsLoading(loading) /\ GoesBy(loading.generation, loading.version)
    /\ loading.content # None => Between(loading.version, loading.content)

(* An operation in the table or held by a request is there, and is the one *)
(* of their key.                                                           *)
Held(table, ops, s) ==
  /\ IsFiniteSet(DOMAIN ops) /\ DOMAIN s = Slots
  /\ \A o \in DOMAIN ops : IsOperation(ops[o])
  /\ \A k \in DOMAIN table : table[k] \in DOMAIN ops /\ ops[table[k]].key = k
  /\ \A r \in Slots : s[r] # None =>
       /\ IsRequest(s[r])
       /\ s[r].at # "waits" => s[r].op \in DOMAIN ops /\ ops[s[r].op].key = s[r].key

HeldInv == Held(operations, shared, slots)

(* A task goes by the version its operation began with.                    *)
RunIs(op) ==
  IsRunning(op) =>
    /\ GoesBy(op.key.generation, op.version)
    /\ op.run = "recheck" => Between(op.version, op.outcome)
    /\ op.run = "store" => op.outcome = Failed \/ op.outcome = op.version

RunInv == \A o \in DOMAIN shared : RunIs(shared[o])

QuestionInv ==
  \A name \in DOMAIN questions :
    LET q == questions[name] IN
    /\ IsQuestion(q) /\ GoesBy(q.generation, q.version)
    /\ q.at = "recheck" => Between(q.version, q.content)
    /\ q.at = "finish" => q.content = Failed \/ q.content = q.version
    /\ Current(q.generation) =>
         /\ q.thread \in DOMAIN review.threads
         /\ review.threads[q.thread].status = "asking"
         /\ review.threads[q.thread].name = name

ThreadInv ==
  \A t \in DOMAIN review.threads :
    LET thread == review.threads[t] IN
    /\ IsThread(thread) /\ thread.said \in Nat
    /\ thread.status \in {"asking", "idle", "error", "cancelled"}
    /\ thread.said % 2 = (IF thread.status = "idle" THEN 0 ELSE 1)
    /\ thread.status = "idle" => thread.from = review.version
    /\ thread.status = "asking" =>
         /\ thread.name \in DOMAIN questions
         /\ questions[thread.name].thread = t
         /\ Current(questions[thread.name].generation)

PagesInv ==
  /\ \A r \in DOMAIN review.pages :
       review.pages[r] = review.version \/ (r = Default /\ disk # review.version)
  /\ \A k \in DOMAIN review.overviews : review.overviews[k] = review.version

EngineInv ==
  ReviewInv /\ CaptureInv /\ LoadingInv /\ HeldInv /\ RunInv /\ QuestionInv
    /\ ThreadInv /\ PagesInv

-----------------------------------------------------------------------------
LEMMA WithIs ==
  ASSUME NEW f, NEW x, NEW v
  PROVE  /\ DOMAIN With(f, x, v) = DOMAIN f \cup {x}
         /\ With(f, x, v)[x] = v
         /\ \A y \in DOMAIN f : y # x => With(f, x, v)[y] = f[y]
BY DEF With

LEMMA WithAgain ==
  ASSUME NEW f, NEW x \in DOMAIN f, NEW v
  PROVE  /\ DOMAIN With(f, x, v) = DOMAIN f
         /\ With(f, x, v)[x] = v
         /\ \A y \in DOMAIN f : y # x => With(f, x, v)[y] = f[y]
<1>1. DOMAIN f \cup {x} = DOMAIN f
  OBVIOUS
<1> QED
  BY <1>1 DEF With

LEMMA WithoutIs ==
  ASSUME NEW f, NEW x
  PROVE  /\ DOMAIN Without(f, x) = DOMAIN f \ {x}
         /\ \A y \in DOMAIN f : y # x => Without(f, x)[y] = f[y]
BY DEF Without

LEMMA Parity ==
  \A n \in Nat : (n % 2 = 0 => (n + 1) % 2 = 1) /\ (n % 2 = 1 => (n + 1) % 2 = 0)
BY SMT

(* What the table, the requests and the tasks hold is kept, and nothing    *)
(* else than what there was.                                               *)
LEMMA BecomesKeeps ==
  ASSUME NEW table, NEW ops, NEW s, Becomes(table, ops, s), Held(table, ops, s)
  PROVE  /\ HeldInv'
         /\ DOMAIN shared' \subseteq DOMAIN ops
         /\ \A o \in DOMAIN shared' : shared'[o] = ops[o]
<1>1. /\ operations' = table /\ slots' = s
      /\ DOMAIN shared' = {p \in DOMAIN ops : IsHeld(p, table, s, ops)}
      /\ \A o \in DOMAIN shared' : shared'[o] = ops[o]
  BY DEF Becomes
<1>2. ASSUME NEW k \in DOMAIN table PROVE IsHeld(table[k], table, s, ops)
  BY DEF IsHeld, InTable
<1>3. ASSUME NEW r \in Slots, s[r] # None, s[r].at # "waits"
      PROVE  IsHeld(s[r].op, table, s, ops)
  BY <1>3 DEF IsHeld, Holders
<1>4. IsFiniteSet(DOMAIN shared')
  BY <1>1, FS_Subset DEF Held
<1>5. \A k \in DOMAIN table : table[k] \in DOMAIN shared' /\ shared'[table[k]].key = k
  BY <1>1, <1>2 DEF Held
<1>6. ASSUME NEW r \in Slots, s[r] # None
      PROVE  /\ IsRequest(s[r])
             /\ s[r].at # "waits" =>
                  s[r].op \in DOMAIN shared' /\ shared'[s[r].op].key = s[r].key
  BY <1>1, <1>3, <1>6 DEF Held
<1> QED
  BY <1>1, <1>4, <1>5, <1>6 DEF HeldInv, Held

LEMMA HeldComes ==
  ASSUME NEW table, NEW ops, NEW s, Held(table, ops, s), NEW r \in Slots, NEW v,
         v # None => IsRequest(v),
         v # None /\ v.at # "waits" => v.op \in DOMAIN ops /\ ops[v.op].key = v.key
  PROVE  Held(table, ops, With(s, r, v))
<1> DEFINE w == With(s, r, v)
<1>1. DOMAIN w = Slots /\ w[r] = v /\ \A q \in Slots : q # r => w[q] = s[q]
  <2>1. DOMAIN s = Slots
    BY DEF Held
  <2> QED
    BY <2>1, WithAgain
<1> HIDE DEF w
<1>2. Held(table, ops, w)
  BY <1>1 DEF Held
<1> QED
  BY <1>2 DEF w

LEMMA HeldLeaves ==
  ASSUME NEW table, NEW ops, NEW s, Held(table, ops, s), NEW r \in Slots
  PROVE  Held(table, ops, With(s, r, None))
BY HeldComes

LEMMA HeldWithout ==
  ASSUME NEW table, NEW ops, NEW s, Held(table, ops, s), NEW k
  PROVE  Held(Without(table, k), ops, s)
<1> DEFINE w == Without(table, k)
<1>1. \A q \in DOMAIN w : q \in DOMAIN table /\ w[q] = table[q]
  BY WithoutIs
<1> HIDE DEF w
<1>2. Held(w, ops, s)
  BY <1>1 DEF Held
<1> QED
  BY <1>2 DEF w

LEMMA HeldChanges ==
  ASSUME NEW table, NEW ops, NEW s, Held(table, ops, s), NEW new,
         DOMAIN new = DOMAIN ops,
         \A o \in DOMAIN ops : IsOperation(new[o]) /\ new[o].key = ops[o].key
  PROVE  Held(table, new, s)
BY DEF Held

(* What a step that concerns overviews only has to show.                   *)
SameSnapshot ==
  /\ IsReview(review')
  /\ review'.generation = review.generation /\ review'.version = review.version
  /\ review'.pages = review.pages /\ review'.threads = review.threads

LEMMA OverviewStep ==
  ASSUME EngineInv, NEW table, NEW ops, NEW s,
         Becomes(table, ops, s), Held(table, ops, s),
         \A o \in DOMAIN ops : RunIs(ops[o]),
         UNCHANGED <<disk, capture, loading, questions>>, SameSnapshot,
         \A k \in DOMAIN review'.overviews : review'.overviews[k] = review.version
  PROVE  EngineInv'
<1>1. /\ disk' = disk /\ capture' = capture /\ loading' = loading
      /\ questions' = questions
  OBVIOUS
<1>2. ReviewInv' /\ CaptureInv'
  BY <1>1 DEF EngineInv, ReviewInv, CaptureInv, SameSnapshot, Between
<1>3. \A g, v : GoesBy(g, v)' <=> GoesBy(g, v)
  BY <1>1 DEF SameSnapshot, GoesBy, Current
<1>4. \A v, c : Between(v, c)' <=> Between(v, c)
  BY <1>1 DEF Between
<1>5. LoadingInv'
  BY <1>1, <1>3, <1>4 DEF EngineInv, LoadingInv
<1>6. HeldInv'
  BY BecomesKeeps
<1>7. RunInv'
  <2> SUFFICES ASSUME NEW o \in DOMAIN shared' PROVE RunIs(shared[o])'
    BY DEF RunInv
  <2>1. o \in DOMAIN ops /\ shared'[o] = ops[o]
    BY BecomesKeeps
  <2>2. RunIs(ops[o])
    BY <2>1
  <2> QED
    BY <2>1, <2>2, <1>3, <1>4 DEF RunIs
<1>8. QuestionInv'
  BY <1>1, <1>3, <1>4 DEF EngineInv, QuestionInv, SameSnapshot, Current
<1>9. ThreadInv'
  BY <1>1 DEF EngineInv, ThreadInv, SameSnapshot, Current
<1>10. PagesInv'
  BY <1>1 DEF EngineInv, PagesInv, SameSnapshot
<1> QED
  BY <1>2, <1>5, <1>6, <1>7, <1>8, <1>9, <1>10 DEF EngineInv

-----------------------------------------------------------------------------
(* The steps that concern an overview: what they leave of the operations,  *)
(* the requests and the review.                                            *)
LEMMA UngatedKeeps ==
  ASSUME HeldInv, RunInv, NEW r
  PROVE  /\ DOMAIN Ungated(r) = DOMAIN shared
         /\ \A o \in DOMAIN shared :
              /\ IsOperation(Ungated(r)[o]) /\ Ungated(r)[o].key = shared[o].key
              /\ RunIs(Ungated(r)[o])
<1> SUFFICES ASSUME NEW o \in DOMAIN shared
             PROVE  /\ IsOperation(Ungated(r)[o]) /\ Ungated(r)[o].key = shared[o].key
                    /\ RunIs(Ungated(r)[o])
  BY DEF Ungated
<1>1. IsOperation(shared[o]) /\ RunIs(shared[o])
  BY DEF HeldInv, Held, RunInv
<1>2. \/ Ungated(r)[o] = shared[o]
      \/ Ungated(r)[o] = [shared[o] EXCEPT !.gate = None]
  BY DEF Ungated
<1>3. LET v == [shared[o] EXCEPT !.gate = None] IN
      IsOperation(v) /\ v.key = shared[o].key /\ v.version = shared[o].version
        /\ v.run = shared[o].run /\ v.outcome = shared[o].outcome
  BY <1>1 DEF IsOperation
<1> QED
  BY <1>1, <1>2, <1>3 DEF RunIs, IsRunning

LEMMA ChangedKeeps ==
  ASSUME HeldInv, RunInv, NEW o \in DOMAIN shared, NEW v,
         IsOperation(v), v.key = shared[o].key, RunIs(v)
  PROVE  /\ DOMAIN With(shared, o, v) = DOMAIN shared
         /\ \A p \in DOMAIN shared :
              /\ IsOperation(With(shared, o, v)[p])
              /\ With(shared, o, v)[p].key = shared[p].key
              /\ RunIs(With(shared, o, v)[p])
<1> DEFINE w == With(shared, o, v)
<1>1. DOMAIN w = DOMAIN shared /\ w[o] = v /\ \A p \in DOMAIN shared : p # o => w[p] = shared[p]
  BY WithAgain
<1> HIDE DEF w
<1>2. \A p \in DOMAIN shared :
        IsOperation(w[p]) /\ w[p].key = shared[p].key /\ RunIs(w[p])
  BY <1>1 DEF HeldInv, Held, RunInv
<1> QED
  BY <1>1, <1>2 DEF w

LEMMA ActiveOnly ==
  ASSUME EngineInv, NEW k,
         review' = review \/ review' = [review EXCEPT !.active = k]
  PROVE  /\ SameSnapshot
         /\ \A j \in DOMAIN review'.overviews : review'.overviews[j] = review.version
<1>1. IsReview(review) /\ \A j \in DOMAIN review.overviews : review.overviews[j] = review.version
  BY DEF EngineInv, ReviewInv, PagesInv
<1>2. /\ IsReview(review')
      /\ review'.generation = review.generation /\ review'.version = review.version
      /\ review'.pages = review.pages /\ review'.threads = review.threads
      /\ review'.overviews = review.overviews
  BY <1>1 DEF IsReview
<1> QED
  BY <1>1, <1>2 DEF SameSnapshot

LEMMA RequestGoes ==
  ASSUME HeldInv, NEW r \in Slots, NEW at, slots[r] # None, slots[r].at # "waits"
  PROVE  Held(operations, shared, Goes(r, at))
<1> DEFINE v == [slots[r] EXCEPT !.at = at]
<1>1. /\ IsRequest(slots[r]) /\ slots[r].op \in DOMAIN shared
      /\ shared[slots[r].op].key = slots[r].key
  BY DEF HeldInv, Held
<1>2. IsRequest(v) /\ v.op = slots[r].op /\ v.key = slots[r].key
  BY <1>1 DEF IsRequest
<1> HIDE DEF v
<1>3. Held(operations, shared, With(slots, r, v))
  BY <1>1, <1>2, HeldComes DEF HeldInv
<1> QED
  BY <1>3 DEF Goes, v

LEMMA ARequestLeaves ==
  ASSUME EngineInv, NEW r \in Slots, NEW table,
         table = operations \/ \E k : table = Without(operations, k),
         Becomes(table, Ungated(r), Leaves(r)),
         UNCHANGED <<disk, review, capture, loading, questions>>
  PROVE  EngineInv'
<1>1. HeldInv /\ RunInv
  BY DEF EngineInv
<1>2. Held(table, shared, slots)
  BY <1>1, HeldWithout DEF HeldInv
<1>3. Held(table, Ungated(r), slots)
  BY <1>1, <1>2, UngatedKeeps, HeldChanges
<1>4. Held(table, Ungated(r), Leaves(r))
  BY <1>3, HeldLeaves DEF Leaves
<1>5. \A o \in DOMAIN Ungated(r) : RunIs(Ungated(r)[o])
  BY <1>1, UngatedKeeps
<1>6. /\ SameSnapshot
      /\ \A j \in DOMAIN review'.overviews : review'.overviews[j] = review.version
  BY ActiveOnly
<1> QED
  BY <1>4, <1>5, <1>6, OverviewStep

LEMMA AnOperationChanges ==
  ASSUME EngineInv, NEW table, NEW o \in DOMAIN shared, NEW v, NEW s,
         table = operations \/ \E k : table = Without(operations, k),
         IsOperation(v), v.key = shared[o].key, RunIs(v),
         Held(operations, shared, s),
         Becomes(table, With(shared, o, v), s),
         UNCHANGED <<disk, capture, loading, questions>>, SameSnapshot,
         \A j \in DOMAIN review'.overviews : review'.overviews[j] = review.version
  PROVE  EngineInv'
<1>1. HeldInv /\ RunInv
  BY DEF EngineInv
<1>2. Held(table, shared, s)
  BY HeldWithout
<1>3. Held(table, With(shared, o, v), s)
  BY <1>1, <1>2, ChangedKeeps, HeldChanges
<1>4. \A p \in DOMAIN With(shared, o, v) : RunIs(With(shared, o, v)[p])
  BY <1>1, ChangedKeeps
<1> QED
  BY <1>3, <1>4, OverviewStep

-----------------------------------------------------------------------------
LEMMA Asks ==
  ASSUME EngineInv, NEW r \in Slots, NEW key, Ask(r, key)
  PROVE  EngineInv'
<1>1. HeldInv /\ RunInv
  BY DEF EngineInv
<1>2. /\ SameSnapshot
      /\ \A j \in DOMAIN review'.overviews : review'.overviews[j] = review.version
  BY ActiveOnly DEF Ask
<1>3. CASE key \in DOMAIN operations
  <2> DEFINE v == [at |-> "join", key |-> key, op |-> operations[key]]
  <2>1. Becomes(operations, shared, With(slots, r, v))
    BY <1>3 DEF Ask
  <2>2. IsRequest(v) /\ v.op \in DOMAIN shared /\ shared[v.op].key = v.key
    BY <1>1, <1>3 DEF IsRequest, HeldInv, Held
  <2> HIDE DEF v
  <2>3. Held(operations, shared, With(slots, r, v))
    BY <1>1, <2>2, HeldComes DEF HeldInv
  <2>4. \A o \in DOMAIN shared : RunIs(shared[o])
    BY <1>1 DEF RunInv
  <2> QED
    BY <1>2, <2>1, <2>3, <2>4, OverviewStep DEF Ask
<1>4. CASE key \notin DOMAIN operations
  <2> DEFINE Ids == 1..(Cardinality(DOMAIN shared) + 1)
             o == CHOOSE p \in Ids : p \notin DOMAIN shared
             v == [at |-> "gate", key |-> key, op |-> o]
             op == NewOperation(key)
  <2>1. Becomes(With(operations, key, o), With(shared, o, op), With(slots, r, v))
    BY <1>4 DEF Ask
  <2>2. \E p \in Ids : p \notin DOMAIN shared
    <3>1. IsFiniteSet(DOMAIN shared)
      BY <1>1 DEF HeldInv, Held
    <3>2. Cardinality(DOMAIN shared) \in Nat
      BY <3>1, FS_CardinalityType
    <3>3. IsFiniteSet(Ids) /\ Cardinality(Ids) = Cardinality(DOMAIN shared) + 1
      BY <3>2, FS_Interval
    <3>4. Ids \subseteq DOMAIN shared => Cardinality(Ids) <= Cardinality(DOMAIN shared)
      BY <3>1, FS_Subset
    <3> QED
      BY <3>2, <3>3, <3>4
  <2>3. o \notin DOMAIN shared
    BY <2>2
  <2>4. IsOperation(op) /\ op.key = key /\ RunIs(op)
    BY DEF NewOperation, IsOperation, RunIs, IsRunning
  <2>5. IsRequest(v) /\ v.op = o /\ v.key = key
    BY DEF IsRequest
  <2> HIDE DEF o, v, op
  <2> DEFINE ops == With(shared, o, op)
             table == With(operations, key, o)
  <2>6. /\ DOMAIN ops = DOMAIN shared \cup {o} /\ ops[o] = op
        /\ \A p \in DOMAIN shared : ops[p] = shared[p]
    BY <2>3 DEF With
  <2>7. /\ DOMAIN table = DOMAIN operations \cup {key} /\ table[key] = o
        /\ \A k \in DOMAIN operations : table[k] = operations[k]
    BY <1>4 DEF With
  <2> HIDE DEF ops, table
  <2>8. IsFiniteSet(DOMAIN ops)
    BY <1>1, <2>6, FS_AddElement DEF HeldInv, Held
  <2>9. Held(table, ops, slots)
    BY <1>1, <2>4, <2>6, <2>7, <2>8 DEF HeldInv, Held
  <2>10. Held(table, ops, With(slots, r, v))
    BY <2>4, <2>5, <2>6, <2>9, HeldComes
  <2>11. \A p \in DOMAIN ops : RunIs(ops[p])
    BY <1>1, <2>4, <2>6 DEF RunInv
  <2>12. Becomes(table, ops, With(slots, r, v))
    BY <2>1 DEF table, ops
  <2> QED
    BY <1>2, <2>10, <2>11, <2>12, OverviewStep DEF Ask
<1> QED
  BY <1>3, <1>4

LEMMA Joins ==
  ASSUME EngineInv, NEW r \in Slots, Join(r)
  PROVE  EngineInv'
<1>1. HeldInv /\ RunInv
  BY DEF EngineInv
<1>2. /\ SameSnapshot
      /\ \A j \in DOMAIN review'.overviews : review'.overviews[j] = review.version
  BY ActiveOnly DEF Join, StartOverview
<1>3. /\ slots[r] # None /\ IsRequest(slots[r]) /\ slots[r].op \in DOMAIN shared
      /\ shared[slots[r].op].key = slots[r].key
  BY <1>1 DEF Join, At, HeldInv, Held
<1>4. Held(operations, shared, Leaves(r))
  BY <1>1, HeldLeaves DEF HeldInv, Leaves
<1>5. Held(operations, shared, Goes(r, "gate"))
  BY <1>1, <1>3, RequestGoes DEF Join, At
<1>6. \A o \in DOMAIN shared : RunIs(shared[o])
  BY <1>1 DEF RunInv
<1>7. Becomes(operations, shared, Goes(r, "gate")) \/ Becomes(operations, shared, Leaves(r))
  BY DEF Join
<1> QED
  BY <1>2, <1>4, <1>5, <1>6, <1>7, OverviewStep DEF Join

(* The request that has the gate of its operation.                         *)
LEMMA TheGated ==
  ASSUME HeldInv, RunInv, NEW r \in Slots, At(r, "gate")
  PROVE  /\ slots[r].op \in DOMAIN shared
         /\ Operation(r) = shared[slots[r].op] /\ Operation(r).key = slots[r].key
         /\ IsOperation(Operation(r)) /\ RunIs(Operation(r))
         /\ IsOperation([Operation(r) EXCEPT !.gate = r])
         /\ [Operation(r) EXCEPT !.gate = r].key = slots[r].key
         /\ RunIs([Operation(r) EXCEPT !.gate = r])
         /\ \A at : Held(operations, shared, Goes(r, at))
<1>1. /\ slots[r].op \in DOMAIN shared /\ shared[slots[r].op].key = slots[r].key
      /\ IsOperation(shared[slots[r].op]) /\ IsRequest(slots[r]) /\ slots[r] # None
  BY DEF At, HeldInv, Held
<1>2. Operation(r) = shared[slots[r].op]
  BY DEF Operation
<1>3. RunIs(Operation(r))
  BY <1>1, <1>2 DEF RunInv
<1>4. LET v == [Operation(r) EXCEPT !.gate = r] IN
      IsOperation(v) /\ v.key = slots[r].key /\ v.version = Operation(r).version
        /\ v.run = Operation(r).run /\ v.outcome = Operation(r).outcome
        /\ v.key = Operation(r).key
  BY <1>1, <1>2 DEF IsOperation
<1>5. RunIs([Operation(r) EXCEPT !.gate = r])
  BY <1>3, <1>4 DEF RunIs, IsRunning
<1>6. ASSUME NEW at PROVE Held(operations, shared, Goes(r, at))
  BY <1>1, RequestGoes DEF At
<1> QED
  BY <1>1, <1>2, <1>3, <1>4, <1>5, <1>6

LEMMA TakesResult ==
  ASSUME EngineInv, NEW r \in Slots, TakeResult(r)
  PROVE  EngineInv'
<1>1. HeldInv /\ RunInv /\ At(r, "gate")
  BY DEF EngineInv, TakeResult, HasGate
<1>2. /\ SameSnapshot
      /\ \A j \in DOMAIN review'.overviews : review'.overviews[j] = review.version
  BY ActiveOnly DEF TakeResult, FinishOverview
<1>3. Becomes(operations, With(shared, slots[r].op, [Operation(r) EXCEPT !.gate = r]),
              Goes(r, "remove"))
  BY DEF TakeResult, Gated
<1> HIDE DEF Operation
<1> QED
  BY <1>1, <1>2, <1>3, TheGated, AnOperationChanges DEF TakeResult

LEMMA StartsRun ==
  ASSUME EngineInv, NEW r \in Slots, StartRun(r)
  PROVE  EngineInv'
<1>1. HeldInv /\ RunInv /\ At(r, "gate")
  BY DEF EngineInv, StartRun, HasGate
<1>2. /\ SameSnapshot
      /\ \A j \in DOMAIN review'.overviews : review'.overviews[j] = review.version
  BY ActiveOnly DEF StartRun, StartOverview
<1>3. CASE MayRun(r)
  <2> DEFINE v == [Operation(r) EXCEPT !.run = "check", !.gate = "task",
                                       !.version = review.version]
  <2>1. Becomes(operations, With(shared, slots[r].op, v), Goes(r, "waits"))
    BY <1>3 DEF StartRun
  <2>2. /\ IsOperation(v) /\ v.key = slots[r].key /\ v.version = review.version
        /\ v.run = "check"
    <3>1. IsOperation(Operation(r)) /\ Operation(r).key = slots[r].key
      BY <1>1, TheGated
    <3> QED
      BY <3>1 DEF IsOperation
  <2>3. GoesBy(v.key.generation, v.version)
    BY <1>3, <2>2 DEF MayRun, MatchingPage, GoesBy, EngineInv, ReviewInv, StartRun, IsLoaded
  <2>4. RunIs(v)
    BY <2>2, <2>3 DEF RunIs
  <2> HIDE DEF v
  <2> QED
    BY <1>1, <1>2, <2>1, <2>2, <2>4, TheGated, AnOperationChanges DEF StartRun
<1>4. CASE ~MayRun(r)
  <2>1. Becomes(operations, With(shared, slots[r].op, [Operation(r) EXCEPT !.gate = r]),
                Goes(r, "discard"))
    BY <1>4 DEF StartRun, Gated
  <2> QED
    BY <1>1, <1>2, <2>1, TheGated, AnOperationChanges DEF StartRun
<1> QED
  BY <1>3, <1>4

LEMMA RequestsLeave ==
  ASSUME EngineInv, NEW r \in Slots, RemoveKey(r) \/ Discard(r) \/ RequestDropped(r)
  PROVE  EngineInv'
<1>1. CASE RemoveKey(r)
  BY <1>1, ARequestLeaves DEF RemoveKey
<1>2. CASE Discard(r)
  <2>1. \E table : /\ table = operations \/ \E k : table = Without(operations, k)
                   /\ Becomes(table, Ungated(r), Leaves(r))
    BY <1>2 DEF Discard
  <2> QED
    BY <1>2, <2>1, ARequestLeaves DEF Discard
<1>3. CASE RequestDropped(r)
  BY <1>3, ARequestLeaves DEF RequestDropped
<1> QED
  BY <1>1, <1>2, <1>3

(* The task of an overview.                                                *)
LEMMA ARunChanges ==
  ASSUME EngineInv, NEW o \in DOMAIN shared, NEW run, NEW outcome,
         run = "recheck" => Between(shared[o].version, outcome),
         run = "store" => outcome = Failed \/ outcome = shared[o].version,
         IsRunning(shared[o]), Runs(o, run, outcome),
         UNCHANGED <<disk, capture, loading, questions>>, SameSnapshot,
         \A j \in DOMAIN review'.overviews : review'.overviews[j] = review.version
  PROVE  EngineInv'
<1> DEFINE v == [shared[o] EXCEPT !.run = run, !.outcome = outcome]
<1>1. HeldInv /\ RunInv /\ IsOperation(shared[o])
  BY DEF EngineInv, HeldInv, Held
<1>2. /\ IsOperation(v) /\ v.key = shared[o].key /\ v.version = shared[o].version
      /\ v.run = run /\ v.outcome = outcome
  BY <1>1 DEF IsOperation
<1>3. Becomes(operations, With(shared, o, v), slots)
  BY DEF Runs
<1> HIDE DEF v
<1>4. RunIs(v)
  BY <1>1, <1>2 DEF RunInv, RunIs
<1> QED
  BY <1>1, <1>2, <1>3, <1>4, AnOperationChanges DEF HeldInv

LEMMA RunsGoOn ==
  ASSUME EngineInv, NEW o \in DOMAIN shared, RunGoesOn(o) \/ RunFails(o)
  PROVE  EngineInv'
<1>1. UNCHANGED <<disk, review, capture, loading, questions>>
  BY DEF RunGoesOn, RunFails
<1>2. /\ SameSnapshot
      /\ \A j \in DOMAIN review'.overviews : review'.overviews[j] = review.version
  BY <1>1, ActiveOnly
<1>3. RunIs(shared[o]) /\ disk \in Nat
  BY DEF EngineInv, RunInv, ReviewInv
<1>4. CASE shared[o].run = "check" /\ Runs(o, "agent", None)
  BY <1>1, <1>2, <1>4, ARunChanges DEF IsRunning
<1>5. CASE shared[o].run = "agent" /\ Runs(o, "recheck", disk)
  <2>1. IsRunning(shared[o])
    BY <1>5 DEF IsRunning
  <2>2. Between(shared[o].version, disk)
    BY <1>3, <2>1 DEF RunIs, GoesBy, Between
  <2> QED
    BY <1>1, <1>2, <1>5, <2>1, <2>2, ARunChanges
<1>6. CASE /\ shared[o].run = "recheck" /\ IsUnchanged(Work(o))
           /\ Runs(o, "store", shared[o].outcome)
  <2>1. IsRunning(shared[o])
    BY <1>6 DEF IsRunning
  <2>2. shared[o].version \in Nat /\ Between(shared[o].version, shared[o].outcome)
    BY <1>3, <1>6, <2>1 DEF RunIs, GoesBy
  <2>3. shared[o].outcome = shared[o].version
    BY <1>6, <2>2 DEF IsUnchanged, Work, Between
  <2> QED
    BY <1>1, <1>2, <1>6, <2>1, <2>3, ARunChanges
<1>7. CASE RunFails(o)
  BY <1>1, <1>2, <1>7, ARunChanges DEF RunFails, IsRunning
<1> QED
  BY <1>4, <1>5, <1>6, <1>7 DEF RunGoesOn

LEMMA ResultIsStored ==
  ASSUME EngineInv, NEW o \in DOMAIN shared, StoreResult(o)
  PROVE  EngineInv'
<1> DEFINE key == shared[o].key
           good == ~busy /\ MatchingPage(key.generation, Default) /\ shared[o].outcome # Failed
           finished == IF review.active = key THEN [review EXCEPT !.active = None] ELSE review
<1>1. /\ shared[o].run = "store" /\ IsRunning(shared[o]) /\ RunIs(shared[o])
      /\ IsReview(review)
  BY DEF StoreResult, IsRunning, EngineInv, RunInv, ReviewInv
<1>2. /\ IsReview(finished)
      /\ finished.generation = review.generation /\ finished.version = review.version
      /\ finished.pages = review.pages /\ finished.threads = review.threads
      /\ finished.overviews = review.overviews
  BY <1>1 DEF IsReview
<1>3. /\ review' = IF good THEN [finished EXCEPT !.overviews =
                                    With(@, key.overview, shared[o].outcome)]
                    ELSE finished
      /\ \E outcome : Runs(o, "record", outcome)
      /\ UNCHANGED <<disk, capture, loading, questions>>
  BY DEF StoreResult
<1>4. \A j \in DOMAIN review.overviews : review.overviews[j] = review.version
  BY DEF EngineInv, PagesInv
<1> HIDE DEF finished
<1>5. CASE good
  <2>1. shared[o].outcome = review.version
    BY <1>1, <1>5 DEF RunIs, GoesBy, MatchingPage, Current
  <2> DEFINE overviews == With(finished.overviews, key.overview, shared[o].outcome)
  <2>2. \A j \in DOMAIN overviews : overviews[j] = review.version
    BY <1>2, <1>4, <2>1 DEF With
  <2>3. review' = [finished EXCEPT !.overviews = overviews]
    BY <1>3, <1>5
  <2> HIDE DEF overviews
  <2>4. SameSnapshot /\ review'.overviews = overviews
    BY <1>2, <2>3 DEF SameSnapshot, IsReview
  <2> QED
    BY <1>1, <1>3, <2>2, <2>4, ARunChanges
<1>6. CASE ~good
  <2>1. review' = finished
    BY <1>3, <1>6
  <2>2. SameSnapshot /\ review'.overviews = review.overviews
    BY <1>2, <2>1 DEF SameSnapshot
  <2> QED
    BY <1>1, <1>3, <1>4, <2>2, ARunChanges
<1> QED
  BY <1>5, <1>6

LEMMA ResultIsSent ==
  ASSUME EngineInv, NEW o \in DOMAIN shared, SendResult(o) \/ ForgetOperation(o)
  PROVE  EngineInv'
<1>1. HeldInv /\ RunInv /\ IsOperation(shared[o]) /\ RunIs(shared[o])
  BY DEF EngineInv, HeldInv, Held, RunInv
<1>2. UNCHANGED <<disk, review, capture, loading, questions>>
  BY DEF SendResult, ForgetOperation
<1>3. /\ SameSnapshot
      /\ \A j \in DOMAIN review'.overviews : review'.overviews[j] = review.version
  BY <1>2, ActiveOnly
<1>4. CASE SendResult(o)
  <2> DEFINE asked == {r \in Slots : At(r, "waits") /\ slots[r].op = o}
             after == [r \in Slots |-> IF r \in asked THEN None ELSE slots[r]]
             V(run, gate) == [shared[o] EXCEPT !.result = shared[o].outcome,
                                               !.run = run, !.gate = gate]
  <2>1. \E run, gate : /\ run \in {"forget", "no"}
                      /\ Becomes(operations, With(shared, o, V(run, gate)), after)
    <3> DEFINE waiting == StrongCount(o, operations, slots, shared) > 2
               run == IF asked # {} \/ ~waiting THEN "forget" ELSE "no"
               gate == IF asked # {} \/ ~waiting THEN shared[o].gate ELSE None
    <3>1. Becomes(operations, With(shared, o, V(run, gate)), after)
      BY <1>4 DEF SendResult
    <3>2. run \in {"forget", "no"}
      OBVIOUS
    <3> HIDE DEF run, gate, V, after
    <3> QED
      BY <3>1, <3>2
  <2>2. PICK run, gate : /\ run \in {"forget", "no"}
                         /\ Becomes(operations, With(shared, o, V(run, gate)), after)
    BY <2>1
  <2> DEFINE v == V(run, gate)
  <2>3. /\ IsOperation(v) /\ v.key = shared[o].key /\ v.version = shared[o].version
        /\ v.run \in {"forget", "no"}
    BY <1>1, <2>2 DEF IsOperation
  <2>4. GoesBy(shared[o].key.generation, shared[o].version)
    BY <1>1, <1>4 DEF SendResult, RunIs, IsRunning
  <2>5. Held(operations, shared, after)
    BY <1>1 DEF HeldInv, Held
  <2>6. Becomes(operations, With(shared, o, v), after)
    BY <2>2
  <2> HIDE DEF v
  <2>7. RunIs(v)
    BY <2>3, <2>4 DEF RunIs
  <2> QED
    BY <1>2, <1>3, <2>3, <2>5, <2>6, <2>7, AnOperationChanges
<1>5. CASE ForgetOperation(o)
  <2> DEFINE v == [shared[o] EXCEPT !.run = "no", !.gate = None]
  <2>1. IsOperation(v) /\ v.key = shared[o].key /\ v.run = "no"
    BY <1>1 DEF IsOperation
  <2>2. Becomes(Without(operations, shared[o].key), With(shared, o, v), slots)
    BY <1>5 DEF ForgetOperation
  <2> HIDE DEF v
  <2>3. RunIs(v)
    BY <2>1 DEF RunIs, IsRunning
  <2> QED
    BY <1>1, <1>2, <1>3, <2>1, <2>2, <2>3, AnOperationChanges DEF HeldInv
<1> QED
  BY <1>4, <1>5

-----------------------------------------------------------------------------
(* The checkout, and the capture that replaces the review.                 *)
LEMMA FilesMove ==
  ASSUME EngineInv, FilesChange
  PROVE  EngineInv'
<1>1. /\ disk \in Nat /\ disk' = disk + 1 /\ review' = review /\ capture' = capture
      /\ loading' = loading /\ questions' = questions /\ operations' = operations
      /\ shared' = shared /\ slots' = slots
  BY DEF FilesChange, EngineInv, ReviewInv
<1>2. \A g, v : GoesBy(g, v) => GoesBy(g, v)'
  BY <1>1 DEF GoesBy, Current
<1>3. \A v, c : Between(v, c) => Between(v, c)'
  BY <1>1 DEF Between
<1>4. ReviewInv'
  BY <1>1 DEF EngineInv, ReviewInv
<1>5. CaptureInv'
  BY <1>1, <1>3 DEF EngineInv, CaptureInv
<1>6. LoadingInv'
  BY <1>1, <1>2, <1>3 DEF EngineInv, LoadingInv
<1>7. HeldInv'
  BY <1>1 DEF EngineInv, HeldInv
<1>8. RunInv'
  BY <1>1, <1>2, <1>3 DEF EngineInv, RunInv, RunIs
<1>9. QuestionInv'
  BY <1>1, <1>2, <1>3 DEF EngineInv, QuestionInv, Current
<1>10. ThreadInv'
  BY <1>1 DEF EngineInv, ThreadInv, Current
<1>11. PagesInv'
  BY <1>1 DEF EngineInv, ReviewInv, PagesInv
<1> QED
  BY <1>4, <1>5, <1>6, <1>7, <1>8, <1>9, <1>10, <1>11 DEF EngineInv

(* A step that leaves the checkout and the review as they are.             *)
LEMMA WorkStep ==
  ASSUME EngineInv, CaptureInv', LoadingInv', QuestionInv', ThreadInv',
         UNCHANGED <<disk, review, operations, shared, slots>>
  PROVE  EngineInv'
<1>1. /\ disk' = disk /\ review' = review /\ operations' = operations
      /\ shared' = shared /\ slots' = slots
  OBVIOUS
<1>2. ReviewInv' /\ PagesInv'
  BY <1>1 DEF EngineInv, ReviewInv, PagesInv
<1>3. HeldInv'
  BY <1>1 DEF EngineInv, HeldInv
<1>4. RunInv'
  BY <1>1 DEF EngineInv, RunInv, RunIs, GoesBy, Between, Current
<1> QED
  BY <1>2, <1>3, <1>4 DEF EngineInv

LEMMA WorkOnly ==
  ASSUME EngineInv, CaptureInv', LoadingInv',
         UNCHANGED <<disk, review, operations, shared, slots, questions>>
  PROVE  EngineInv'
<1>1. disk' = disk /\ review' = review /\ questions' = questions
  OBVIOUS
<1>2. QuestionInv' /\ ThreadInv'
  BY <1>1 DEF EngineInv, QuestionInv, ThreadInv, GoesBy, Between, Current
<1> QED
  BY <1>2, WorkStep

LEMMA Captures ==
  ASSUME EngineInv, TurnRuns \/ BeginCapture \/ CaptureCollects \/ CaptureFails
  PROVE  EngineInv'
<1>1. UNCHANGED <<disk, review, loading, operations, shared, slots, questions>>
  BY DEF TurnRuns, BeginCapture, CaptureCollects, CaptureFails, engineVars
<1>2. LoadingInv'
  BY <1>1 DEF EngineInv, LoadingInv, GoesBy, Between, Current
<1>3. CaptureInv'
  <2>1. CASE TurnRuns
    BY <2>1 DEF TurnRuns, EngineInv, CaptureInv, Between
  <2>2. CASE BeginCapture
    BY <2>2 DEF BeginCapture, EngineInv, ReviewInv, CaptureInv, IsCapture
  <2>3. CASE CaptureCollects
    <3>1. IsCapture(capture) /\ capture.version \in Nat /\ capture.version <= disk /\ disk \in Nat
      BY <2>3 DEF CaptureCollects, EngineInv, CaptureInv, ReviewInv
    <3>2. /\ capture' = [capture EXCEPT !.content = disk] /\ disk' = disk
      BY <2>3 DEF CaptureCollects
    <3>3. IsCapture(capture') /\ capture'.version = capture.version /\ capture'.content = disk
      BY <3>1, <3>2 DEF IsCapture
    <3> QED
      BY <3>1, <3>2, <3>3 DEF CaptureInv, Between
  <2>4. CASE CaptureFails
    BY <2>4 DEF CaptureFails, CaptureInv
  <2> QED
    BY <2>1, <2>2, <2>3, <2>4
<1> QED
  BY <1>1, <1>2, <1>3, WorkOnly

LEMMA ReviewIsReplaced ==
  ASSUME EngineInv, CaptureEnds
  PROVE  EngineInv'
<1> DEFINE table == IF IsLoaded THEN NoPages ELSE operations
           g == review.generation + 1
<1>1. /\ disk' = disk /\ loading' = loading /\ questions' = questions /\ capture' = None
      /\ review' = Captured(g, capture.version, capture.content)
      /\ Becomes(table, shared, slots)
  BY DEF CaptureEnds
<1>2. /\ review.generation \in Int /\ g \in Nat /\ disk \in Nat
      /\ capture.version \in Nat /\ capture.version <= disk
      /\ Between(capture.version, capture.content)
  BY DEF CaptureEnds, EngineInv, ReviewInv, CaptureInv
<1>3. /\ IsReview(review') /\ review'.generation = g /\ review'.version = capture.version
      /\ review'.pages = [r \in {Default} |-> capture.content]
      /\ review'.overviews = NoPages /\ review'.threads = NoPages
  BY <1>1 DEF Captured, IsReview
<1>4. DOMAIN review'.overviews = {} /\ DOMAIN review'.threads = {}
  BY <1>3 DEF NoPages
<1> HIDE DEF g
<1>5. ReviewInv' /\ CaptureInv'
  BY <1>1, <1>2, <1>3 DEF ReviewInv, CaptureInv
<1>6. ASSUME NEW h, NEW v, GoesBy(h, v) PROVE GoesBy(h, v)' /\ ~Current(h)'
  BY <1>1, <1>2, <1>3, <1>6 DEF GoesBy, Current, g
<1>7. \A v, c : Between(v, c)' <=> Between(v, c)
  BY <1>1 DEF Between
<1>8. LoadingInv'
  BY <1>1, <1>6, <1>7 DEF EngineInv, LoadingInv
<1>9. Held(table, shared, slots)
  BY DEF EngineInv, HeldInv, Held, NoPages
<1>10. /\ HeldInv' /\ DOMAIN shared' \subseteq DOMAIN shared
       /\ \A o \in DOMAIN shared' : shared'[o] = shared[o]
  BY <1>1, <1>9, BecomesKeeps
<1>11. RunInv'
  BY <1>6, <1>7, <1>10 DEF EngineInv, RunInv, RunIs
<1>12. QuestionInv'
  BY <1>1, <1>6, <1>7 DEF EngineInv, QuestionInv
<1>13. ThreadInv'
  BY <1>4 DEF ThreadInv
<1>14. PagesInv'
  BY <1>1, <1>2, <1>3, <1>4 DEF PagesInv, Between
<1> QED
  BY <1>5, <1>8, <1>10, <1>11, <1>12, <1>13, <1>14 DEF EngineInv

LEMMA PagesLoad ==
  ASSUME EngineInv, (\E range \in Others : LoadPage(range)) \/ PageCollects \/ PageFails
  PROVE  EngineInv'
<1>1. UNCHANGED <<disk, review, capture, operations, shared, slots, questions>>
  BY DEF LoadPage, PageCollects, PageFails, engineVars
<1>2. CaptureInv'
  BY <1>1 DEF EngineInv, CaptureInv, Between
<1>3. LoadingInv'
  <2>1. ASSUME NEW range \in Others, LoadPage(range) PROVE LoadingInv'
    BY <1>1, <2>1 DEF LoadPage, EngineInv, ReviewInv, LoadingInv, IsLoading, GoesBy,
                      Current, IsLoaded
  <2>2. CASE PageCollects
    <3>1. IsLoading(loading) /\ GoesBy(loading.generation, loading.version)
      BY <2>2 DEF PageCollects, EngineInv, LoadingInv
    <3>2. /\ loading' = [loading EXCEPT !.content = disk] /\ disk' = disk /\ disk \in Nat
          /\ review' = review
      BY <1>1, <2>2 DEF PageCollects, EngineInv, ReviewInv
    <3>3. /\ IsLoading(loading') /\ loading'.version = loading.version
          /\ loading'.generation = loading.generation /\ loading'.content = disk
      BY <3>1, <3>2 DEF IsLoading
    <3> QED
      BY <3>1, <3>2, <3>3 DEF LoadingInv, GoesBy, Current, Between
  <2>3. CASE PageFails
    BY <2>3 DEF PageFails, LoadingInv
  <2> QED
    BY <2>1, <2>2, <2>3
<1> QED
  BY <1>1, <1>2, <1>3, WorkOnly

LEMMA PageIsShown ==
  ASSUME EngineInv, PageLoaded
  PROVE  EngineInv'
<1> DEFINE pages == With(review.pages, loading.range, loading.content)
<1>1. /\ review' = [review EXCEPT !.pages = pages] /\ loading' = None
      /\ disk' = disk /\ capture' = capture /\ questions' = questions
      /\ operations' = operations /\ shared' = shared /\ slots' = slots
  BY DEF PageLoaded, engineVars
<1>2. /\ IsReview(review) /\ loading.version = review.version
      /\ loading.content = review.version
  BY DEF PageLoaded, EngineInv, ReviewInv, LoadingInv, GoesBy, Between, IsUnchanged
<1>3. \A r \in DOMAIN pages :
        pages[r] = review.version \/ (r = Default /\ disk # review.version)
  BY <1>2 DEF With, EngineInv, PagesInv
<1> HIDE DEF pages
<1>4. /\ IsReview(review') /\ review'.generation = review.generation
      /\ review'.version = review.version /\ review'.pages = pages
      /\ review'.overviews = review.overviews /\ review'.threads = review.threads
  BY <1>1, <1>2 DEF IsReview
<1>5. \A g, v : GoesBy(g, v)' <=> GoesBy(g, v)
  BY <1>1, <1>4 DEF GoesBy, Current
<1>6. ReviewInv' /\ CaptureInv' /\ LoadingInv' /\ PagesInv'
  BY <1>1, <1>3, <1>4 DEF EngineInv, ReviewInv, CaptureInv, LoadingInv, PagesInv, Between
<1>7. HeldInv'
  BY <1>1 DEF EngineInv, HeldInv
<1>8. RunInv'
  BY <1>1, <1>5 DEF EngineInv, RunInv, RunIs, Between
<1>9. QuestionInv' /\ ThreadInv'
  BY <1>1, <1>4, <1>5 DEF EngineInv, QuestionInv, ThreadInv, Between, Current
<1> QED
  BY <1>6, <1>7, <1>8, <1>9 DEF EngineInv

-----------------------------------------------------------------------------
(* Questions.                                                              *)
LEMMA AQuestionChanges ==
  ASSUME EngineInv, NEW name \in DOMAIN questions, NEW v,
         questions' = With(questions, name, v),
         IsQuestion(v), v.thread = questions[name].thread,
         v.generation = questions[name].generation, v.version = questions[name].version,
         v.at = "recheck" => Between(v.version, v.content),
         v.at = "finish" => v.content = Failed \/ v.content = v.version,
         UNCHANGED <<disk, review, capture, loading, operations, shared, slots>>
  PROVE  EngineInv'
<1>1. /\ disk' = disk /\ review' = review /\ capture' = capture /\ loading' = loading
  OBVIOUS
<1>4. /\ DOMAIN questions' = DOMAIN questions /\ questions'[name] = v
      /\ \A n \in DOMAIN questions : n # name => questions'[n] = questions[n]
  BY WithAgain
<1>5. CaptureInv' /\ LoadingInv'
  BY <1>1 DEF EngineInv, CaptureInv, LoadingInv, Between, GoesBy, Current
<1>6. QuestionInv'
  <2> SUFFICES ASSUME NEW n \in DOMAIN questions'
               PROVE  LET q == questions'[n] IN
                      /\ IsQuestion(q) /\ GoesBy(q.generation, q.version)
                      /\ q.at = "recheck" => Between(q.version, q.content)
                      /\ q.at = "finish" => q.content = Failed \/ q.content = q.version
                      /\ Current(q.generation) =>
                           /\ q.thread \in DOMAIN review.threads
                           /\ review.threads[q.thread].status = "asking"
                           /\ review.threads[q.thread].name = n
    BY <1>1 DEF QuestionInv, GoesBy, Between, Current
  <2>1. CASE n = name
    BY <1>4, <2>1 DEF EngineInv, QuestionInv
  <2>2. CASE n # name
    BY <1>4, <2>2 DEF EngineInv, QuestionInv
  <2> QED
    BY <2>1, <2>2
<1>7. ThreadInv'
  BY <1>1, <1>4 DEF EngineInv, ThreadInv, Current
<1> QED
  BY <1>5, <1>6, <1>7, WorkStep

LEMMA QuestionsGoOn ==
  ASSUME EngineInv, NEW name \in DOMAIN questions,
         CancelQuestion(name) \/ QuestionGoesOn(name) \/ QuestionFails(name)
  PROVE  EngineInv'
<1> DEFINE q == questions[name]
<1>1. UNCHANGED <<disk, review, capture, loading, operations, shared, slots>>
  BY DEF CancelQuestion, QuestionGoesOn, QuestionFails
<1>2. /\ IsQuestion(q) /\ GoesBy(q.generation, q.version)
      /\ q.at = "recheck" => Between(q.version, q.content)
      /\ q.at = "finish" => q.content = Failed \/ q.content = q.version
      /\ disk \in Nat
  BY DEF EngineInv, QuestionInv, ReviewInv
<1>3. CASE CancelQuestion(name)
  <2> DEFINE v == [q EXCEPT !.cancelled = TRUE]
  <2>1. /\ IsQuestion(v) /\ v.at = q.at /\ v.content = q.content /\ v.thread = q.thread
        /\ v.generation = q.generation /\ v.version = q.version
    BY <1>2 DEF IsQuestion
  <2>2. questions' = With(questions, name, v)
    BY <1>3 DEF CancelQuestion
  <2> HIDE DEF v
  <2> QED
    BY <1>1, <1>2, <2>1, <2>2, AQuestionChanges
<1>4. CASE q.at = "check" /\ questions' = With(questions, name, [q EXCEPT !.at = "agent"])
  <2> DEFINE v == [q EXCEPT !.at = "agent"]
  <2>1. /\ IsQuestion(v) /\ v.at = "agent" /\ v.thread = q.thread
        /\ v.generation = q.generation /\ v.version = q.version
    BY <1>2 DEF IsQuestion
  <2>2. questions' = With(questions, name, v)
    BY <1>4
  <2> HIDE DEF v
  <2> QED
    BY <1>1, <2>1, <2>2, AQuestionChanges
<1>5. CASE questions' = With(questions, name, [q EXCEPT !.at = "recheck", !.content = disk])
  <2> DEFINE v == [q EXCEPT !.at = "recheck", !.content = disk]
  <2>1. /\ IsQuestion(v) /\ v.at = "recheck" /\ v.content = disk /\ v.thread = q.thread
        /\ v.generation = q.generation /\ v.version = q.version
    BY <1>2 DEF IsQuestion
  <2>2. questions' = With(questions, name, v)
    BY <1>5
  <2>3. Between(q.version, disk)
    BY <1>2 DEF GoesBy, Between
  <2> HIDE DEF v
  <2> QED
    BY <1>1, <2>1, <2>2, <2>3, AQuestionChanges
<1>6. CASE /\ q.at = "recheck" /\ IsUnchanged(q)
           /\ questions' = With(questions, name, [q EXCEPT !.at = "finish"])
  <2> DEFINE v == [q EXCEPT !.at = "finish"]
  <2>1. /\ IsQuestion(v) /\ v.at = "finish" /\ v.content = q.content /\ v.thread = q.thread
        /\ v.generation = q.generation /\ v.version = q.version
    BY <1>2 DEF IsQuestion
  <2>2. questions' = With(questions, name, v)
    BY <1>6
  <2>3. q.content = q.version
    BY <1>2, <1>6 DEF Between, GoesBy, IsUnchanged
  <2> HIDE DEF v
  <2> QED
    BY <1>1, <2>1, <2>2, <2>3, AQuestionChanges
<1>7. CASE QuestionFails(name)
  <2> DEFINE v == [q EXCEPT !.at = "finish", !.content = Failed]
  <2>1. /\ IsQuestion(v) /\ v.at = "finish" /\ v.content = Failed /\ v.thread = q.thread
        /\ v.generation = q.generation /\ v.version = q.version
    BY <1>2 DEF IsQuestion
  <2>2. questions' = With(questions, name, v)
    BY <1>7 DEF QuestionFails
  <2> HIDE DEF v
  <2> QED
    BY <1>1, <2>1, <2>2, AQuestionChanges
<1> QED
  BY <1>3, <1>4, <1>5, <1>6, <1>7 DEF QuestionGoesOn

LEMMA QuestionBegins ==
  ASSUME EngineInv, NEW t, NEW name, AskQuestion(t, name)
  PROVE  EngineInv'
<1> DEFINE thread == Begun(name, t)
           threads == With(review.threads, t, thread)
           q == [at |-> "check", thread |-> t, generation |-> review.generation,
                 version |-> review.version, content |-> None, cancelled |-> FALSE]
<1>1. /\ review' = [review EXCEPT !.threads = threads]
      /\ questions' = With(questions, name, q)
      /\ disk' = disk /\ capture' = capture /\ loading' = loading
      /\ operations' = operations /\ shared' = shared /\ slots' = slots
      /\ name \notin DOMAIN questions /\ MayBegin(t)
  BY DEF AskQuestion
<1>2. /\ IsReview(review) /\ review.generation \in Nat /\ review.version \in Nat
      /\ review.version <= disk /\ ThreadInv /\ QuestionInv
  BY DEF EngineInv, ReviewInv, AskQuestion, IsLoaded
<1>3. /\ IsThread(thread) /\ thread.status = "asking" /\ thread.name = name
      /\ thread.said \in Nat /\ thread.said % 2 = 1
  <2>1. ASSUME NEW said PROVE
          LET a == Asking(name, said) IN
          IsThread(a) /\ a.status = "asking" /\ a.name = name /\ a.said = said
    BY DEF Asking, IsThread
  <2>2. CASE t \notin DOMAIN review.threads
    BY <2>1, <2>2 DEF Begun
  <2>3. CASE t \in DOMAIN review.threads /\ Continues(review.threads[t])
    BY <1>2, <2>1, <2>3 DEF Begun, Continues, ThreadInv
  <2>4. CASE t \in DOMAIN review.threads /\ ~Continues(review.threads[t])
    <3>1. review.threads[t].status = "idle"
      BY <1>1, <2>4 DEF MayBegin
    <3>2. review.threads[t].said \in Nat /\ review.threads[t].said % 2 = 0
      BY <1>2, <2>4, <3>1 DEF ThreadInv
    <3>3. thread = Asking(name, review.threads[t].said + 1)
      BY <2>4 DEF Begun
    <3>4. (review.threads[t].said + 1) % 2 = 1 /\ review.threads[t].said + 1 \in Nat
      BY <3>2, Parity
    <3> QED
      BY <2>1, <3>3, <3>4
  <2> QED
    BY <2>2, <2>3, <2>4
<1>4. /\ IsQuestion(q) /\ q.at = "check" /\ q.thread = t /\ q.version = review.version
      /\ q.generation = review.generation
  BY DEF IsQuestion
<1> HIDE DEF thread, q
<1>5. /\ t \in DOMAIN threads /\ threads[t] = thread
      /\ DOMAIN threads = DOMAIN review.threads \cup {t}
      /\ \A u \in DOMAIN review.threads : u # t => threads[u] = review.threads[u]
  BY DEF With
<1>6. /\ DOMAIN questions' = DOMAIN questions \cup {name} /\ questions'[name] = q
      /\ \A n \in DOMAIN questions : questions'[n] = questions[n]
  BY <1>1 DEF With
<1> HIDE DEF threads
<1>7. /\ IsReview(review') /\ review'.generation = review.generation
      /\ review'.version = review.version /\ review'.pages = review.pages
      /\ review'.overviews = review.overviews /\ review'.threads = threads
  BY <1>1, <1>2 DEF IsReview
<1>8. \A g, v : GoesBy(g, v)' <=> GoesBy(g, v)
  BY <1>1, <1>7 DEF GoesBy, Current
<1>9. ReviewInv' /\ CaptureInv' /\ LoadingInv' /\ PagesInv'
  BY <1>1, <1>7, <1>8 DEF EngineInv, ReviewInv, CaptureInv, LoadingInv, PagesInv, Between
<1>10. HeldInv'
  BY <1>1 DEF EngineInv, HeldInv
<1>11. RunInv'
  BY <1>1, <1>8 DEF EngineInv, RunInv, RunIs, Between
<1>12. QuestionInv'
  <2> SUFFICES ASSUME NEW n \in DOMAIN questions'
               PROVE  LET p == questions'[n] IN
                      /\ IsQuestion(p) /\ GoesBy(p.generation, p.version)
                      /\ p.at = "recheck" => Between(p.version, p.content)
                      /\ p.at = "finish" => p.content = Failed \/ p.content = p.version
                      /\ Current(p.generation) =>
                           /\ p.thread \in DOMAIN threads
                           /\ threads[p.thread].status = "asking"
                           /\ threads[p.thread].name = n
    BY <1>1, <1>7, <1>8 DEF QuestionInv, Between, Current
  <2>1. CASE n = name
    BY <1>2, <1>3, <1>4, <1>5, <1>6, <2>1 DEF GoesBy, Current
  <2>2. CASE n # name
    <3>1. n \in DOMAIN questions /\ questions'[n] = questions[n]
      BY <1>6, <2>2
    <3>2. Current(questions[n].generation) => questions[n].thread # t
      BY <1>1, <1>2, <3>1 DEF QuestionInv, MayBegin, Continues
    <3> QED
      BY <1>2, <1>5, <3>1, <3>2 DEF QuestionInv
  <2> QED
    BY <2>1, <2>2
<1>13. ThreadInv'
  <2> SUFFICES ASSUME NEW u \in DOMAIN threads
               PROVE  /\ IsThread(threads[u]) /\ threads[u].said \in Nat
                      /\ threads[u].status \in {"asking", "idle", "error", "cancelled"}
                      /\ threads[u].said % 2 = (IF threads[u].status = "idle" THEN 0 ELSE 1)
                      /\ threads[u].status = "idle" => threads[u].from = review.version
                      /\ threads[u].status = "asking" =>
                           /\ threads[u].name \in DOMAIN questions'
                           /\ questions'[threads[u].name].thread = u
                           /\ Current(questions'[threads[u].name].generation)
    BY <1>7 DEF ThreadInv, Current
  <2>1. CASE u = t
    BY <1>3, <1>4, <1>5, <1>6, <2>1 DEF Current
  <2>2. CASE u # t
    BY <1>2, <1>5, <1>6, <2>2 DEF ThreadInv
  <2> QED
    BY <2>1, <2>2
<1> QED
  BY <1>9, <1>10, <1>11, <1>12, <1>13 DEF EngineInv

LEMMA QuestionIsOver ==
  ASSUME EngineInv, NEW name \in DOMAIN questions, QuestionEnds(name)
  PROVE  EngineInv'
<1> DEFINE q == questions[name]
           t == q.thread
           thread == Ended(review.threads[t], q)
           ended == With(review.threads, t, thread)
           threads == IF Current(q.generation) THEN ended ELSE review.threads
<1>1. /\ questions' = Without(questions, name)
      /\ disk' = disk /\ capture' = capture /\ loading' = loading
      /\ operations' = operations /\ shared' = shared /\ slots' = slots
      /\ q.at = "finish"
  BY DEF QuestionEnds
<1>2. /\ IsReview(review) /\ ThreadInv /\ QuestionInv
      /\ q.content = Failed \/ q.content = q.version
      /\ Current(q.generation) =>
           /\ t \in DOMAIN review.threads /\ review.threads[t].status = "asking"
           /\ review.threads[t].name = name /\ q.version = review.version
  BY <1>1 DEF EngineInv, ReviewInv, QuestionInv, GoesBy
<1>3. \/ ~Current(q.generation) /\ review' = review
      \/ Current(q.generation) /\ review' = [review EXCEPT !.threads = ended]
  BY <1>2 DEF QuestionEnds
<1>4. Current(q.generation) =>
        /\ IsThread(thread) /\ thread.said \in Nat
        /\ thread.status \in {"idle", "error", "cancelled"}
        /\ thread.said % 2 = (IF thread.status = "idle" THEN 0 ELSE 1)
        /\ thread.status = "idle" => thread.from = review.version
  <2> SUFFICES ASSUME Current(q.generation)
               PROVE  /\ IsThread(thread) /\ thread.said \in Nat
                      /\ thread.status \in {"idle", "error", "cancelled"}
                      /\ thread.said % 2 = (IF thread.status = "idle" THEN 0 ELSE 1)
                      /\ thread.status = "idle" => thread.from = review.version
    OBVIOUS
  <2> DEFINE old == review.threads[t]
  <2>1. /\ IsThread(old) /\ old.said \in Nat /\ old.said % 2 = 1
        /\ q.content = Failed \/ q.content = review.version
    BY <1>2 DEF ThreadInv
  <2>2. (old.said + 1) % 2 = 0 /\ old.said + 1 \in Nat
    BY <2>1, Parity
  <2>3. \/ thread = [old EXCEPT !.status = "cancelled"]
        \/ thread = [old EXCEPT !.status = "error"]
        \/ /\ thread = [old EXCEPT !.status = "idle", !.said = old.said + 1, !.from = q.content]
           /\ q.content = review.version
    BY <2>1 DEF Ended
  <2> HIDE DEF thread, old
  <2>4. CASE thread = [old EXCEPT !.status = "cancelled"]
    BY <2>1, <2>4 DEF IsThread
  <2>5. CASE thread = [old EXCEPT !.status = "error"]
    BY <2>1, <2>5 DEF IsThread
  <2>6. CASE /\ thread = [old EXCEPT !.status = "idle", !.said = old.said + 1, !.from = q.content]
             /\ q.content = review.version
    <3>1. /\ IsThread(thread) /\ thread.status = "idle" /\ thread.said = old.said + 1
          /\ thread.from = q.content
      BY <2>1, <2>6 DEF IsThread
    <3> QED
      BY <2>2, <2>6, <3>1
  <2> QED
    BY <2>3, <2>4, <2>5, <2>6
<1> HIDE DEF thread
<1>5. Current(q.generation) =>
        /\ DOMAIN threads = DOMAIN review.threads /\ threads[t] = thread
        /\ \A u \in DOMAIN review.threads : u # t => threads[u] = review.threads[u]
  BY <1>2, WithAgain
<1>6. ~Current(q.generation) => threads = review.threads
  OBVIOUS
<1> HIDE DEF ended
<1>7. /\ IsReview(review') /\ review'.generation = review.generation
      /\ review'.version = review.version /\ review'.pages = review.pages
      /\ review'.overviews = review.overviews /\ review'.threads = threads
  BY <1>2, <1>3 DEF IsReview
<1> HIDE DEF threads
<1>8. /\ DOMAIN questions' = DOMAIN questions \ {name}
      /\ \A n \in DOMAIN questions : n # name => questions'[n] = questions[n]
  BY <1>1, WithoutIs
<1>9. \A g, v : GoesBy(g, v)' <=> GoesBy(g, v)
  BY <1>1, <1>7 DEF GoesBy, Current
<1>10. ReviewInv' /\ CaptureInv' /\ LoadingInv' /\ PagesInv'
  BY <1>1, <1>7, <1>9 DEF EngineInv, ReviewInv, CaptureInv, LoadingInv, PagesInv, Between
<1>11. HeldInv'
  BY <1>1 DEF EngineInv, HeldInv
<1>12. RunInv'
  BY <1>1, <1>9 DEF EngineInv, RunInv, RunIs, Between
<1>13. QuestionInv'
  <2> SUFFICES ASSUME NEW n \in DOMAIN questions'
               PROVE  LET p == questions'[n] IN
                      /\ IsQuestion(p) /\ GoesBy(p.generation, p.version)
                      /\ p.at = "recheck" => Between(p.version, p.content)
                      /\ p.at = "finish" => p.content = Failed \/ p.content = p.version
                      /\ Current(p.generation) =>
                           /\ p.thread \in DOMAIN threads
                           /\ threads[p.thread].status = "asking"
                           /\ threads[p.thread].name = n
    BY <1>1, <1>7, <1>9 DEF QuestionInv, Between, Current
  <2>1. n \in DOMAIN questions /\ n # name /\ questions'[n] = questions[n]
    BY <1>8
  <2>2. Current(q.generation) /\ Current(questions[n].generation) => questions[n].thread # t
    BY <1>2, <2>1 DEF QuestionInv
  <2> QED
    BY <1>2, <1>5, <1>6, <2>1, <2>2 DEF QuestionInv
<1>14. ThreadInv'
  <2> SUFFICES ASSUME NEW u \in DOMAIN threads
               PROVE  /\ IsThread(threads[u]) /\ threads[u].said \in Nat
                      /\ threads[u].status \in {"asking", "idle", "error", "cancelled"}
                      /\ threads[u].said % 2 = (IF threads[u].status = "idle" THEN 0 ELSE 1)
                      /\ threads[u].status = "idle" => threads[u].from = review.version
                      /\ threads[u].status = "asking" =>
                           /\ threads[u].name \in DOMAIN questions'
                           /\ questions'[threads[u].name].thread = u
                           /\ Current(questions'[threads[u].name].generation)
    BY <1>7 DEF ThreadInv, Current
  <2>1. CASE Current(q.generation) /\ u = t
    BY <1>4, <1>5, <2>1
  <2>2. CASE ~Current(q.generation) \/ u # t
    <3>1. u \in DOMAIN review.threads /\ threads[u] = review.threads[u]
      BY <1>5, <1>6, <2>2
    <3>2. threads[u].status = "asking" => threads[u].name # name
      BY <1>2, <2>2, <3>1 DEF ThreadInv
    <3> QED
      BY <1>2, <1>8, <3>1, <3>2 DEF ThreadInv
  <2> QED
    BY <2>1, <2>2
<1> QED
  BY <1>10, <1>11, <1>12, <1>13, <1>14 DEF EngineInv

-----------------------------------------------------------------------------
LEMMA EngineStarts == Init => EngineInv
<1> SUFFICES ASSUME Init PROVE EngineInv
  OBVIOUS
<1> USE DEF Init
<1>1. DOMAIN NoPages = {}
  BY DEF NoPages
<1>2. /\ IsReview(NoReview) /\ NoReview.generation = -1 /\ NoReview.version = 0
      /\ NoReview.pages = NoPages /\ NoReview.overviews = NoPages
      /\ NoReview.threads = NoPages
  BY DEF NoReview, Captured, IsReview
<1>3. ReviewInv /\ CaptureInv /\ LoadingInv
  BY <1>2 DEF ReviewInv, CaptureInv, LoadingInv
<1>4. HeldInv /\ RunInv
  BY <1>1, FS_EmptySet DEF HeldInv, Held, RunInv
<1>5. QuestionInv /\ ThreadInv /\ PagesInv
  BY <1>1, <1>2 DEF QuestionInv, ThreadInv, PagesInv
<1> QED
  BY <1>3, <1>4, <1>5 DEF EngineInv

LEMMA EngineKeeps == EngineInv /\ [Next]_vars => EngineInv'
<1> SUFFICES ASSUME EngineInv, [Next]_vars PROVE EngineInv'
  OBVIOUS
<1>1. CASE UNCHANGED vars
  <2>1. UNCHANGED <<disk, review, operations, shared, slots, questions, capture, loading>>
    BY <1>1 DEF vars
  <2>2. CaptureInv' /\ LoadingInv'
    BY <2>1 DEF EngineInv, CaptureInv, LoadingInv, GoesBy, Between, Current
  <2> QED
    BY <2>1, <2>2, WorkOnly
<1>2. CASE FilesChange \/ TurnRuns \/ BeginCapture \/ CaptureCollects \/ CaptureEnds
             \/ CaptureFails
  BY <1>2, FilesMove, Captures, ReviewIsReplaced
<1>3. CASE (\E range \in Others : LoadPage(range)) \/ PageCollects \/ PageLoaded \/ PageFails
  BY <1>3, PagesLoad, PageIsShown
<1>4. ASSUME NEW r \in Slots,
             \/ \E g \in Generations, overview \in Overviews : Ask(r, Key(g, overview))
             \/ Join(r) \/ TakeResult(r) \/ RemoveKey(r) \/ StartRun(r) \/ Discard(r)
             \/ RequestDropped(r)
      PROVE  EngineInv'
  BY <1>4, Asks, Joins, TakesResult, StartsRun, RequestsLeave
<1>5. ASSUME NEW o \in DOMAIN shared,
             RunGoesOn(o) \/ RunFails(o) \/ StoreResult(o) \/ SendResult(o) \/ ForgetOperation(o)
      PROVE  EngineInv'
  BY <1>5, RunsGoOn, ResultIsStored, ResultIsSent
<1>6. ASSUME NEW t \in Threads, NEW name \in NamesFor(t), AskQuestion(t, name)
      PROVE  EngineInv'
  BY <1>6, QuestionBegins
<1>7. ASSUME NEW name \in DOMAIN questions,
             CancelQuestion(name) \/ QuestionGoesOn(name) \/ QuestionFails(name)
               \/ QuestionEnds(name)
      PROVE  EngineInv'
  BY <1>7, QuestionsGoOn, QuestionIsOver
<1> QED
  BY <1>1, <1>2, <1>3, <1>4, <1>5, <1>6, <1>7 DEF Next

(* What work goes by and what a thread waits for hold in every state of    *)
(* the review.                                                             *)
THEOREM EngineHolds == Spec => []EngineInv
BY EngineStarts, EngineKeeps, PTL DEF Spec

(* Pages, overviews and answers of a generation were made from the         *)
(* checkout as the generation captured it, however long they took          *)
(* (check_version around each, matching_page, the generation in each key). *)
THEOREM SnapshotIsShown == Spec => []ShowsTheSnapshot
<1>1. EngineInv => ShowsTheSnapshot
  BY DEF EngineInv, PagesInv, ThreadInv, ShowsTheSnapshot
<1> QED
  BY <1>1, EngineHolds, PTL

(* A thread is asking exactly as long as a task of this generation works   *)
(* on its last question, and every question of an idle thread has its      *)
(* answer (begin_question, finish_question).                               *)
THEOREM QuestionsAreEnded == Spec => []QuestionsEnd
<1>1. EngineInv => QuestionsEnd
  <2> SUFFICES ASSUME EngineInv, NEW t \in DOMAIN review.threads
               PROVE  /\ Works(t) = IF review.threads[t].status = "asking"
                                    THEN {review.threads[t].name} ELSE {}
                      /\ review.threads[t].said % 2 =
                           (IF review.threads[t].status = "idle" THEN 0 ELSE 1)
    BY DEF QuestionsEnd
  <2>1. QuestionInv /\ ThreadInv
    BY DEF EngineInv
  <2>2. \A name \in Works(t) : /\ review.threads[t].status = "asking"
                               /\ review.threads[t].name = name
    BY <2>1 DEF Works, QuestionInv
  <2>3. review.threads[t].status = "asking" => review.threads[t].name \in Works(t)
    BY <2>1 DEF Works, ThreadInv
  <2>4. review.threads[t].said % 2 = (IF review.threads[t].status = "idle" THEN 0 ELSE 1)
    BY <2>1 DEF ThreadInv
  <2> QED
    BY <2>2, <2>3, <2>4
<1> QED
  BY <1>1, EngineHolds, PTL

-----------------------------------------------------------------------------
(* What the records of the shared draft hold.                              *)
Said == Texts \cup OthersTexts \cup {Empty}

Drafted == [rev : Nat \cup {-1}, text : Said, life : Nat]

Written ==
  [at : {"nowhere", "sent", "saved", "failed"}, text : Said, rev : Nat, life : Nat,
   rebased : BOOLEAN]

Synced ==
  [text : Said, server : Drafted, saved : Drafted, held : Drafted, timer : BOOLEAN,
   write : Written, retry : BOOLEAN, composing : BOOLEAN, flushing : BOOLEAN,
   settling : {"none", "no", "waits", "sends", "done"}, rebased : BOOLEAN]

-----------------------------------------------------------------------------
(* What a composer has from the session: a function of its state changes   *)
(* none of it, and starts a write at most.                                 *)
Keeps(s, r) ==
  /\ r.server = s.server /\ r.saved = s.saved
  /\ r.write = s.write \/ r.write.at = "sent"

(* A submission goes on with a revision of the text that is shown.         *)
Honest(s) == s.settling = "done" => Drafts!LatestSaved(s).text = s.text

(* The text u that the user typed and the session never had: it is shown,  *)
(* no draft the composer knows of says it, and it is written yet.          *)
Tracked(s, u) ==
  u # <<>> =>
    /\ s.settling # "none" /\ u = <<s.text>> /\ Drafts!Dirty(s)
    /\ s.server.rev >= 0 /\ s.server.text # s.text
    /\ s.saved # Drafts!NoDraft => s.saved.text # s.text
    /\ s.write.at = "saved" => s.text # s.write.text
    /\ s.write.rebased => s.retry \/ s.text # s.write.text

(* What a function of DraftSync keeps.                                     *)
Sound(s, r) ==
  /\ r \in Synced /\ Keeps(s, r)
  /\ s.settling # "none" => r.settling # "none"
  /\ \A u : Tracked(s, u) => Tracked(r, u)

LEMMA NoDraftIsOne == Drafts!NoDraft \in Drafted /\ Drafts!NoDraft.rev = -1
BY DEF Drafts!NoDraft, Drafts!Draft, Drafted, Said

LEMMA NoWriteIsOne ==
  /\ Drafts!NoWrite \in Written /\ Drafts!NoWrite.at = "nowhere" /\ ~Drafts!NoWrite.rebased
BY DEF Drafts!NoWrite, Written, Said

LEMMA SoundIsTransitive ==
  ASSUME NEW s, NEW r, NEW q, Sound(s, r), Sound(r, q)
  PROVE  Sound(s, q)
BY DEF Sound, Keeps

(* send: what is shown is under way, or is tried again.                    *)
LEMMA SentWrites ==
  ASSUME NEW s \in Synced, NEW r, r = Drafts!Sent(s)
  PROVE  /\ r \in Synced /\ r.server = s.server /\ r.saved = s.saved /\ r.text = s.text
         /\ r.settling = s.settling /\ Drafts!Dirty(r)
         /\ \/ r.write = s.write /\ (r.retry \/ r.retry = s.retry)
            \/ r.write.at = "sent" /\ ~r.write.rebased
<1>1. /\ r \in Synced /\ r.server = s.server /\ r.saved = s.saved /\ r.text = s.text
      /\ r.settling = s.settling
  BY NoWriteIsOne DEF Drafts!Sent, Drafts!Sending, Synced, Written
<1>2. \/ r.write = s.write /\ (r.retry \/ r.retry = s.retry)
      \/ r.write.at = "sent" /\ ~r.write.rebased
  BY NoWriteIsOne DEF Drafts!Sent, Drafts!Sending, Synced, Written
<1>3. Drafts!Dirty(r)
  BY NoWriteIsOne DEF Drafts!Sent, Drafts!Sending, Drafts!Dirty, Synced, Written
<1> QED
  BY <1>1, <1>2, <1>3

LEMMA SentIsSound ==
  ASSUME NEW s \in Synced, NEW r, r = Drafts!Sent(s)
  PROVE  Sound(s, r) /\ r.settling = s.settling
<1>1. /\ r \in Synced /\ r.server = s.server /\ r.saved = s.saved /\ r.text = s.text
      /\ r.settling = s.settling /\ Drafts!Dirty(r)
      /\ \/ r.write = s.write /\ (r.retry \/ r.retry = s.retry)
         \/ r.write.at = "sent" /\ ~r.write.rebased
  BY SentWrites
<1>2. ASSUME NEW u, Tracked(s, u) PROVE Tracked(r, u)
  BY <1>1, <1>2 DEF Tracked
<1> QED
  BY <1>1, <1>2 DEF Sound, Keeps

(* releaseHeld: a draft that waited is shown only if all is written.       *)
LEMMA HeldReleasedIsSound ==
  ASSUME NEW s \in Synced, NEW r, r = Drafts!HeldReleased(s)
  PROVE  Sound(s, r) /\ r.settling = s.settling
<1>1. /\ r \in Synced /\ r.server = s.server /\ r.saved = s.saved /\ r.write = s.write
      /\ r.settling = s.settling
  <2>1. PICK text \in Said :
             r = s \/ r = [s EXCEPT !.held = Drafts!NoDraft, !.text = text]
    <3>1. s.held.text \in Said /\ s.text \in Said
      BY DEF Synced, Drafted
    <3> QED
      BY <3>1 DEF Drafts!HeldReleased
  <2> QED
    BY <2>1, NoDraftIsOne DEF Synced
<1>2. Drafts!Dirty(s) => r = s
  BY DEF Drafts!HeldReleased
<1>3. ASSUME NEW u, Tracked(s, u) PROVE Tracked(r, u)
  BY <1>2, <1>3 DEF Tracked
<1> QED
  BY <1>1, <1>3 DEF Sound, Keeps

(* flush, with no write under way: a text that no draft says is written.   *)
LEMMA FlushedNowIsSound ==
  ASSUME NEW s \in Synced, NEW r, r = Drafts!FlushedNow(s)
  PROVE  Sound(s, r) /\ r.settling = s.settling
<1> DEFINE now == [s EXCEPT !.timer = FALSE]
<1>1. /\ now \in Synced /\ Keeps(s, now) /\ now.settling = s.settling
      /\ now.text = s.text /\ now.server = s.server /\ now.saved = s.saved
      /\ now.write = s.write /\ now.retry = s.retry /\ now.composing = s.composing
  BY DEF Synced, Keeps
<1>2. CASE s.composing
  <2>1. r = s
    BY <1>2 DEF Drafts!FlushedNow
  <2> QED
    BY <2>1 DEF Sound, Keeps
<1>3. CASE ~s.composing /\ (now.retry \/ now.text # Drafts!LatestSaved(now).text)
  <2>1. r = Drafts!Sent(now)
    BY <1>3 DEF Drafts!FlushedNow
  <2>2. /\ r \in Synced /\ r.server = s.server /\ r.saved = s.saved /\ r.text = s.text
        /\ r.settling = s.settling /\ Drafts!Dirty(r)
        /\ \/ r.write = s.write /\ (r.retry \/ r.retry = s.retry)
           \/ r.write.at = "sent" /\ ~r.write.rebased
    BY <2>1, <1>1, SentWrites
  <2>3. ASSUME NEW u, Tracked(s, u) PROVE Tracked(r, u)
    BY <2>2, <2>3 DEF Tracked
  <2> QED
    BY <2>2, <2>3 DEF Sound, Keeps
<1>4. CASE ~s.composing /\ ~(now.retry \/ now.text # Drafts!LatestSaved(now).text)
  <2>1. r = Drafts!HeldReleased(now)
    BY <1>4 DEF Drafts!FlushedNow
  <2>2. Sound(now, r) /\ r.settling = s.settling
    BY <2>1, <1>1, HeldReleasedIsSound
  <2>3. ASSUME NEW u, Tracked(s, u), u # <<>> PROVE FALSE
    <3>1. /\ s.server.rev >= 0 /\ s.server.text # s.text
          /\ s.saved # Drafts!NoDraft => s.saved.text # s.text
      BY <2>3 DEF Tracked
    <3>2. s.saved.rev \in Int /\ s.server.rev \in Int
      BY DEF Synced, Drafted
    <3>3. Drafts!LatestSaved(now).text # s.text
      BY <3>1, <3>2, <1>1, NoDraftIsOne DEF Drafts!LatestSaved
    <3> QED
      BY <3>3, <1>1, <1>4
  <2>4. ASSUME NEW u, Tracked(s, u) PROVE Tracked(r, u)
    BY <2>3, <2>4 DEF Tracked
  <2>5. r \in Synced /\ Keeps(s, r) /\ r.settling = s.settling
    BY <2>2, <1>1 DEF Sound, Keeps
  <2> QED
    BY <2>4, <2>5 DEF Sound
<1> QED
  BY <1>2, <1>3, <1>4

LEMMA FlushedIsSound ==
  ASSUME NEW s \in Synced, NEW r, r = Drafts!Flushed(s)
  PROVE  Sound(s, r) /\ r.settling = s.settling
<1>1. CASE Drafts!Sending(s)
  <2>1. r = [s EXCEPT !.flushing = TRUE]
    BY <1>1 DEF Drafts!Flushed
  <2>2. r \in Synced /\ Keeps(s, r) /\ r.settling = s.settling
    BY <2>1 DEF Synced, Keeps
  <2>3. ASSUME NEW u, Tracked(s, u) PROVE Tracked(r, u)
    BY <2>1, <2>3 DEF Tracked, Drafts!Dirty, Drafts!Sending, Synced
  <2> QED
    BY <2>2, <2>3 DEF Sound
<1>2. CASE ~Drafts!Sending(s)
  BY <1>2, FlushedNowIsSound DEF Drafts!Flushed
<1> QED
  BY <1>1, <1>2

(* A change of what nobody reads but the submission.                       *)
LEMMA MarkIsSound ==
  ASSUME NEW s \in Synced, NEW r \in Synced,
         r.text = s.text, r.server = s.server, r.saved = s.saved, r.timer = s.timer,
         r.write = s.write, r.retry = s.retry,
         s.settling # "none" => r.settling # "none"
  PROVE  Sound(s, r)
BY DEF Sound, Keeps, Tracked, Drafts!Dirty, Drafts!Sending

LEMMA SettledIsSound ==
  ASSUME NEW s \in Synced, NEW r, r = Drafts!Settled(s)
  PROVE  Sound(s, r) /\ Honest(r)
<1>1. PICK at \in {"done", "no"} : /\ r = [s EXCEPT !.settling = at]
                                   /\ at = "done" => Drafts!LatestSaved(s).text = s.text
  BY DEF Drafts!Settled
<1>2. /\ r \in Synced /\ r.text = s.text /\ r.server = s.server /\ r.saved = s.saved
      /\ r.timer = s.timer /\ r.write = s.write /\ r.retry = s.retry /\ r.settling = at
  BY <1>1 DEF Synced
<1>3. Drafts!LatestSaved(r) = Drafts!LatestSaved(s)
  BY <1>2 DEF Drafts!LatestSaved
<1> QED
  BY <1>1, <1>2, <1>3, MarkIsSound DEF Honest

(* settledRev goes on with a revision only when it has compared texts.     *)
LEMMA SettlesIsSound ==
  ASSUME NEW s \in Synced, NEW r, r = Drafts!Settles(s)
  PROVE  Sound(s, r) /\ Honest(r)
<1> DEFINE now == [s EXCEPT !.rebased = FALSE]
           flushed == Drafts!FlushedNow(now)
<1>1. now \in Synced /\ Sound(s, now)
  <2>1. /\ now \in Synced /\ now.text = s.text /\ now.server = s.server /\ now.saved = s.saved
        /\ now.timer = s.timer /\ now.write = s.write /\ now.retry = s.retry
        /\ now.settling = s.settling
    BY DEF Synced
  <2> HIDE DEF now
  <2> QED
    BY <2>1, MarkIsSound
<1>2. Sound(now, flushed)
  BY <1>1, FlushedNowIsSound
<1>3. flushed \in Synced /\ Sound(s, flushed)
  BY <1>1, <1>2, SoundIsTransitive DEF Sound
<1> HIDE DEF flushed
<1>4. CASE Drafts!Sending(now)
  <2>1. r = [now EXCEPT !.settling = "waits"]
    BY <1>4 DEF Drafts!Settles
  <2>2. /\ r \in Synced /\ r.text = now.text /\ r.server = now.server /\ r.saved = now.saved
        /\ r.timer = now.timer /\ r.write = now.write /\ r.retry = now.retry
        /\ r.settling = "waits"
    BY <2>1, <1>1 DEF Synced
  <2> QED
    BY <2>2, <1>1, MarkIsSound, SoundIsTransitive DEF Honest
<1>5. CASE ~Drafts!Sending(now) /\ Drafts!Sending(flushed)
  <2>1. r = [flushed EXCEPT !.settling = "sends"]
    BY <1>5 DEF Drafts!Settles, flushed
  <2>2. /\ r \in Synced /\ r.text = flushed.text /\ r.server = flushed.server
        /\ r.saved = flushed.saved /\ r.timer = flushed.timer /\ r.write = flushed.write
        /\ r.retry = flushed.retry /\ r.settling = "sends"
    BY <2>1, <1>3 DEF Synced
  <2> QED
    BY <2>2, <1>3, MarkIsSound, SoundIsTransitive DEF Honest
<1>6. CASE ~Drafts!Sending(now) /\ ~Drafts!Sending(flushed)
  <2>1. r = Drafts!Settled(flushed)
    BY <1>6 DEF Drafts!Settles, flushed
  <2> QED
    BY <2>1, <1>3, SettledIsSound, SoundIsTransitive
<1> QED
  BY <1>4, <1>5, <1>6

LEMMA FlushReturnsIsSound ==
  ASSUME NEW s \in Synced, NEW r, r = Drafts!FlushReturns(s)
  PROVE  Sound(s, r) /\ Honest(r)
BY SettlesIsSound, SettledIsSound DEF Drafts!FlushReturns

LEMMA ResumedIsSound ==
  ASSUME NEW s \in Synced, s.settling # "done", NEW r, r = Drafts!Resumed(s)
  PROVE  Sound(s, r) /\ Honest(r)
<1> DEFINE first == IF s.flushing \/ s.settling = "waits" THEN Drafts!FlushedNow(s) ELSE s
           idle  == [first EXCEPT !.flushing = FALSE]
<1>1. first \in Synced /\ Sound(s, first) /\ first.settling = s.settling
  BY FlushedNowIsSound DEF Sound, Keeps
<1> HIDE DEF first
<1>2. /\ idle \in Synced /\ idle.text = first.text /\ idle.server = first.server
      /\ idle.saved = first.saved /\ idle.timer = first.timer /\ idle.write = first.write
      /\ idle.retry = first.retry /\ idle.settling = first.settling
  BY <1>1 DEF Synced
<1>3. Sound(s, idle)
  <2> HIDE DEF idle
  <2> QED
    BY <1>1, <1>2, MarkIsSound, SoundIsTransitive
<1>4. CASE s.settling = "waits" /\ Drafts!Sending(first)
  <2>1. r = [first EXCEPT !.settling = "sends"]
    BY <1>4 DEF Drafts!Resumed, first
  <2>2. /\ r \in Synced /\ r.text = first.text /\ r.server = first.server
        /\ r.saved = first.saved /\ r.timer = first.timer /\ r.write = first.write
        /\ r.retry = first.retry /\ r.settling = "sends"
    BY <2>1, <1>1 DEF Synced
  <2> QED
    BY <2>2, <1>1, MarkIsSound, SoundIsTransitive DEF Honest
<1>5. CASE s.settling = "sends" \/ (s.settling = "waits" /\ ~Drafts!Sending(first))
  <2>1. r = Drafts!FlushReturns(idle)
    BY <1>5 DEF Drafts!Resumed, first
  <2> HIDE DEF idle
  <2> QED
    BY <2>1, <1>2, <1>3, FlushReturnsIsSound, SoundIsTransitive
<1>6. CASE s.settling \notin {"sends", "waits"}
  <2>1. r = idle
    BY <1>6 DEF Drafts!Resumed, first
  <2> HIDE DEF idle
  <2> QED
    BY <2>1, <1>1, <1>2, <1>3 DEF Honest
<1> QED
  BY <1>4, <1>5, <1>6

(* What a change of a composer's state may do besides, when the session's  *)
(* word for it comes: d is a draft of the session.                         *)
Learns(s, r, d) ==
  /\ r \in Synced
  /\ r.server \in {s.server, d} /\ r.saved \in {s.saved, Drafts!NoDraft, d}
  /\ r.write.at = "saved" =>
       /\ s.write.at = "saved" /\ r.write.rev = s.write.rev
       /\ r.write.text = s.write.text /\ r.write.life = s.write.life
  /\ r.settling # "none" /\ Honest(r)

(* The rest of send.  A write that failed is tried again, unless it began  *)
(* before a reset and another text is shown.                               *)
LEMMA WriteEndedIsSound ==
  ASSUME NEW s \in Synced, s.write.at \in {"saved", "failed"},
         s.settling \notin {"none", "done"},
         NEW r, r = Drafts!WriteEnded(s)
  PROVE  /\ r.server = s.server
         /\ Learns(s, r, IF s.write.at = "saved"
                         THEN Drafts!Draft(s.write.rev, s.write.text, s.write.life)
                         ELSE s.saved)
         /\ \A u : Tracked(s, u) => Tracked(r, u)
<1> DEFINE w == s.write
           d == IF w.at = "saved" THEN Drafts!Draft(w.rev, w.text, w.life) ELSE s.saved
           saved == IF w.at = "saved" /\ ~w.rebased
                    THEN Drafts!Draft(w.rev, w.text, w.life) ELSE s.saved
           retry == s.retry \/ (w.at = "failed" /\ ~w.rebased)
           ended == [s EXCEPT !.write = Drafts!NoWrite, !.saved = saved, !.retry = retry]
<1>1. /\ w.at \in {"saved", "failed"} /\ w.text \in Said /\ w.rev \in Nat /\ w.life \in Nat
      /\ w.rebased \in BOOLEAN
  BY DEF Synced, Written
<1>2. /\ Drafts!Draft(w.rev, w.text, w.life) \in Drafted
      /\ Drafts!Draft(w.rev, w.text, w.life).text = w.text
  BY <1>1 DEF Drafts!Draft, Drafted
<1>3. saved \in Drafted /\ saved \in {s.saved, d} /\ retry \in BOOLEAN
  BY <1>2 DEF Synced
<1>4. ASSUME NEW u, Tracked(s, u), u # <<>>
      PROVE  /\ retry \/ s.text # w.text
             /\ saved # Drafts!NoDraft => saved.text # s.text
  BY <1>1, <1>2, <1>4 DEF Tracked
<1> HIDE DEF saved, retry
<1>5. /\ ended \in Synced /\ ended.text = s.text /\ ended.server = s.server
      /\ ended.saved = saved /\ ended.retry = retry /\ ended.write = Drafts!NoWrite
      /\ ended.timer = s.timer /\ ended.settling = s.settling
      /\ ended.composing = s.composing
  BY <1>3, NoWriteIsOne DEF Synced
<1>6. r = IF ended.retry \/ ended.text = w.text \/ ended.timer
          THEN Drafts!Resumed(Drafts!HeldReleased(ended))
          ELSE IF ended.composing
               THEN Drafts!Resumed(Drafts!HeldReleased([ended EXCEPT !.retry = TRUE]))
               ELSE Drafts!Sent(ended)
  BY DEF Drafts!WriteEnded, saved, retry
<1> HIDE DEF ended
<1>7. ASSUME NEW q, Sound(ended, q), Honest(q)
      PROVE  q.server = s.server /\ Learns(s, q, d)
  BY <1>3, <1>5, <1>7, NoWriteIsOne DEF Sound, Keeps, Learns
<1>8. CASE ended.retry \/ ended.text = w.text \/ ended.timer
  <2>1. Sound(ended, r) /\ Honest(r)
    <3>1. PICK q : q = Drafts!HeldReleased(ended)
      OBVIOUS
    <3>2. q \in Synced /\ Sound(ended, q) /\ q.settling = s.settling
      BY <3>1, <1>5, HeldReleasedIsSound DEF Sound
    <3>3. r = Drafts!Resumed(q)
      BY <3>1, <1>6, <1>8
    <3> QED
      BY <3>2, <3>3, ResumedIsSound, SoundIsTransitive
  <2>2. ASSUME NEW u, Tracked(s, u), u # <<>> PROVE Tracked(ended, u)
    BY <2>2, <1>4, <1>5, <1>8, NoWriteIsOne DEF Tracked, Drafts!Dirty
  <2>3. ASSUME NEW u, Tracked(s, u) PROVE Tracked(r, u)
    BY <2>1, <2>2, <2>3 DEF Sound, Tracked
  <2> QED
    BY <2>1, <2>3, <1>7
<1>9. CASE ~(ended.retry \/ ended.text = w.text \/ ended.timer) /\ ended.composing
  <2>1. PICK e : e = [ended EXCEPT !.retry = TRUE]
    OBVIOUS
  <2>2. /\ e \in Synced /\ e.text = s.text /\ e.server = s.server /\ e.saved = saved
        /\ e.retry /\ e.write = Drafts!NoWrite /\ e.settling = s.settling
    BY <2>1, <1>5 DEF Synced
  <2>3. PICK q : q = Drafts!HeldReleased(e)
    OBVIOUS
  <2>4. q \in Synced /\ Sound(e, q) /\ q.settling = s.settling
    BY <2>2, <2>3, HeldReleasedIsSound DEF Sound
  <2>5. r = Drafts!Resumed(q)
    BY <2>1, <2>3, <1>6, <1>9
  <2>6. Sound(e, r) /\ Honest(r)
    BY <2>4, <2>5, ResumedIsSound, SoundIsTransitive
  <2>7. ASSUME NEW u, Tracked(s, u), u # <<>> PROVE Tracked(e, u)
    BY <2>7, <2>2, <1>4, NoWriteIsOne DEF Tracked, Drafts!Dirty
  <2>8. ASSUME NEW u, Tracked(s, u) PROVE Tracked(r, u)
    BY <2>6, <2>7, <2>8 DEF Sound, Tracked
  <2>9. r.server = s.server /\ Learns(s, r, d)
    BY <2>6, <2>2, <1>3, NoWriteIsOne DEF Sound, Keeps, Learns
  <2> QED
    BY <2>8, <2>9
<1>10. CASE ~(ended.retry \/ ended.text = w.text \/ ended.timer) /\ ~ended.composing
  <2>1. r = Drafts!Sent(ended)
    BY <1>6, <1>10
  <2>2. /\ r \in Synced /\ r.server = s.server /\ r.saved = saved /\ r.text = s.text
        /\ r.settling = s.settling /\ Drafts!Dirty(r)
        /\ r.write.at \in {"sent", "nowhere"} /\ ~r.write.rebased
    BY <2>1, <1>5, SentWrites, NoWriteIsOne
  <2>3. ASSUME NEW u, Tracked(s, u) PROVE Tracked(r, u)
    BY <2>2, <2>3, <1>4 DEF Tracked
  <2>4. Learns(s, r, d)
    BY <2>2, <1>3 DEF Learns, Honest
  <2> QED
    BY <2>2, <2>3, <2>4
<1> QED
  BY <1>8, <1>9, <1>10

(* compositionEnd.                                                         *)
LEMMA ComposedIsSound ==
  ASSUME NEW s \in Synced, NEW r, r = Drafts!Composed(s)
  PROVE  Sound(s, r) /\ r.settling = s.settling
<1>1. PICK q : q = IF s.retry THEN Drafts!Flushed(s) ELSE s
  OBVIOUS
<1>2. q \in Synced /\ Sound(s, q) /\ q.settling = s.settling
  BY <1>1, FlushedIsSound DEF Sound, Keeps
<1>3. r = Drafts!HeldReleased(q)
  BY <1>1 DEF Drafts!Composed
<1> QED
  BY <1>2, <1>3, HeldReleasedIsSound, SoundIsTransitive

(* receive, of a draft that does not say what the user typed: what is      *)
(* shown stays as long as it is not written, and after a reset it is       *)
(* written again.                                                          *)
LEMMA ReceivedIsSound ==
  ASSUME NEW s \in Synced, s.settling \notin {"none", "done"}, s.server.rev >= 0,
         NEW draft \in Drafted, draft.rev >= 0, NEW origin,
         NEW r, r = Drafts!Received(s, draft, origin)
  PROVE  /\ Learns(s, r, draft) /\ r.server.rev >= 0
         /\ \A u : Tracked(s, u) /\ u # <<draft.text>> => Tracked(r, u)
<1>1. CASE origin = "none" /\ draft.rev < s.server.rev
  <2> DEFINE b == Drafts!Sending(s)
             reset == [s EXCEPT !.server = draft, !.saved = Drafts!NoDraft,
                                !.held = Drafts!NoDraft, !.retry = s.text # draft.text,
                                !.rebased = TRUE, !.write.rebased = b]
  <2>1. b \in BOOLEAN /\ (~b => s.write = Drafts!NoWrite)
    BY DEF Drafts!Sending
  <2>2. r = IF s.composing THEN reset ELSE Drafts!Flushed(reset)
    BY <1>1 DEF Drafts!Received, Drafts!Reset
  <2>3. PICK w : w = [s.write EXCEPT !.rebased = b]
    OBVIOUS
  <2>4. /\ w \in Written /\ w.at = s.write.at /\ w.rev = s.write.rev
        /\ w.text = s.write.text /\ w.life = s.write.life
    BY <2>1, <2>3 DEF Synced, Written
  <2> HIDE DEF b
  <2>5. /\ reset \in Synced /\ reset.text = s.text /\ reset.server = draft
        /\ reset.saved = Drafts!NoDraft /\ reset.retry = (s.text # draft.text)
        /\ reset.write = w /\ reset.settling = s.settling
    BY <2>3, <2>4, NoDraftIsOne DEF Synced
  <2> HIDE DEF reset
  <2>6. Sound(reset, r) /\ r.settling = s.settling
    <3>1. Sound(reset, reset)
      BY <2>5 DEF Sound, Keeps
    <3> QED
      BY <2>2, <2>5, <3>1, FlushedIsSound
  <2>7. Learns(s, r, draft) /\ r.server = draft
    BY <2>4, <2>5, <2>6 DEF Learns, Sound, Keeps, Honest
  <2>8. ASSUME NEW u, Tracked(s, u), u # <<draft.text>> PROVE Tracked(r, u)
    <3>1. Tracked(reset, u)
      BY <2>4, <2>5, <2>8 DEF Tracked, Drafts!Dirty
    <3> QED
      BY <3>1, <2>6 DEF Sound
  <2> QED
    BY <2>7, <2>8
<1>2. CASE ~(origin = "none" /\ draft.rev < s.server.rev) /\ draft.rev <= s.server.rev
  <2>1. r = s
    BY <1>2 DEF Drafts!Received
  <2> QED
    BY <2>1 DEF Learns, Honest
<1>3. CASE ~(draft.rev <= s.server.rev) /\ draft.rev <= s.saved.rev
  <2>1. r = [s EXCEPT !.server = draft]
    BY <1>3 DEF Drafts!Received, Synced, Drafted
  <2>2. /\ r \in Synced /\ r.server = draft /\ r.saved = s.saved /\ r.write = s.write
        /\ r.settling = s.settling /\ r.text = s.text /\ r.retry = s.retry /\ r.timer = s.timer
    BY <2>1 DEF Synced
  <2>3. ASSUME NEW u, Tracked(s, u), u # <<draft.text>> PROVE Tracked(r, u)
    BY <2>2, <2>3 DEF Tracked, Drafts!Dirty, Drafts!Sending
  <2>4. Learns(s, r, draft) /\ r.server.rev >= 0
    BY <2>2 DEF Learns, Honest
  <2> QED
    BY <2>3, <2>4
<1>4. CASE ~(draft.rev <= s.server.rev) /\ ~(draft.rev <= s.saved.rev)
  <2> DEFINE retry == s.retry /\ (origin = "other" \/ draft.text # s.text)
             heard == [s EXCEPT !.server = draft, !.retry = retry]
  <2>1. r = IF s.composing \/ Drafts!Dirty(heard) THEN [heard EXCEPT !.held = draft]
            ELSE [heard EXCEPT !.text = draft.text]
    BY <1>4 DEF Drafts!Received, Synced, Drafted
  <2>2. /\ heard \in Synced /\ heard.server = draft /\ heard.saved = s.saved
        /\ heard.write = s.write /\ heard.settling = s.settling /\ heard.text = s.text
        /\ heard.timer = s.timer /\ heard.composing = s.composing /\ heard.retry = retry
    BY DEF Synced
  <2>3. draft.text \in Said
    BY DEF Drafted
  <2> HIDE DEF heard
  <2>4. /\ r \in Synced /\ r.server = draft /\ r.saved = s.saved /\ r.write = s.write
        /\ r.settling = s.settling /\ r.timer = s.timer /\ r.retry = retry
        /\ Drafts!Dirty(heard) => r.text = s.text
    BY <2>1, <2>2, <2>3 DEF Synced
  <2>5. ASSUME NEW u, Tracked(s, u), u # <<draft.text>>, u # <<>> PROVE Tracked(r, u)
    <3>1. u = <<s.text>> /\ draft.text # s.text /\ retry = s.retry
      BY <2>5 DEF Tracked, Synced
    <3>2. Drafts!Dirty(heard) /\ Drafts!Dirty(r)
      BY <2>5, <3>1, <2>2, <2>4 DEF Tracked, Drafts!Dirty, Drafts!Sending
    <3> HIDE DEF retry
    <3> QED
      BY <2>5, <3>1, <3>2, <2>4 DEF Tracked
  <2>6. ASSUME NEW u, Tracked(s, u), u # <<draft.text>> PROVE Tracked(r, u)
    BY <2>5, <2>6 DEF Tracked
  <2>7. Learns(s, r, draft) /\ r.server.rev >= 0
    BY <2>4 DEF Learns, Honest
  <2> QED
    BY <2>6, <2>7
<1>5. draft.rev \in Int /\ s.server.rev \in Int /\ s.saved.rev \in Int
  BY DEF Synced, Drafted
<1> QED
  BY <1>1, <1>2, <1>3, <1>4, <1>5

-----------------------------------------------------------------------------
(* A draft d of the session, when its draft is now: drafts of one life are *)
(* numbered in turn, and one number is one text.                           *)
Past(d, now) ==
  /\ d.life <= now.life
  /\ d.life = now.life =>
       /\ d.rev <= now.rev
       /\ d.rev = now.rev => d.text = now.text

PaneStates == [open : BOOLEAN, draft : {d \in Drafted : d.rev >= 0}, own : BOOLEAN]

FrameOf(now) ==
  {f \in [event : {"snapshot", "draft", "closed", "hello"}, draft : Drafted,
          origin : {"none", "own", "other"}] :
     /\ Past(f.draft, now)
     /\ f.event \in {"snapshot", "draft"} => f.draft.rev >= 0}

PaneInv == pane \in PaneStates /\ hub \in PaneStates /\ strays \in Seq(Said)

(* What the hub, the frames under way, the tab and its submission have of  *)
(* the session were its drafts.                                            *)
Sourced(s, now) ==
  /\ Past(s.server, now) /\ Past(s.saved, now)
  /\ s.write.at = "saved" =>
       Past(Drafts!Draft(s.write.rev, s.write.text, s.write.life), now)

Submitted == [rev : Nat \cup {-1}, shown : Said, life : Nat]

SourceInv ==
  /\ Past(hub.draft, pane.draft)
  /\ stream \in Seq(FrameOf(pane.draft))
  /\ Sourced(sync, pane.draft)
  /\ submit \in Submitted
  /\ Past(Drafts!Draft(submit.rev, submit.shown, submit.life), pane.draft)

SyncInv ==
  /\ sync \in Synced /\ sync.settling # "done"
  /\ Drafts!Bound => sync.settling # "none" /\ sync.server.rev >= 0

TypedInv == Tracked(sync, IF overlooked THEN <<>> ELSE unwritten)

DraftInv == PaneInv /\ SourceInv /\ SyncInv /\ TypedInv

LEMMA SyncIsOne ==
  ASSUME NEW d \in Drafted, NEW s, s = Drafts!Sync(d)
  PROVE  /\ s \in Synced /\ s.server = d /\ s.saved = Drafts!NoDraft
         /\ s.write = Drafts!NoWrite /\ s.settling = "no" /\ ~s.composing
         /\ ~s.timer
<1>1. d.text \in Said
  BY DEF Drafted
<1>2. s = [text |-> d.text, server |-> d, saved |-> Drafts!NoDraft,
           held |-> Drafts!NoDraft, timer |-> FALSE, write |-> Drafts!NoWrite,
           retry |-> FALSE, composing |-> FALSE, flushing |-> FALSE, settling |-> "no",
           rebased |-> FALSE]
  BY DEF Drafts!Sync
<1> QED
  BY <1>1, <1>2, NoDraftIsOne, NoWriteIsOne DEF Synced

LEMMA NoSyncIsOne ==
  /\ Drafts!NoSync \in Synced /\ Drafts!NoSync.settling = "none"
  /\ Drafts!NoSync.write.at = "nowhere" /\ ~Drafts!NoSync.composing
  /\ ~Drafts!NoSync.timer
  /\ Drafts!NoSync.server = Drafts!NoDraft /\ Drafts!NoSync.saved = Drafts!NoDraft
<1>1. PICK s : s = Drafts!Sync(Drafts!NoDraft)
  OBVIOUS
<1>2. /\ s \in Synced /\ s.write = Drafts!NoWrite /\ ~s.composing /\ ~s.timer
      /\ s.server = Drafts!NoDraft /\ s.saved = Drafts!NoDraft
  BY <1>1, SyncIsOne, NoDraftIsOne
<1> QED
  BY <1>1, <1>2, NoWriteIsOne DEF Drafts!NoSync, Synced

LEMMA DraftStarts == Drafts!Init => DraftInv
<1> SUFFICES ASSUME Drafts!Init PROVE DraftInv
  OBVIOUS
<1> USE DEF Drafts!Init
<1>1. PICK d : d = Drafts!Draft(0, Empty, 0)
  OBVIOUS
<1>2. d \in Drafted /\ d.rev = 0 /\ d.text = Empty /\ d.life = 0
  BY <1>1 DEF Drafts!Draft, Drafted, Said
<1>3. pane = [open |-> TRUE, draft |-> d, own |-> FALSE] /\ hub = pane
      /\ pane.draft = d
  BY <1>1
<1>4. PaneInv
  BY <1>2, <1>3 DEF PaneInv, PaneStates
<1>5. sync = Drafts!Sync(d)
  BY <1>3
<1>6. SyncInv
  BY <1>2, <1>5, SyncIsOne DEF SyncInv
<1>7. Past(d, d) /\ Past(Drafts!NoDraft, d)
  BY <1>2, NoDraftIsOne DEF Past, Drafts!NoDraft, Drafts!Draft
<1>8. SourceInv
  <2>1. /\ submit \in Submitted
        /\ Past(Drafts!Draft(submit.rev, submit.shown, submit.life), d)
    BY <1>2, NoDraftIsOne
    DEF Drafts!NoSubmit, Drafts!Draft, Submitted, Said, Past
  <2>2. Sourced(sync, d)
    BY <1>2, <1>5, <1>7, SyncIsOne, NoWriteIsOne DEF Sourced
  <2> QED
    BY <2>1, <2>2, <1>3, <1>7 DEF SourceInv
<1>9. TypedInv
  BY DEF TypedInv, Tracked
<1> QED
  BY <1>4, <1>6, <1>8, <1>9 DEF DraftInv

(* The session's draft only moves on.                                      *)
LEMMA PastOnly ==
  ASSUME NEW b \in Drafted, NEW now \in Drafted, Past(b, now)
  PROVE  /\ \A d \in Drafted : Past(d, b) => Past(d, now)
         /\ \A seq \in Seq(FrameOf(b)) : seq \in Seq(FrameOf(now))
         /\ \A s \in Synced : Sourced(s, b) => Sourced(s, now)
         /\ \A q \in Submitted : Past(Drafts!Draft(q.rev, q.shown, q.life), b) =>
                                   Past(Drafts!Draft(q.rev, q.shown, q.life), now)
<1>1. \A d \in Drafted : Past(d, b) => Past(d, now)
  BY DEF Past, Drafted
<1>2. FrameOf(b) \subseteq FrameOf(now)
  BY <1>1 DEF FrameOf
<1>3. \A seq \in Seq(FrameOf(b)) : seq \in Seq(FrameOf(now))
  BY <1>2
<1>4. ASSUME NEW s \in Synced, Sourced(s, b) PROVE Sourced(s, now)
  <2>1. /\ s.server \in Drafted /\ s.saved \in Drafted
        /\ Drafts!Draft(s.write.rev, s.write.text, s.write.life) \in Drafted
    BY DEF Synced, Written, Drafts!Draft, Drafted
  <2> QED
    BY <2>1, <1>1, <1>4 DEF Sourced
<1>5. \A q \in Submitted : Drafts!Draft(q.rev, q.shown, q.life) \in Drafted
  BY DEF Submitted, Drafts!Draft, Drafted
<1> QED
  BY <1>1, <1>3, <1>4, <1>5

LEMMA NoSubmitIsPast ==
  ASSUME NEW now \in Drafted, now.rev >= 0
  PROVE  /\ Drafts!NoSubmit \in Submitted
         /\ Past(Drafts!Draft(Drafts!NoSubmit.rev, Drafts!NoSubmit.shown,
                              Drafts!NoSubmit.life), now)
         /\ Past(Drafts!NoDraft, now)
<1>1. now.rev \in Nat \cup {-1} /\ now.life \in Nat /\ now.text \in Said
  BY DEF Drafted
<1> QED
  BY <1>1 DEF Submitted, Past, Drafts!NoSubmit, Drafts!NoDraft, Drafts!Draft, Said

LEMMA SourcesStay ==
  ASSUME DraftInv, NEW now \in Drafted, Past(pane.draft, now)
  PROVE  /\ Past(hub.draft, now) /\ stream \in Seq(FrameOf(now)) /\ Sourced(sync, now)
         /\ submit \in Submitted
         /\ Past(Drafts!Draft(submit.rev, submit.shown, submit.life), now)
<1>1. pane.draft \in Drafted /\ hub.draft \in Drafted /\ sync \in Synced /\ SourceInv
  BY DEF DraftInv, PaneInv, PaneStates, SyncInv
<1> QED
  BY <1>1, PastOnly DEF SourceInv

(* What the session takes moves its draft on, and is what it has then.     *)
LEMMA TakesMovesOn ==
  ASSUME PaneInv, NEW text \in Said, NEW own \in BOOLEAN, Drafts!Takes(text, own)
  PROVE  /\ pane' \in PaneStates /\ Past(pane.draft, pane'.draft) /\ pane'.draft \in Drafted
         /\ pane'.draft.text = text /\ pane'.draft.life = pane.draft.life
         /\ unwritten' = IF unwritten = <<text>> THEN <<>> ELSE unwritten
<1>1. PICK d : d = pane.draft
  OBVIOUS
<1>2. d \in Drafted /\ d.rev >= 0 /\ d.rev \in Nat
  BY <1>1 DEF PaneInv, PaneStates, Drafted
<1>3. PICK n : n = Drafts!Draft(d.rev + 1, text, d.life)
  OBVIOUS
<1>4. n \in Drafted /\ n.rev = d.rev + 1 /\ n.text = text /\ n.life = d.life
  BY <1>2, <1>3 DEF Drafted, Drafts!Draft
<1>5. CASE text = d.text
  <2>1. pane' = pane
    BY <1>5, <1>1 DEF Drafts!Takes
  <2> QED
    BY <2>1, <1>1, <1>2, <1>5 DEF Past, PaneInv, Drafts!Takes, Drafts!Had, Drafted
<1>6. CASE text # d.text
  <2>1. pane' = [pane EXCEPT !.draft = n, !.own = own]
    BY <1>6, <1>1, <1>3 DEF Drafts!Takes, PaneInv, PaneStates
  <2>2. pane'.draft = n
    BY <2>1 DEF PaneInv, PaneStates
  <2>3. n \in {b \in Drafted : b.rev >= 0}
    BY <1>2, <1>4
  <2>4. pane' \in PaneStates
    BY <2>1, <2>3 DEF PaneInv, PaneStates
  <2> QED
    BY <2>2, <2>4, <1>1, <1>2, <1>4 DEF Past, Drafts!Takes, Drafts!Had, Drafted
<1> QED
  BY <1>5, <1>6

-----------------------------------------------------------------------------
(* Steps of the session: its draft moves on, or it closes.                 *)
LEMMA SessionStepKeeps ==
  ASSUME DraftInv, pane' \in PaneStates, Past(pane.draft, pane'.draft),
         hub' = hub, stream' = stream, sync' = sync, strays' \in Seq(Said),
         submit' \in {submit, Drafts!NoSubmit},
         unwritten' \in {unwritten, <<>>}, overlooked' = overlooked
  PROVE  DraftInv'
<1>1. pane'.draft \in Drafted /\ pane'.draft.rev >= 0
  BY DEF PaneStates
<1>2. PaneInv'
  BY DEF DraftInv, PaneInv
<1>3. SourceInv'
  <2>1. /\ Past(hub.draft, pane'.draft) /\ stream \in Seq(FrameOf(pane'.draft))
        /\ Sourced(sync, pane'.draft) /\ submit \in Submitted
        /\ Past(Drafts!Draft(submit.rev, submit.shown, submit.life), pane'.draft)
    BY <1>1, SourcesStay
  <2>2. submit' \in Submitted /\ Past(Drafts!Draft(submit'.rev, submit'.shown, submit'.life),
                                      pane'.draft)
    BY <2>1, <1>1, NoSubmitIsPast
  <2> QED
    BY <2>1, <2>2 DEF SourceInv
<1>4. SyncInv'
  BY DEF DraftInv, SyncInv, Drafts!Bound
<1>5. TypedInv'
  BY DEF DraftInv, TypedInv, Tracked
<1> QED
  BY <1>2, <1>3, <1>4, <1>5 DEF DraftInv

LEMMA OtherEditsKeeps ==
  ASSUME DraftInv, NEW text \in OthersTexts, Drafts!OtherEdits(text)
  PROVE  DraftInv'
<1>1. PaneInv /\ text \in Said /\ Drafts!Takes(text, FALSE)
  BY DEF DraftInv, Said, Drafts!OtherEdits
<1>2. /\ pane' \in PaneStates /\ Past(pane.draft, pane'.draft)
      /\ unwritten' \in {unwritten, <<>>}
  BY <1>1, TakesMovesOn
<1> QED
  BY <1>2, SessionStepKeeps DEF DraftInv, PaneInv, Drafts!OtherEdits

LEMMA StrayEndsKeeps ==
  ASSUME DraftInv, Drafts!StrayEnds
  PROVE  DraftInv'
<1>1. strays \in Seq(Said) /\ strays # <<>> /\ PaneInv /\ pane \in PaneStates
  BY DEF DraftInv, PaneInv, Drafts!StrayEnds
<1>2. Head(strays) \in Said /\ Tail(strays) \in Seq(Said)
  BY <1>1
<1>3. /\ pane' \in PaneStates /\ Past(pane.draft, pane'.draft)
      /\ unwritten' \in {unwritten, <<>>}
  <2>1. CASE Drafts!Takes(Head(strays), TRUE)
    BY <2>1, <1>1, <1>2, TakesMovesOn
  <2>2. CASE UNCHANGED <<pane, unwritten>>
    BY <2>2, <1>1 DEF PaneStates, Past, Drafted
  <2> QED
    BY <2>1, <2>2 DEF Drafts!StrayEnds
<1> QED
  BY <1>2, <1>3, SessionStepKeeps DEF Drafts!StrayEnds

LEMMA SubmitArrivesKeeps ==
  ASSUME DraftInv, Drafts!SubmitArrives
  PROVE  DraftInv'
<1>1. strays \in Seq(Said) /\ PaneInv /\ pane \in PaneStates /\ Empty \in Said
  BY DEF DraftInv, PaneInv, Said
<1>2. /\ pane' \in PaneStates /\ Past(pane.draft, pane'.draft)
      /\ unwritten' \in {unwritten, <<>>}
  <2>1. CASE Drafts!Takes(Empty, TRUE)
    BY <2>1, <1>1, TakesMovesOn
  <2>2. CASE UNCHANGED <<pane, unwritten>>
    BY <2>2, <1>1 DEF PaneStates, Past, Drafted
  <2> QED
    BY <2>1, <2>2 DEF Drafts!SubmitArrives
<1> QED
  BY <1>1, <1>2, SessionStepKeeps DEF Drafts!SubmitArrives

LEMMA CloseKeeps ==
  ASSUME DraftInv, Drafts!Close
  PROVE  DraftInv'
<1>1. pane \in PaneStates /\ pane' = [pane EXCEPT !.open = FALSE] /\ strays \in Seq(Said)
  BY DEF DraftInv, PaneInv, Drafts!Close
<1>2. pane' \in PaneStates /\ pane'.draft = pane.draft /\ pane.draft \in Drafted
  BY <1>1 DEF PaneStates
<1>3. Past(pane.draft, pane'.draft)
  BY <1>2 DEF Past, Drafted
<1> QED
  BY <1>1, <1>2, <1>3, SessionStepKeeps DEF Drafts!Close, Drafts!historyVars

(* A session that opens again begins a new count of drafts.                *)
LEMMA ReopenKeeps ==
  ASSUME DraftInv, NEW text \in OthersTexts \cup {Empty}, Drafts!Reopen(text)
  PROVE  DraftInv'
<1>1. pane \in PaneStates /\ strays \in Seq(Said) /\ pane.draft.life \in Nat /\ text \in Said
  BY DEF DraftInv, PaneInv, PaneStates, Drafted, Said
<1>2. PICK d : d = Drafts!Draft(0, text, pane.draft.life + 1)
  OBVIOUS
<1>3. d \in Drafted /\ d.rev = 0 /\ d.life = pane.draft.life + 1
  BY <1>1, <1>2 DEF Drafts!Draft, Drafted
<1>4. pane' = [open |-> TRUE, draft |-> d, own |-> FALSE]
  BY <1>2 DEF Drafts!Reopen
<1>5. pane' \in PaneStates /\ Past(pane.draft, pane'.draft)
  BY <1>1, <1>3, <1>4 DEF PaneStates, Past
<1> QED
  BY <1>1, <1>5, SessionStepKeeps DEF Drafts!Reopen, Drafts!Had

-----------------------------------------------------------------------------
(* Steps of a write: it reaches the session, or fails.                     *)
LEMMA WriteArrivesKeeps ==
  ASSUME DraftInv, Drafts!WriteArrives
  PROVE  DraftInv'
<1>1. PaneInv /\ SyncInv /\ SourceInv /\ TypedInv
  BY DEF DraftInv
<1> DEFINE w == sync.write
<1>2. /\ sync \in Synced /\ w.at = "sent" /\ w.text \in Said /\ w \in Written
      /\ Drafts!Takes(w.text, TRUE)
  BY <1>1 DEF SyncInv, Synced, Written, Drafts!WriteArrives
<1>3. /\ pane' \in PaneStates /\ Past(pane.draft, pane'.draft) /\ pane'.draft \in Drafted
      /\ pane'.draft.rev >= 0 /\ pane'.draft.text = w.text
      /\ pane'.draft.life = pane.draft.life
      /\ unwritten' = IF unwritten = <<w.text>> THEN <<>> ELSE unwritten
  BY <1>1, <1>2, TakesMovesOn DEF PaneStates
<1>4. PICK v : v = [w EXCEPT !.at = "saved", !.rev = pane'.draft.rev,
                             !.life = pane.draft.life]
  OBVIOUS
<1>5. /\ v \in Written /\ v.at = "saved" /\ v.text = w.text /\ v.rev = pane'.draft.rev
      /\ v.life = pane'.draft.life /\ v.rebased = w.rebased
  <2>1. pane'.draft.rev \in Nat /\ pane.draft.life \in Nat
    BY <1>3 DEF Drafted
  <2> QED
    BY <2>1, <1>2, <1>3, <1>4 DEF Written
<1>6. sync' = [sync EXCEPT !.write = v]
  BY <1>2, <1>4 DEF Drafts!WriteArrives, Synced
<1>7. /\ sync' \in Synced /\ sync'.write = v /\ sync'.text = sync.text
      /\ sync'.server = sync.server /\ sync'.saved = sync.saved
      /\ sync'.settling = sync.settling /\ sync'.retry = sync.retry
  BY <1>2, <1>5, <1>6 DEF Synced
<1>8. PaneInv'
  BY <1>1, <1>3 DEF PaneInv, Drafts!WriteArrives
<1>9. SyncInv'
  <2>1. sync # Drafts!NoSync
    BY <1>2, NoSyncIsOne
  <2> QED
    BY <2>1, <1>1, <1>7 DEF SyncInv, Drafts!Bound
<1>10. SourceInv'
  <2>1. /\ Past(hub.draft, pane'.draft) /\ stream \in Seq(FrameOf(pane'.draft))
        /\ Sourced(sync, pane'.draft) /\ submit \in Submitted
        /\ Past(Drafts!Draft(submit.rev, submit.shown, submit.life), pane'.draft)
    BY <1>3, SourcesStay
  <2>2. Past(Drafts!Draft(v.rev, v.text, v.life), pane'.draft)
    BY <1>3, <1>5 DEF Past, Drafts!Draft, Drafted
  <2>3. Sourced(sync', pane'.draft)
    BY <2>1, <2>2, <1>7 DEF Sourced
  <2> QED
    BY <2>1, <2>3 DEF SourceInv, Drafts!WriteArrives
<1>11. TypedInv'
  <2>1. overlooked' = overlooked
    BY DEF Drafts!WriteArrives
  <2>2. Drafts!Dirty(sync')
    BY <1>5, <1>7, NoWriteIsOne DEF Drafts!Dirty, Drafts!Sending
  <2>3. ASSUME NEW u, Tracked(sync, u), u # <<w.text>> PROVE Tracked(sync', u)
    BY <2>2, <2>3, <1>5, <1>7 DEF Tracked
  <2>4. Tracked(sync', <<>>)
    BY DEF Tracked
  <2> QED
    BY <2>1, <2>3, <2>4, <1>1, <1>3 DEF TypedInv
<1> QED
  BY <1>8, <1>9, <1>10, <1>11 DEF DraftInv

LEMMA WriteFailsKeeps ==
  ASSUME DraftInv, sync.write.at \in {"sent", "saved"},
         sync' = [sync EXCEPT !.write.at = "failed"], strays' \in Seq(Said),
         UNCHANGED <<pane, hub, stream, submit, unwritten, overlooked>>
  PROVE  DraftInv'
<1> DEFINE w == sync.write
<1>1. PaneInv /\ SyncInv /\ SourceInv /\ TypedInv
  BY DEF DraftInv
<1>2. sync \in Synced /\ w \in Written
  BY <1>1 DEF SyncInv, Synced
<1>3. PICK v : v = [w EXCEPT !.at = "failed"]
  OBVIOUS
<1>4. v \in Written /\ v.at = "failed" /\ v.text = w.text /\ v.rebased = w.rebased
  BY <1>2, <1>3 DEF Written
<1>5. /\ sync' \in Synced /\ sync'.write = v /\ sync'.text = sync.text
      /\ sync'.server = sync.server /\ sync'.saved = sync.saved
      /\ sync'.settling = sync.settling /\ sync'.retry = sync.retry
  BY <1>2, <1>3, <1>4 DEF Synced
<1>6. SyncInv'
  <2>1. sync # Drafts!NoSync
    BY NoSyncIsOne
  <2> QED
    BY <2>1, <1>1, <1>5 DEF SyncInv, Drafts!Bound
<1>7. SourceInv'
  BY <1>1, <1>4, <1>5 DEF SourceInv, Sourced
<1>8. TypedInv'
  <2>1. Drafts!Dirty(sync')
    BY <1>4, <1>5, NoWriteIsOne DEF Drafts!Dirty, Drafts!Sending
  <2>2. ASSUME NEW u, Tracked(sync, u) PROVE Tracked(sync', u)
    BY <2>1, <2>2, <1>4, <1>5 DEF Tracked
  <2> QED
    BY <2>2, <1>1 DEF TypedInv
<1>9. PaneInv'
  BY <1>1 DEF PaneInv
<1> QED
  BY <1>6, <1>7, <1>8, <1>9 DEF DraftInv

LEMMA WriteRefusedKeeps ==
  ASSUME DraftInv, Drafts!WriteRefused
  PROVE  DraftInv'
BY WriteFailsKeeps DEF DraftInv, PaneInv, Drafts!WriteRefused, Drafts!historyVars

LEMMA WriteLostKeeps ==
  ASSUME DraftInv, Drafts!WriteLost
  PROVE  DraftInv'
<1>1. strays \in Seq(Said) /\ sync.write.text \in Said
  BY DEF DraftInv, PaneInv, SyncInv, Synced, Written
<1>2. strays' \in Seq(Said)
  BY <1>1 DEF Drafts!WriteLost
<1> QED
  BY <1>2, WriteFailsKeeps DEF Drafts!WriteLost, Drafts!historyVars

-----------------------------------------------------------------------------
(* Steps of the hub.                                                       *)
LEMMA PublishKeeps ==
  ASSUME DraftInv, Drafts!Publish
  PROVE  DraftInv'
<1>1. /\ pane \in PaneStates /\ pane.draft \in Drafted /\ pane.draft.rev >= 0
      /\ stream \in Seq(FrameOf(pane.draft))
  BY DEF DraftInv, PaneInv, PaneStates, SourceInv
<1>2. Past(pane.draft, pane.draft) /\ Past(Drafts!NoDraft, pane.draft)
  BY <1>1, NoSubmitIsPast DEF Past, Drafted
<1>3. \A frame \in Drafts!Frames(pane) : frame \in FrameOf(pane.draft)
  BY <1>1, <1>2, NoDraftIsOne
  DEF Drafts!Frames, Drafts!Snapshot, Drafts!DraftFrame, Drafts!ClosedFrame, FrameOf
<1>4. stream' \in Seq(FrameOf(pane.draft))
  BY <1>1, <1>3 DEF Drafts!Publish
<1>5. PaneInv'
  BY <1>1 DEF DraftInv, PaneInv, Drafts!Publish
<1>6. SourceInv'
  BY <1>2, <1>4 DEF DraftInv, SourceInv, Drafts!Publish
<1>7. SyncInv' /\ TypedInv'
  BY DEF DraftInv, SyncInv, TypedInv, Drafts!Publish, Drafts!Bound, Drafts!historyVars
<1> QED
  BY <1>5, <1>6, <1>7 DEF DraftInv

LEMMA ShortSequences ==
  ASSUME NEW S, NEW a \in S, NEW b \in S
  PROVE  <<>> \in Seq(S) /\ <<a>> \in Seq(S) /\ <<a, b>> \in Seq(S)
OBVIOUS

LEMMA ConnectionKeeps ==
  ASSUME DraftInv, Drafts!Disconnect \/ Drafts!Reconnect
  PROVE  DraftInv'
<1>1. /\ hub \in PaneStates /\ hub.draft \in Drafted /\ hub.draft.rev >= 0
      /\ pane.draft \in Drafted /\ pane.draft.rev >= 0 /\ Past(hub.draft, pane.draft)
  BY DEF DraftInv, PaneInv, PaneStates, SourceInv
<1>2. Drafts!Hello \in FrameOf(pane.draft) /\ Drafts!Snapshot(hub) \in FrameOf(pane.draft)
  BY <1>1, NoDraftIsOne, NoSubmitIsPast DEF Drafts!Hello, Drafts!Snapshot, FrameOf
<1>3. stream' \in Seq(FrameOf(pane.draft))
  <2>1. PICK a \in FrameOf(pane.draft) : a = Drafts!Hello
    BY <1>2
  <2>2. PICK b \in FrameOf(pane.draft) : b = Drafts!Snapshot(hub)
    BY <1>2
  <2>3. stream' \in {<<>>, <<a>>, <<a, b>>}
    BY <2>1, <2>2 DEF Drafts!Disconnect, Drafts!Reconnect
  <2> QED
    BY <2>3, ShortSequences
<1>4. UNCHANGED <<pane, hub, sync, strays, submit, unwritten, overlooked>>
  BY DEF Drafts!Disconnect, Drafts!Reconnect, Drafts!historyVars
<1>5. PaneInv'
  BY <1>4 DEF DraftInv, PaneInv
<1>6. SourceInv'
  BY <1>3, <1>4 DEF DraftInv, SourceInv
<1>7. SyncInv' /\ TypedInv'
  BY <1>4 DEF DraftInv, SyncInv, TypedInv, Drafts!Bound
<1> QED
  BY <1>5, <1>6, <1>7 DEF DraftInv

-----------------------------------------------------------------------------
(* Steps of the composer.  One that settles sends what it shows.           *)
LEMMA DraftBecomesKeeps ==
  ASSUME DraftInv, NEW s \in Synced, Drafts!Becomes(s), Honest(s),
         s.settling # "none", s.server.rev >= 0, Sourced(s, pane.draft),
         stream' \in Seq(FrameOf(pane.draft)), strays' = strays,
         UNCHANGED <<pane, hub>>,
         Tracked(s, IF overlooked' THEN <<>> ELSE unwritten')
  PROVE  DraftInv'
<1>1. PaneInv /\ SourceInv /\ pane.draft \in Drafted
  BY DEF DraftInv, PaneInv, PaneStates
<1>2. CASE s.settling = "done"
  <2>1. sync' = [s EXCEPT !.settling = "no"]
    BY <1>2 DEF Drafts!Becomes
  <2>2. /\ sync' \in Synced /\ sync'.settling = "no" /\ sync'.server = s.server
        /\ sync'.saved = s.saved /\ sync'.write = s.write /\ sync'.text = s.text
        /\ sync'.timer = s.timer /\ sync'.retry = s.retry
    BY <2>1 DEF Synced
  <2>3. PICK d \in {s.server, s.saved} : d = Drafts!LatestSaved(s)
    BY DEF Drafts!LatestSaved
  <2>4. /\ d \in Drafted /\ d.text = s.text /\ Past(d, pane.draft)
    BY <2>3, <1>2 DEF Synced, Honest, Sourced
  <2>5. submit' = [rev |-> d.rev, shown |-> s.text, life |-> d.life]
    BY <2>3, <1>2 DEF Drafts!Becomes
  <2>6. submit' \in Submitted
    BY <2>4, <2>5 DEF Submitted, Drafted
  <2>7. Past(Drafts!Draft(submit'.rev, submit'.shown, submit'.life), pane.draft)
    BY <2>4, <2>5 DEF Past, Drafts!Draft
  <2>8. SourceInv'
    BY <2>2, <2>6, <2>7, <1>1 DEF SourceInv, Sourced
  <2>9. SyncInv'
    BY <2>2 DEF SyncInv, Drafts!Bound
  <2>10. TypedInv'
    BY <2>2 DEF TypedInv, Tracked, Drafts!Dirty, Drafts!Sending
  <2> QED
    BY <2>8, <2>9, <2>10, <1>1 DEF DraftInv, PaneInv
<1>3. CASE s.settling # "done"
  <2>1. sync' = s /\ submit' = submit
    BY <1>3 DEF Drafts!Becomes
  <2>2. SourceInv'
    BY <2>1, <1>1 DEF SourceInv
  <2>3. SyncInv'
    BY <2>1, <1>3 DEF SyncInv, Drafts!Bound
  <2>4. TypedInv'
    BY <2>1 DEF TypedInv
  <2> QED
    BY <2>2, <2>3, <2>4, <1>1 DEF DraftInv, PaneInv
<1> QED
  BY <1>2, <1>3

(* A function of the composer alone.                                       *)
LEMMA SoundStepKeeps ==
  ASSUME DraftInv, sync.settling # "none",
         NEW s, Sound(sync, s), Honest(s), Drafts!Becomes(s),
         stream' \in Seq(FrameOf(pane.draft)), strays' = strays,
         UNCHANGED <<pane, hub, unwritten, overlooked>>
  PROVE  DraftInv'
<1>1. /\ sync \in Synced /\ sync # Drafts!NoSync /\ sync.server.rev >= 0
      /\ Sourced(sync, pane.draft) /\ TypedInv
  BY NoSyncIsOne DEF DraftInv, SyncInv, SourceInv, Drafts!Bound
<1>2. /\ s \in Synced /\ s.settling # "none" /\ s.server.rev >= 0 /\ Sourced(s, pane.draft)
  BY <1>1 DEF Sound, Keeps, Sourced
<1>3. Tracked(s, IF overlooked' THEN <<>> ELSE unwritten')
  BY <1>1 DEF TypedInv, Sound
<1> QED
  BY <1>2, <1>3, DraftBecomesKeeps

(* What is typed is not written, unless a draft the tab knows of, or a     *)
(* write of it, says the same.                                             *)
LEMMA TypedIsTracked ==
  ASSUME DraftInv, sync.settling # "none", NEW text, Drafts!Typed(text),
         NEW s, s.text = text, s.timer, s.server = sync.server, s.saved = sync.saved,
         s.write = sync.write, s.retry = sync.retry, s.settling = sync.settling
  PROVE  Tracked(s, IF overlooked' THEN <<>> ELSE unwritten')
<1>1. sync.server.rev >= 0 /\ sync.server # Drafts!NoDraft
  BY NoSyncIsOne, NoDraftIsOne DEF DraftInv, SyncInv, Drafts!Bound
<1>2. /\ unwritten' = IF Drafts!HadLast(text) THEN <<>> ELSE <<text>>
      /\ overlooked' = Drafts!Overlooked(text)
  BY DEF Drafts!Typed
<1>3. ASSUME ~overlooked', unwritten' # <<>> PROVE Tracked(s, unwritten')
  <2>1. unwritten' = <<text>> /\ ~Drafts!HadLast(text) /\ ~Drafts!Overlooked(text)
    BY <1>2, <1>3
  <2> QED
    BY <2>1, <1>1 DEF Tracked, Drafts!HadLast, Drafts!Overlooked, Drafts!Dirty
<1> QED
  BY <1>3 DEF Tracked

LEMMA BoundSettles ==
  ASSUME DraftInv, Drafts!Bound
  PROVE  sync \in Synced /\ sync.settling \notin {"none", "done"} /\ sync.server.rev >= 0
BY DEF DraftInv, SyncInv

LEMMA TypeKeeps ==
  ASSUME DraftInv, NEW text \in Texts \cup {Empty}, Drafts!Type(text)
  PROVE  DraftInv'
<1>1. /\ Drafts!Bound /\ Drafts!Typed(text) /\ Drafts!Becomes(Drafts!Edited(sync, text))
      /\ UNCHANGED <<pane, hub, stream, strays>>
  BY DEF Drafts!Type, Drafts!TabStep
<1>2. sync \in Synced /\ sync.settling \notin {"none", "done"} /\ sync.server.rev >= 0
  BY <1>1, BoundSettles
<1>3. PICK s : s = [sync EXCEPT !.text = text, !.timer = TRUE]
  OBVIOUS
<1>4. /\ s \in Synced /\ s.text = text /\ s.timer /\ s.server = sync.server
      /\ s.saved = sync.saved /\ s.write = sync.write /\ s.retry = sync.retry
      /\ s.settling = sync.settling
  BY <1>2, <1>3 DEF Synced, Said
<1>5. Drafts!Becomes(s)
  BY <1>1, <1>3 DEF Drafts!Edited
<1>6. Tracked(s, IF overlooked' THEN <<>> ELSE unwritten')
  BY <1>1, <1>2, <1>4, TypedIsTracked
<1>7. Sourced(s, pane.draft) /\ Honest(s) /\ stream' \in Seq(FrameOf(pane.draft))
  BY <1>1, <1>2, <1>4 DEF DraftInv, SourceInv, Sourced, Honest
<1> QED
  BY <1>1, <1>2, <1>4, <1>5, <1>6, <1>7, DraftBecomesKeeps

LEMMA TimerKeeps ==
  ASSUME DraftInv, Drafts!Timer
  PROVE  DraftInv'
<1>1. sync.timer /\ Drafts!Becomes(Drafts!Sent(sync))
      /\ UNCHANGED <<pane, hub, stream, strays, unwritten, overlooked>>
  BY DEF Drafts!Timer, Drafts!TabStep
<1>2. Drafts!Bound
  BY <1>1, NoSyncIsOne DEF Drafts!Bound
<1>3. sync \in Synced /\ sync.settling \notin {"none", "done"}
  BY <1>2, BoundSettles
<1>4. Sound(sync, Drafts!Sent(sync)) /\ Honest(Drafts!Sent(sync))
  BY <1>3, SentIsSound DEF Honest
<1>5. stream' \in Seq(FrameOf(pane.draft))
  BY <1>1 DEF DraftInv, SourceInv
<1> QED
  BY <1>1, <1>3, <1>4, <1>5, SoundStepKeeps

LEMMA PressSendKeeps ==
  ASSUME DraftInv, Drafts!PressSend
  PROVE  DraftInv'
<1>1. Drafts!Bound /\ Drafts!Becomes(Drafts!Settles(sync))
      /\ UNCHANGED <<pane, hub, stream, strays, unwritten, overlooked>>
  BY DEF Drafts!PressSend, Drafts!TabStep
<1>2. sync \in Synced /\ sync.settling \notin {"none", "done"}
  BY <1>1, BoundSettles
<1>3. Sound(sync, Drafts!Settles(sync)) /\ Honest(Drafts!Settles(sync))
  BY <1>2, SettlesIsSound
<1>4. stream' \in Seq(FrameOf(pane.draft))
  BY <1>1 DEF DraftInv, SourceInv
<1> QED
  BY <1>1, <1>2, <1>3, <1>4, SoundStepKeeps

LEMMA CompositionStartKeeps ==
  ASSUME DraftInv, Drafts!CompositionStart
  PROVE  DraftInv'
<1>1. /\ Drafts!Bound /\ sync' = [sync EXCEPT !.composing = TRUE]
      /\ UNCHANGED <<pane, hub, stream, strays, submit, unwritten, overlooked>>
  BY DEF Drafts!CompositionStart, Drafts!TabStep
<1>2. sync \in Synced /\ sync.settling \notin {"none", "done"}
  BY <1>1, BoundSettles
<1>3. PICK s : s = sync'
  OBVIOUS
<1>4. /\ s \in Synced /\ s.text = sync.text /\ s.timer = sync.timer /\ s.server = sync.server
      /\ s.saved = sync.saved /\ s.write = sync.write /\ s.retry = sync.retry
      /\ s.settling = sync.settling
  BY <1>1, <1>2, <1>3 DEF Synced
<1>5. Sound(sync, s)
  BY <1>2, <1>4, MarkIsSound
<1>6. Drafts!Becomes(s) /\ Honest(s)
  BY <1>1, <1>2, <1>3, <1>4 DEF Drafts!Becomes, Honest
<1>7. stream' \in Seq(FrameOf(pane.draft))
  BY <1>1 DEF DraftInv, SourceInv
<1> QED
  BY <1>1, <1>2, <1>5, <1>6, <1>7, SoundStepKeeps

LEMMA CompositionEndKeeps ==
  ASSUME DraftInv, NEW text \in Texts \cup {sync.text}, Drafts!CompositionEnd(text)
  PROVE  DraftInv'
<1>1. sync.composing /\ UNCHANGED <<pane, hub, stream, strays>>
  BY DEF Drafts!CompositionEnd, Drafts!TabStep
<1>2. Drafts!Bound
  BY <1>1, NoSyncIsOne DEF Drafts!Bound
<1>3. sync \in Synced /\ sync.settling \notin {"none", "done"} /\ sync.server.rev >= 0
  BY <1>2, BoundSettles
<1>4. PICK ended : ended = [sync EXCEPT !.composing = FALSE]
  OBVIOUS
<1>5. /\ ended \in Synced /\ ended.text = sync.text /\ ended.timer = sync.timer
      /\ ended.server = sync.server /\ ended.saved = sync.saved /\ ended.write = sync.write
      /\ ended.retry = sync.retry /\ ended.settling = sync.settling
  BY <1>3, <1>4 DEF Synced
<1>6. stream' \in Seq(FrameOf(pane.draft)) /\ Sourced(sync, pane.draft)
  BY <1>1 DEF DraftInv, SourceInv
<1>7. CASE text = sync.text
  <2>1. Drafts!Becomes(Drafts!Composed(ended)) /\ UNCHANGED <<unwritten, overlooked>>
    BY <1>4, <1>7 DEF Drafts!CompositionEnd
  <2>2. PICK r : r = Drafts!Composed(ended)
    OBVIOUS
  <2>3. Sound(ended, r) /\ r.settling = sync.settling
    BY <2>2, <1>5, ComposedIsSound
  <2>4. Sound(sync, r) /\ Honest(r)
    BY <2>3, <1>3, <1>5, MarkIsSound, SoundIsTransitive DEF Honest
  <2> QED
    BY <2>1, <2>2, <2>4, <1>1, <1>3, <1>6, SoundStepKeeps
<1>8. CASE text # sync.text
  <2>1. PICK e : e = [ended EXCEPT !.text = text, !.timer = TRUE]
    OBVIOUS
  <2>2. Drafts!Typed(text) /\ Drafts!Becomes(Drafts!Composed(e))
    BY <2>1, <1>4, <1>8 DEF Drafts!CompositionEnd, Drafts!Edited
  <2>3. /\ e \in Synced /\ e.text = text /\ e.timer /\ e.server = sync.server
        /\ e.saved = sync.saved /\ e.write = sync.write /\ e.retry = sync.retry
        /\ e.settling = sync.settling
    BY <2>1, <1>5, <1>8 DEF Synced, Said
  <2>4. Tracked(e, IF overlooked' THEN <<>> ELSE unwritten')
    BY <2>2, <2>3, <1>3, TypedIsTracked
  <2>5. PICK r : r = Drafts!Composed(e)
    OBVIOUS
  <2>6. Sound(e, r) /\ r.settling = sync.settling
    BY <2>3, <2>5, ComposedIsSound
  <2>7. /\ r \in Synced /\ r.server.rev >= 0 /\ Sourced(r, pane.draft) /\ Honest(r)
    BY <2>3, <2>6, <1>3, <1>6 DEF Sound, Keeps, Sourced, Honest
  <2>8. Tracked(r, IF overlooked' THEN <<>> ELSE unwritten')
    BY <2>4, <2>6 DEF Sound
  <2> QED
    BY <2>2, <2>5, <2>6, <2>7, <2>8, <1>1, <1>3, <1>6, DraftBecomesKeeps
<1> QED
  BY <1>7, <1>8

LEMMA AnswerKeeps ==
  ASSUME DraftInv, Drafts!Answer
  PROVE  DraftInv'
<1>1. /\ sync.write.at \in {"saved", "failed"} /\ Drafts!Becomes(Drafts!WriteEnded(sync))
      /\ UNCHANGED <<pane, hub, stream, strays, unwritten, overlooked>>
  BY DEF Drafts!Answer, Drafts!TabStep
<1>2. Drafts!Bound
  BY <1>1, NoSyncIsOne DEF Drafts!Bound
<1>3. sync \in Synced /\ sync.settling \notin {"none", "done"} /\ sync.server.rev >= 0
  BY <1>2, BoundSettles
<1>4. Sourced(sync, pane.draft) /\ TypedInv /\ stream' \in Seq(FrameOf(pane.draft))
  BY <1>1 DEF DraftInv, SourceInv
<1>5. PICK r : r = Drafts!WriteEnded(sync)
  OBVIOUS
<1>6. PICK d : d = IF sync.write.at = "saved"
                   THEN Drafts!Draft(sync.write.rev, sync.write.text, sync.write.life)
                   ELSE sync.saved
  OBVIOUS
<1>7. /\ r.server = sync.server /\ Learns(sync, r, d)
      /\ \A u : Tracked(sync, u) => Tracked(r, u)
  BY <1>1, <1>3, <1>5, <1>6, WriteEndedIsSound
<1>8. Past(d, pane.draft) /\ Past(Drafts!NoDraft, pane.draft)
  BY <1>4, <1>6, NoSubmitIsPast DEF Sourced, DraftInv, PaneInv, PaneStates
<1>9. Sourced(r, pane.draft)
  BY <1>4, <1>7, <1>8 DEF Sourced, Learns
<1>10. Tracked(r, IF overlooked' THEN <<>> ELSE unwritten')
  BY <1>1, <1>4, <1>7 DEF TypedInv
<1> QED
  BY <1>1, <1>3, <1>4, <1>5, <1>7, <1>9, <1>10, DraftBecomesKeeps DEF Learns

(* A frame of the stream is read.                                          *)
LEMMA ReadKeeps ==
  ASSUME DraftInv, Drafts!Read
  PROVE  DraftInv'
<1>1. /\ PaneInv /\ SourceInv /\ SyncInv /\ TypedInv
      /\ pane.draft \in Drafted /\ pane.draft.rev >= 0
  BY DEF DraftInv, PaneInv, PaneStates
<1>2. /\ stream \in Seq(FrameOf(pane.draft)) /\ stream # <<>> /\ stream' = Tail(stream)
      /\ UNCHANGED <<pane, hub, overlooked>>
  BY <1>1 DEF SourceInv, Drafts!Read
<1>3. PICK frame : frame = Head(stream)
  OBVIOUS
<1>4. frame \in FrameOf(pane.draft) /\ stream' \in Seq(FrameOf(pane.draft))
  BY <1>2, <1>3
<1>5. /\ frame.draft \in Drafted /\ Past(frame.draft, pane.draft)
      /\ frame.event \in {"snapshot", "draft"} => frame.draft.rev >= 0
  BY <1>4 DEF FrameOf
<1>6. CASE frame.event = "closed" /\ Drafts!Bound
  <2>1. /\ sync' = Drafts!NoSync /\ strays' = strays \o Drafts!LastWrites(sync)
        /\ unwritten' = <<>> /\ submit' = submit
    BY <1>3, <1>6 DEF Drafts!Read
  <2>2. sync.text \in Said /\ sync.write.text \in Said
    BY <1>1 DEF SyncInv, Synced, Written
  <2>3. Drafts!LastWrites(sync) \in Seq(Said)
    BY <2>2 DEF Drafts!LastWrites
  <2>4. PaneInv'
    BY <2>1, <2>3, <1>1, <1>2 DEF PaneInv
  <2>5. SyncInv'
    BY <2>1, NoSyncIsOne DEF SyncInv, Drafts!Bound
  <2>6. SourceInv'
    BY <2>1, <1>1, <1>2, <1>4, NoSyncIsOne, NoSubmitIsPast DEF SourceInv, Sourced
  <2>7. TypedInv'
    BY <2>1 DEF TypedInv, Tracked
  <2> QED
    BY <2>4, <2>5, <2>6, <2>7 DEF DraftInv
<1>7. CASE frame.event = "snapshot" /\ ~Drafts!Bound
  <2>1. sync' = Drafts!Sync(frame.draft) /\ UNCHANGED <<strays, unwritten, submit>>
    BY <1>3, <1>7 DEF Drafts!Read
  <2>2. /\ sync' \in Synced /\ sync'.server = frame.draft /\ sync'.saved = Drafts!NoDraft
        /\ sync'.write = Drafts!NoWrite /\ sync'.settling = "no"
    BY <2>1, <1>5, SyncIsOne
  <2>3. SyncInv'
    BY <2>2, <1>5, <1>7 DEF SyncInv
  <2>4. SourceInv'
    BY <2>1, <2>2, <1>1, <1>2, <1>4, <1>5, NoWriteIsOne, NoSubmitIsPast
    DEF SourceInv, Sourced
  <2>5. sync.settling = "none"
    BY <1>7, NoSyncIsOne DEF Drafts!Bound
  <2>6. TypedInv'
    BY <2>1, <2>5, <1>1, <1>2 DEF TypedInv, Tracked
  <2> QED
    BY <2>1, <2>3, <2>4, <2>6, <1>1, <1>2 DEF DraftInv, PaneInv
<1>8. CASE frame.event = "hello" /\ Drafts!Bound
  <2>1. PICK s : s = IF sync.retry /\ ~Drafts!Sending(sync) THEN Drafts!Sent(sync) ELSE sync
    OBVIOUS
  <2>2. Drafts!Becomes(s) /\ UNCHANGED <<strays, unwritten>>
    BY <2>1, <1>3, <1>8 DEF Drafts!Read
  <2>3. sync \in Synced /\ sync.settling \notin {"none", "done"}
    BY <1>8, BoundSettles
  <2>4. Sound(sync, s) /\ s.settling = sync.settling
    <3>1. Sound(sync, sync)
      BY <2>3 DEF Sound, Keeps
    <3> QED
      BY <2>1, <2>3, <3>1, SentIsSound
  <2> QED
    BY <2>2, <2>3, <2>4, <1>2, <1>4, SoundStepKeeps DEF Honest
<1>9. CASE frame.event \in {"snapshot", "draft"} /\ Drafts!Bound
  <2>1. PICK r : r = Drafts!Received(sync, frame.draft, frame.origin)
    OBVIOUS
  <2>2. /\ Drafts!Becomes(r) /\ strays' = strays
        /\ unwritten' = IF unwritten = <<frame.draft.text>> THEN <<>> ELSE unwritten
    BY <2>1, <1>3, <1>9 DEF Drafts!Read, Drafts!Had
  <2>3. sync \in Synced /\ sync.settling \notin {"none", "done"} /\ sync.server.rev >= 0
    BY <1>9, BoundSettles
  <2>4. /\ Learns(sync, r, frame.draft) /\ r.server.rev >= 0
        /\ \A u : Tracked(sync, u) /\ u # <<frame.draft.text>> => Tracked(r, u)
    BY <2>1, <2>3, <1>5, <1>9, ReceivedIsSound
  <2>5. Sourced(r, pane.draft)
    BY <2>4, <1>1, <1>5, NoSubmitIsPast DEF Sourced, SourceInv, Learns
  <2>6. Tracked(r, IF overlooked' THEN <<>> ELSE unwritten')
    <3>1. Tracked(r, <<>>)
      BY DEF Tracked
    <3> QED
      BY <3>1, <2>2, <2>4, <1>1, <1>2 DEF TypedInv
  <2> QED
    BY <2>2, <2>4, <2>5, <2>6, <1>2, <1>4, DraftBecomesKeeps DEF Learns
<1>10. CASE ~(\/ frame.event = "closed" /\ Drafts!Bound
              \/ frame.event = "snapshot" /\ ~Drafts!Bound
              \/ frame.event = "hello" /\ Drafts!Bound
              \/ frame.event \in {"snapshot", "draft"} /\ Drafts!Bound)
  <2>1. UNCHANGED <<sync, strays, unwritten, submit>>
    BY <1>3, <1>10 DEF Drafts!Read
  <2> QED
    BY <2>1, <1>1, <1>2, <1>4
    DEF DraftInv, PaneInv, SourceInv, SyncInv, TypedInv, Drafts!Bound
<1> QED
  BY <1>6, <1>7, <1>8, <1>9, <1>10

LEMMA DraftKeeps ==
  ASSUME DraftInv, [Drafts!Next]_draftVars
  PROVE  DraftInv'
<1>1. CASE UNCHANGED draftVars
  BY <1>1
  DEF draftVars, DraftInv, PaneInv, SourceInv, SyncInv, TypedInv, Drafts!Bound
<1>2. CASE Drafts!Next
  <2>1. ASSUME NEW text \in Texts \cup {Empty}, Drafts!Type(text) PROVE DraftInv'
    BY <2>1, TypeKeeps
  <2>2. ASSUME NEW text \in Texts \cup {sync.text}, Drafts!CompositionEnd(text)
        PROVE  DraftInv'
    BY <2>2, CompositionEndKeeps
  <2>3. ASSUME NEW text \in OthersTexts, Drafts!OtherEdits(text) PROVE DraftInv'
    BY <2>3, OtherEditsKeeps
  <2>4. ASSUME NEW text \in OthersTexts \cup {Empty}, Drafts!Reopen(text) PROVE DraftInv'
    BY <2>4, ReopenKeeps
  <2>5. CASE Drafts!WriteArrives
    BY <2>5, WriteArrivesKeeps
  <2>6. CASE Drafts!WriteRefused
    BY <2>6, WriteRefusedKeeps
  <2>7. CASE Drafts!WriteLost
    BY <2>7, WriteLostKeeps
  <2>8. CASE Drafts!StrayEnds
    BY <2>8, StrayEndsKeeps
  <2>9. CASE Drafts!SubmitArrives
    BY <2>9, SubmitArrivesKeeps
  <2>10. CASE Drafts!Close
    BY <2>10, CloseKeeps
  <2>11. CASE Drafts!Publish
    BY <2>11, PublishKeeps
  <2>12. CASE Drafts!Disconnect \/ Drafts!Reconnect
    BY <2>12, ConnectionKeeps
  <2>13. CASE Drafts!Read
    BY <2>13, ReadKeeps
  <2>14. CASE Drafts!Timer
    BY <2>14, TimerKeeps
  <2>15. CASE Drafts!CompositionStart
    BY <2>15, CompositionStartKeeps
  <2>16. CASE Drafts!Answer
    BY <2>16, AnswerKeeps
  <2>17. CASE Drafts!PressSend
    BY <2>17, PressSendKeeps
  <2> QED
    BY <1>2, <2>1, <2>2, <2>3, <2>4, <2>5, <2>6, <2>7, <2>8, <2>9, <2>10, <2>11, <2>12,
       <2>13, <2>14, <2>15, <2>16, <2>17
    DEF Drafts!Next
<1> QED
  BY <1>1, <1>2

THEOREM DraftHolds == PartsSpec => []DraftInv
<1>1. PartsInit => DraftInv
  BY DraftStarts DEF PartsInit
<1>2. ASSUME DraftInv, [PartsNext]_allVars PROVE DraftInv'
  BY <1>2, DraftKeeps DEF PartsNext, allVars
<1> QED
  BY <1>1, <1>2, PTL DEF PartsSpec

(* What the user typed is shown until the session has had it: no draft of  *)
(* another writer, no late answer and no reset takes its place             *)
(* (DraftSync: receive, send, releaseHeld).                                *)
THEOREM TypedTextIsKept == PartsSpec => []EditsAreKept
<1>1. DraftInv => EditsAreKept
  BY DEF DraftInv, TypedInv, Tracked, EditsAreKept, Drafts!EditsAreKept
<1> QED
  BY <1>1, DraftHolds, PTL

(* The prompt that the session sends is the one the tab showed when the    *)
(* user sent it (DraftSync.settledRev, submit of app.rs).                  *)
THEOREM PromptSentWasShown == PartsSpec => []SentAsShown
<1>1. ASSUME DraftInv, submit # Drafts!NoSubmit, Drafts!Accepted,
             submit.life = pane.draft.life
      PROVE  submit.shown = pane.draft.text
  <2>1. Past(Drafts!Draft(submit.rev, submit.shown, submit.life), pane.draft)
    BY <1>1 DEF DraftInv, SourceInv
  <2>2. submit.rev = pane.draft.rev
    BY <1>1 DEF Drafts!Accepted
  <2> QED
    BY <2>1, <2>2, <1>1 DEF Past, Drafts!Draft
<1>2. DraftInv => SentAsShown
  BY <1>1 DEF SentAsShown, Drafts!SentAsShown
<1> QED
  BY <1>2, DraftHolds, PTL

-----------------------------------------------------------------------------
(* A quiet tab shows the session's draft.  One number of one life is one   *)
(* text, wherever it is known.                                             *)
OneText(a, b) == a.life = b.life /\ a.rev = b.rev /\ a.rev >= 0 => a.text = b.text

DraftOf(w) == Drafts!Draft(w.rev, w.text, w.life)

Own(s) ==
  {s.server, s.saved, s.held} \cup (IF s.write.at = "saved" THEN {DraftOf(s.write)} ELSE {})

Known ==
  {pane.draft, hub.draft} \cup Own(sync) \cup {stream[i].draft : i \in DOMAIN stream}

KnownInv ==
  /\ \A a \in Known : Past(a, pane.draft)
  /\ \A a, b \in Known : OneText(a, b)

(* What the tab has of its own is of the life of what it has read; and a   *)
(* draft it read after its write was saved waits.                          *)
OfOneLife(s) ==
  /\ s.saved # Drafts!NoDraft => s.saved.life = s.server.life
  /\ s.held # Drafts!NoDraft => s.held.life = s.server.life /\ OneText(s.held, s.server)
  /\ s.write.at = "saved" /\ ~s.write.rebased =>
       /\ s.write.life = s.server.life /\ OneText(DraftOf(s.write), s.server)
       /\ s.saved.rev <= s.write.rev
       /\ s.server.rev > s.write.rev => s.held = s.server

HeldIsNewest(s) ==
  s.held # Drafts!NoDraft /\ s.held = s.server /\ s.held.rev > s.saved.rev

ShowsLatest(s) == s.text = Drafts!LatestSaved(s).text

(* A tab that has nothing to write shows the newest draft, or will when it *)
(* has composed; and so will one with a write from before a reset, unless  *)
(* what it shows has a write to come.                                      *)
Recalls(s, o) ==
  s.write.rebased /\ ~o =>
    s.retry \/ s.text # s.write.text \/ ShowsLatest(s) \/ HeldIsNewest(s)

Rests(s, o)  == ~Drafts!Dirty(s) /\ ~o => ShowsLatest(s) \/ (s.composing /\ HeldIsNewest(s))
Nearly(s, o) == ~Drafts!Dirty(s) /\ ~o => ShowsLatest(s) \/ HeldIsNewest(s)

Follows(s) == Drafts!Bound /\ ~draft_misled /\ s.server.life = pane.draft.life

FitInv ==
  Follows(sync) => OfOneLife(sync) /\ Recalls(sync, overlooked) /\ Rests(sync, overlooked)

(* The stream goes on from what the tab has read to what the hub has.      *)
IsData(f) == f.event \in {"snapshot", "draft"}

OrderInv ==
  /\ Past(sync.server, hub.draft)
  /\ \A i \in DOMAIN stream : IsData(stream[i]) =>
       /\ Past(sync.server, stream[i].draft) /\ Past(stream[i].draft, hub.draft)
       /\ \A j \in DOMAIN stream : j > i /\ IsData(stream[j]) =>
            Past(stream[i].draft, stream[j].draft)

GoesOn(d) ==
  Drafts!Bound /\ (d.life = sync.server.life \/ (draft_misled /\ d.rev >= sync.server.rev))

ShapeInv ==
  /\ \A i \in DOMAIN stream :
       /\ stream[i].event = "snapshot" => stream[i].origin = "none"
       /\ stream[i].event = "draft" =>
            IF i = 1 THEN GoesOn(stream[1].draft)
            ELSE IsData(stream[i-1]) /\ stream[i-1].draft.life = stream[i].draft.life
  /\ ~connected => stream = <<>>

EndInv ==
  connected /\ hub.open =>
    /\ hub.draft.life = pane.draft.life
    /\ stream # <<>> => /\ IsData(stream[Len(stream)])
                        /\ stream[Len(stream)].draft = hub.draft
    /\ stream = <<>> => /\ Drafts!Bound
                        /\ \/ sync.server = hub.draft
                           \/ draft_misled /\ hub.draft.rev >= sync.server.rev

AgreeInv == KnownInv /\ OrderInv /\ ShapeInv /\ EndInv /\ FitInv
(* What a function of DraftSync keeps.                                     *)
Fitting(s, r) ==
  /\ r \in Synced /\ r.server = s.server
  /\ Own(r) \subseteq Own(s) \cup {Drafts!NoDraft}
  /\ OfOneLife(s) => OfOneLife(r)
  /\ \A o : OfOneLife(s) /\ Recalls(s, o) => Recalls(r, o)
  /\ \A o : OfOneLife(s) /\ Recalls(s, o) /\ Rests(s, o) => Rests(r, o)

LEMMA FittingIsTransitive ==
  ASSUME NEW s, NEW r, NEW q, Fitting(s, r), Fitting(r, q)
  PROVE  Fitting(s, q)
<1>1. /\ q \in Synced /\ q.server = s.server
      /\ Own(q) \subseteq Own(s) \cup {Drafts!NoDraft}
  BY DEF Fitting
<1>2. OfOneLife(s) => OfOneLife(q)
  BY DEF Fitting
<1>3. ASSUME NEW o, OfOneLife(s), Recalls(s, o) PROVE Recalls(q, o)
  BY <1>3 DEF Fitting
<1>4. ASSUME NEW o, OfOneLife(s), Recalls(s, o), Rests(s, o) PROVE Rests(q, o)
  BY <1>4 DEF Fitting
<1> QED
  BY <1>1, <1>2, <1>3, <1>4 DEF Fitting

(* A change of what nobody reads but the submission.                       *)
LEMMA MarkFits ==
  ASSUME NEW s \in Synced, NEW r \in Synced,
         r.text = s.text, r.server = s.server, r.saved = s.saved, r.held = s.held,
         r.timer = s.timer, r.write = s.write, r.retry = s.retry,
         r.composing = s.composing
  PROVE  Fitting(s, r)
<1>1. Own(r) = Own(s)
  BY DEF Own
<1>2. OfOneLife(s) => OfOneLife(r)
  BY DEF OfOneLife
<1>3. ShowsLatest(r) = ShowsLatest(s) /\ HeldIsNewest(r) = HeldIsNewest(s)
      /\ Drafts!Dirty(r) = Drafts!Dirty(s)
  BY DEF ShowsLatest, HeldIsNewest, Drafts!LatestSaved, Drafts!Dirty, Drafts!Sending
<1> QED
  BY <1>1, <1>2, <1>3 DEF Fitting, Recalls, Rests

(* send: something is under way or to be written then.                     *)
LEMMA SentFits ==
  ASSUME NEW s \in Synced, NEW r, r = Drafts!Sent(s)
  PROVE  Fitting(s, r) /\ Drafts!Dirty(r)
<1>1. /\ r \in Synced /\ r.server = s.server /\ r.saved = s.saved /\ r.text = s.text
      /\ Drafts!Dirty(r)
      /\ \/ r.write = s.write /\ (r.retry \/ r.retry = s.retry)
         \/ r.write.at = "sent" /\ ~r.write.rebased
  BY SentWrites
<1>2. r.held = s.held /\ r.composing = s.composing
  BY DEF Drafts!Sent, Drafts!Sending, Synced
<1>3. Own(r) \subseteq Own(s) \cup {Drafts!NoDraft}
  BY <1>1, <1>2 DEF Own
<1>4. OfOneLife(s) => OfOneLife(r)
  BY <1>1, <1>2 DEF OfOneLife
<1>5. ShowsLatest(r) = ShowsLatest(s) /\ HeldIsNewest(r) = HeldIsNewest(s)
  BY <1>1, <1>2 DEF ShowsLatest, HeldIsNewest, Drafts!LatestSaved
<1> QED
  BY <1>1, <1>3, <1>4, <1>5 DEF Fitting, Recalls, Rests

(* releaseHeld: the newest draft, had it waited, is shown.                 *)
LEMMA HeldReleasedFits ==
  ASSUME NEW s \in Synced, NEW r, r = Drafts!HeldReleased(s)
  PROVE  /\ Fitting(s, r)
         /\ \A o : OfOneLife(s) /\ Nearly(s, o) => Rests(r, o)
<1>1. CASE s.held = Drafts!NoDraft \/ s.composing \/ Drafts!Dirty(s)
  <2>1. r = s
    BY <1>1 DEF Drafts!HeldReleased
  <2>2. Fitting(s, r)
    BY <2>1 DEF Fitting
  <2>3. ASSUME NEW o, Nearly(s, o) PROVE Rests(r, o)
    BY <2>1, <2>3, <1>1 DEF Nearly, Rests, HeldIsNewest
  <2> QED
    BY <2>2, <2>3
<1>2. CASE ~(s.held = Drafts!NoDraft \/ s.composing \/ Drafts!Dirty(s))
  <2>1. PICK text : text = IF s.held.rev = s.server.rev /\ s.held.rev > s.saved.rev
                           THEN s.held.text ELSE s.text
    OBVIOUS
  <2>2. text \in Said /\ s.held \in Drafted /\ s.server \in Drafted /\ s.saved \in Drafted
    BY <2>1 DEF Synced, Drafted
  <2>3. r = [s EXCEPT !.held = Drafts!NoDraft, !.text = text]
    BY <2>1, <1>2 DEF Drafts!HeldReleased
  <2>4. /\ r \in Synced /\ r.server = s.server /\ r.saved = s.saved /\ r.write = s.write
        /\ r.held = Drafts!NoDraft /\ r.text = text
    BY <2>2, <2>3, NoDraftIsOne DEF Synced
  <2>5. ~Drafts!Dirty(s) /\ s.write = Drafts!NoWrite
    BY <1>2 DEF Drafts!Dirty, Drafts!Sending
  <2>6. Own(r) \subseteq Own(s) \cup {Drafts!NoDraft}
    BY <2>4 DEF Own
  <2>7. OfOneLife(s) => OfOneLife(r)
    BY <2>4, <2>5, NoWriteIsOne DEF OfOneLife
  <2>8. ASSUME NEW o, OfOneLife(s), Nearly(s, o), ~o PROVE ShowsLatest(r)
    <3>1. CASE s.held.rev = s.server.rev /\ s.held.rev > s.saved.rev
      <4>1. Drafts!LatestSaved(r) = s.server
        BY <3>1, <2>2, <2>4 DEF Drafts!LatestSaved, Drafted
      <4>2. s.held.rev >= 0
        BY <3>1, <2>2 DEF Drafted
      <4>3. s.held.text = s.server.text
        BY <3>1, <4>2, <2>8, <1>2 DEF OfOneLife, OneText
      <4> QED
        BY <4>1, <4>3, <3>1, <2>1, <2>4 DEF ShowsLatest
    <3>2. CASE ~(s.held.rev = s.server.rev /\ s.held.rev > s.saved.rev)
      <4>1. ~HeldIsNewest(s)
        BY <3>2 DEF HeldIsNewest
      <4>2. ShowsLatest(s)
        BY <4>1, <2>5, <2>8 DEF Nearly
      <4> QED
        BY <4>2, <3>2, <2>1, <2>4 DEF ShowsLatest, Drafts!LatestSaved
    <3> QED
      BY <3>1, <3>2
  <2>9. ASSUME NEW o, OfOneLife(s), Nearly(s, o) PROVE Rests(r, o)
    BY <2>8, <2>9 DEF Rests
  <2>10. \A o : Rests(s, o) => Nearly(s, o)
    BY DEF Rests, Nearly
  <2>11. \A o : Recalls(r, o)
    BY <2>4, <2>5, NoWriteIsOne DEF Recalls
  <2>12. Fitting(s, r)
    BY <2>4, <2>6, <2>7, <2>9, <2>10, <2>11 DEF Fitting
  <2> QED
    BY <2>9, <2>12
<1> QED
  BY <1>1, <1>2

(* flush, with no write under way: a text that the newest draft does not   *)
(* say is written.                                                         *)
LEMMA FlushedNowFits ==
  ASSUME NEW s \in Synced, NEW r, r = Drafts!FlushedNow(s)
  PROVE  /\ Fitting(s, r)
         /\ \A o : OfOneLife(s) /\ Recalls(s, o) /\ ~s.composing => Rests(r, o)
<1>1. PICK now : now = [s EXCEPT !.timer = FALSE]
  OBVIOUS
<1>2. /\ now \in Synced /\ now.text = s.text /\ now.server = s.server
      /\ now.saved = s.saved /\ now.held = s.held /\ now.write = s.write
      /\ now.retry = s.retry /\ now.composing = s.composing
  BY <1>1 DEF Synced
<1>3. CASE s.composing
  <2>1. r = s
    BY <1>3 DEF Drafts!FlushedNow
  <2> QED
    BY <2>1, <1>3 DEF Fitting
<1>4. CASE ~s.composing
  <2>1. /\ Own(now) = Own(s)
        /\ OfOneLife(s) => OfOneLife(now)
    BY <1>2 DEF Own, OfOneLife
  <2>2. \A o : Recalls(s, o) => Recalls(now, o)
    BY <1>2 DEF Recalls, ShowsLatest, HeldIsNewest, Drafts!LatestSaved
  <2>3. CASE now.retry \/ now.text # Drafts!LatestSaved(now).text
    <3>1. r = Drafts!Sent(now)
      BY <2>3, <1>1, <1>4 DEF Drafts!FlushedNow
    <3>2. Fitting(now, r) /\ Drafts!Dirty(r)
      BY <3>1, <1>2, SentFits
    <3>3. \A o : Rests(r, o)
      BY <3>2 DEF Rests
    <3> QED
      BY <3>2, <3>3, <2>1, <2>2, <1>2 DEF Fitting
  <2>4. CASE ~(now.retry \/ now.text # Drafts!LatestSaved(now).text)
    <3>1. r = Drafts!HeldReleased(now)
      BY <2>4, <1>1, <1>4 DEF Drafts!FlushedNow
    <3>2. Fitting(now, r) /\ \A o : OfOneLife(now) /\ Nearly(now, o) => Rests(r, o)
      BY <3>1, <1>2, HeldReleasedFits
    <3>3. \A o : Nearly(now, o)
      BY <2>4 DEF Nearly, ShowsLatest
    <3> QED
      BY <3>2, <3>3, <2>1, <2>2, <1>2 DEF Fitting
  <2> QED
    BY <2>3, <2>4
<1> QED
  BY <1>3, <1>4

LEMMA FlushedFits ==
  ASSUME NEW s \in Synced, NEW r, r = Drafts!Flushed(s)
  PROVE  /\ Fitting(s, r)
         /\ \A o : OfOneLife(s) /\ Recalls(s, o) /\ ~s.composing => Rests(r, o)
<1>1. CASE Drafts!Sending(s)
  <2>1. r = [s EXCEPT !.flushing = TRUE]
    BY <1>1 DEF Drafts!Flushed
  <2>2. /\ r \in Synced /\ r.text = s.text /\ r.server = s.server /\ r.saved = s.saved
        /\ r.held = s.held /\ r.timer = s.timer /\ r.write = s.write /\ r.retry = s.retry
        /\ r.composing = s.composing
    BY <2>1 DEF Synced
  <2>3. Fitting(s, r)
    BY <2>2, MarkFits
  <2>4. \A o : Rests(r, o)
    BY <2>2, <1>1 DEF Rests, Drafts!Dirty, Drafts!Sending
  <2> QED
    BY <2>3, <2>4
<1>2. CASE ~Drafts!Sending(s)
  BY <1>2, FlushedNowFits DEF Drafts!Flushed
<1> QED
  BY <1>1, <1>2

LEMMA SettledFits ==
  ASSUME NEW s \in Synced, NEW r, r = Drafts!Settled(s)
  PROVE  Fitting(s, r)
<1>1. PICK at \in {"done", "no"} : r = [s EXCEPT !.settling = at]
  BY DEF Drafts!Settled
<1>2. /\ r \in Synced /\ r.text = s.text /\ r.server = s.server /\ r.saved = s.saved
      /\ r.held = s.held /\ r.timer = s.timer /\ r.write = s.write /\ r.retry = s.retry
      /\ r.composing = s.composing
  BY <1>1 DEF Synced
<1> QED
  BY <1>2, MarkFits

LEMMA SettlesFits ==
  ASSUME NEW s \in Synced, NEW r, r = Drafts!Settles(s)
  PROVE  Fitting(s, r)
<1>1. PICK now : now = [s EXCEPT !.rebased = FALSE]
  OBVIOUS
<1>2. /\ now \in Synced /\ now.text = s.text /\ now.server = s.server
      /\ now.saved = s.saved /\ now.held = s.held /\ now.timer = s.timer
      /\ now.write = s.write /\ now.retry = s.retry /\ now.composing = s.composing
  BY <1>1 DEF Synced
<1>3. PICK q : q = IF Drafts!Sending(now) THEN now ELSE Drafts!FlushedNow(now)
  OBVIOUS
<1>4. q \in Synced /\ Fitting(s, q)
  <2>1. Fitting(s, now) /\ Fitting(now, now)
    BY <1>2, MarkFits
  <2>2. Fitting(now, q)
    BY <1>2, <1>3, <2>1, FlushedNowFits
  <2> QED
    BY <2>1, <2>2, FittingIsTransitive DEF Fitting
<1>5. Fitting(q, r)
  <2>1. r = Drafts!Settled(q) \/ \E at \in {"waits", "sends"} : r = [q EXCEPT !.settling = at]
    BY <1>1, <1>3 DEF Drafts!Settles
  <2>2. ASSUME NEW at \in {"waits", "sends"}, r = [q EXCEPT !.settling = at]
        PROVE  Fitting(q, r)
    <3>1. /\ r \in Synced /\ r.text = q.text /\ r.server = q.server /\ r.saved = q.saved
          /\ r.held = q.held /\ r.timer = q.timer /\ r.write = q.write
          /\ r.retry = q.retry /\ r.composing = q.composing
      BY <2>2, <1>4 DEF Synced
    <3> QED
      BY <3>1, <1>4, MarkFits
  <2> QED
    BY <2>1, <2>2, <1>4, SettledFits
<1> QED
  BY <1>4, <1>5, FittingIsTransitive

LEMMA ResumedFits ==
  ASSUME NEW s \in Synced, NEW r, r = Drafts!Resumed(s)
  PROVE  Fitting(s, r)
<1>1. PICK first : first = IF s.flushing \/ s.settling = "waits" THEN Drafts!FlushedNow(s)
                           ELSE s
  OBVIOUS
<1>2. Fitting(s, s)
  BY MarkFits
<1>3. first \in Synced /\ Fitting(s, first)
  BY <1>1, <1>2, FlushedNowFits DEF Fitting
<1>4. PICK idle : idle = [first EXCEPT !.flushing = FALSE]
  OBVIOUS
<1>5. /\ idle \in Synced /\ idle.text = first.text /\ idle.server = first.server
      /\ idle.saved = first.saved /\ idle.held = first.held /\ idle.timer = first.timer
      /\ idle.write = first.write /\ idle.retry = first.retry
      /\ idle.composing = first.composing
  BY <1>3, <1>4 DEF Synced
<1>6. idle \in Synced /\ Fitting(s, idle)
  BY <1>3, <1>5, MarkFits, FittingIsTransitive
<1>7. \/ r = Drafts!FlushReturns(idle) \/ r = idle
      \/ r = [first EXCEPT !.settling = "sends"]
  BY <1>1, <1>4 DEF Drafts!Resumed
<1>8. CASE r = Drafts!FlushReturns(idle)
  <2>1. r = Drafts!Settles(idle) \/ r = Drafts!Settled(idle)
    BY <1>8 DEF Drafts!FlushReturns
  <2>2. Fitting(idle, r)
    BY <2>1, <1>6, SettlesFits, SettledFits
  <2> QED
    BY <2>2, <1>6, FittingIsTransitive
<1>9. CASE r = [first EXCEPT !.settling = "sends"]
  <2>1. /\ r \in Synced /\ r.text = first.text /\ r.server = first.server
        /\ r.saved = first.saved /\ r.held = first.held /\ r.timer = first.timer
        /\ r.write = first.write /\ r.retry = first.retry /\ r.composing = first.composing
    BY <1>9, <1>3 DEF Synced
  <2> QED
    BY <2>1, <1>3, MarkFits, FittingIsTransitive
<1> QED
  BY <1>6, <1>7, <1>8, <1>9

(* The rest of send.  What was saved is what is shown, or is newer than    *)
(* it, or the draft that waited is newer than both.                        *)
LEMMA WriteEndedFits ==
  ASSUME NEW s \in Synced, s.write.at \in {"saved", "failed"},
         NEW r, r = Drafts!WriteEnded(s)
  PROVE  Fitting(s, r)
<1>1. PICK w : w = s.write
  OBVIOUS
<1>2. w \in Written /\ w.at \in {"saved", "failed"}
  BY <1>1 DEF Synced
<1>3. PICK saved : saved = IF w.at = "saved" /\ ~w.rebased
                           THEN Drafts!Draft(w.rev, w.text, w.life) ELSE s.saved
  OBVIOUS
<1>4. PICK retry : retry = (s.retry \/ (w.at = "failed" /\ ~w.rebased))
  OBVIOUS
<1>5. /\ saved \in Drafted /\ retry \in BOOLEAN
      /\ \/ w.at = "saved" /\ ~w.rebased /\ saved = DraftOf(w)
         \/ ~(w.at = "saved" /\ ~w.rebased) /\ saved = s.saved
  BY <1>2, <1>3, <1>4 DEF Synced, Written, Drafted, DraftOf, Drafts!Draft
<1>6. PICK ended : ended = [s EXCEPT !.write = Drafts!NoWrite, !.saved = saved,
                                     !.retry = retry]
  OBVIOUS
<1>7. /\ ended \in Synced /\ ended.text = s.text /\ ended.server = s.server
      /\ ended.saved = saved /\ ended.held = s.held /\ ended.retry = retry
      /\ ended.write = Drafts!NoWrite /\ ended.timer = s.timer
      /\ ended.composing = s.composing
  BY <1>5, <1>6, NoWriteIsOne DEF Synced
<1>8. r = IF ended.retry \/ ended.text = w.text \/ ended.timer
          THEN Drafts!Resumed(Drafts!HeldReleased(ended))
          ELSE IF ended.composing
               THEN Drafts!Resumed(Drafts!HeldReleased([ended EXCEPT !.retry = TRUE]))
               ELSE Drafts!Sent(ended)
  BY <1>1, <1>3, <1>4, <1>6 DEF Drafts!WriteEnded
<1>9. /\ s.server \in Drafted /\ s.saved \in Drafted /\ s.held \in Drafted
      /\ w.rev \in Nat /\ w.rebased \in BOOLEAN
      /\ DraftOf(w).rev = w.rev /\ DraftOf(w).text = w.text /\ DraftOf(w).life = w.life
  BY <1>2 DEF Synced, Written, DraftOf, Drafts!Draft
<1>10. /\ Own(ended) \subseteq Own(s)
       /\ OfOneLife(s) => OfOneLife(ended)
  <2>1. Own(ended) \subseteq Own(s)
    BY <1>1, <1>5, <1>7, NoWriteIsOne DEF Own
  <2>2. OfOneLife(s) => OfOneLife(ended)
    BY <1>1, <1>5, <1>7, <1>9, NoWriteIsOne DEF OfOneLife
  <2> QED
    BY <2>1, <2>2
<1>11. \A o : Recalls(ended, o)
  BY <1>7, NoWriteIsOne DEF Recalls
<1>12. ASSUME NEW o, OfOneLife(s), Recalls(s, o), ~o, ended.text = w.text,
              ~Drafts!Dirty(ended)
       PROVE  ShowsLatest(ended) \/ HeldIsNewest(ended)
  <2>1. ~retry /\ ~s.retry
    BY <1>4, <1>7, <1>12 DEF Drafts!Dirty
  <2>2. CASE w.rebased
    <3>1. saved = s.saved
      BY <2>2, <1>5
    <3>2. ShowsLatest(s) \/ HeldIsNewest(s)
      BY <2>1, <2>2, <1>1, <1>7, <1>12 DEF Recalls
    <3> QED
      BY <3>1, <3>2, <1>7 DEF ShowsLatest, HeldIsNewest, Drafts!LatestSaved
  <2>3. CASE ~w.rebased
    <3>1. w.at = "saved" /\ saved = DraftOf(w)
      BY <2>1, <2>3, <1>2, <1>4, <1>5
    <3>2. /\ OneText(DraftOf(w), s.server) /\ w.life = s.server.life
          /\ s.server.rev > w.rev => s.held = s.server
      BY <3>1, <2>3, <1>1, <1>12 DEF OfOneLife
    <3>3. CASE w.rev > s.server.rev
      <4>1. Drafts!LatestSaved(ended) = DraftOf(w)
        BY <3>1, <3>3, <1>7, <1>9 DEF Drafts!LatestSaved
      <4> QED
        BY <4>1, <1>9, <1>12 DEF ShowsLatest
    <3>4. CASE w.rev = s.server.rev
      <4>1. Drafts!LatestSaved(ended) = s.server
        BY <3>1, <3>4, <1>7, <1>9 DEF Drafts!LatestSaved
      <4>2. s.server.text = w.text
        BY <3>2, <3>4, <1>9 DEF OneText
      <4> QED
        BY <4>1, <4>2, <1>12 DEF ShowsLatest
    <3>5. CASE s.server.rev > w.rev
      BY <3>1, <3>2, <3>5, <1>7, <1>9, NoDraftIsOne DEF HeldIsNewest
    <3> QED
      BY <3>3, <3>4, <3>5, <1>9 DEF Drafted
  <2> QED
    BY <2>2, <2>3
<1>13. \A o : Rests(s, o)
  BY <1>1, <1>2, NoWriteIsOne DEF Rests, Drafts!Dirty, Drafts!Sending
<1>14. CASE ended.retry \/ ended.text = w.text \/ ended.timer
  <2>1. PICK q : q = Drafts!HeldReleased(ended)
    OBVIOUS
  <2>2. Fitting(ended, q) /\ \A o : OfOneLife(ended) /\ Nearly(ended, o) => Rests(q, o)
    BY <2>1, <1>7, HeldReleasedFits
  <2>3. Fitting(q, r)
    BY <2>1, <2>2, <1>8, <1>14, ResumedFits DEF Fitting
  <2>4. Fitting(ended, r)
    BY <2>2, <2>3, FittingIsTransitive
  <2>5. ASSUME NEW o, OfOneLife(s), Recalls(s, o) PROVE Rests(r, o)
    <3>1. Nearly(ended, o)
      BY <2>5, <1>12, <1>14 DEF Nearly, Drafts!Dirty
    <3>2. OfOneLife(q) /\ Recalls(q, o) /\ Rests(q, o)
      BY <3>1, <2>2, <2>5, <1>10, <1>11 DEF Fitting
    <3> QED
      BY <3>2, <2>3 DEF Fitting
  <2>6. \A o : Recalls(r, o) \/ ~OfOneLife(s)
    BY <2>4, <1>10, <1>11 DEF Fitting
  <2> QED
    BY <2>4, <2>5, <2>6, <1>7, <1>10 DEF Fitting
<1>15. CASE ~(ended.retry \/ ended.text = w.text \/ ended.timer) /\ ended.composing
  <2>1. PICK e : e = [ended EXCEPT !.retry = TRUE]
    OBVIOUS
  <2>2. /\ e \in Synced /\ e.server = s.server /\ e.saved = saved /\ e.held = s.held
        /\ e.retry /\ e.write = Drafts!NoWrite
    BY <2>1, <1>7 DEF Synced
  <2>3. /\ Own(e) \subseteq Own(s)
        /\ OfOneLife(s) => OfOneLife(e)
    BY <2>2, <1>7, <1>10 DEF Own, OfOneLife
  <2>4. \A o : Recalls(e, o) /\ Rests(e, o)
    BY <2>2 DEF Recalls, Rests, Drafts!Dirty
  <2>5. PICK q : q = Drafts!HeldReleased(e)
    OBVIOUS
  <2>6. Fitting(e, q)
    BY <2>2, <2>5, HeldReleasedFits
  <2>7. Fitting(q, r)
    BY <2>1, <2>5, <2>6, <1>8, <1>15, ResumedFits DEF Fitting
  <2>8. Fitting(e, r)
    BY <2>6, <2>7, FittingIsTransitive
  <2> QED
    BY <2>2, <2>3, <2>4, <2>8 DEF Fitting
<1>16. CASE ~(ended.retry \/ ended.text = w.text \/ ended.timer) /\ ~ended.composing
  <2>1. r = Drafts!Sent(ended)
    BY <1>8, <1>16
  <2>2. Fitting(ended, r) /\ Drafts!Dirty(r)
    BY <2>1, <1>7, SentFits
  <2>3. \A o : Rests(r, o)
    BY <2>2 DEF Rests
  <2> QED
    BY <2>2, <2>3, <1>7, <1>10, <1>11 DEF Fitting
<1> QED
  BY <1>14, <1>15, <1>16

(* compositionEnd.                                                         *)
LEMMA ComposedFits ==
  ASSUME NEW s \in Synced, ~s.composing, NEW r, r = Drafts!Composed(s)
  PROVE  /\ Fitting(s, r)
         /\ \A o : OfOneLife(s) /\ Recalls(s, o) /\ Nearly(s, o) => Rests(r, o)
<1>1. PICK q : q = IF s.retry THEN Drafts!Flushed(s) ELSE s
  OBVIOUS
<1>2. Fitting(s, s)
  BY MarkFits
<1>3. /\ Fitting(s, q)
      /\ \A o : OfOneLife(s) /\ Recalls(s, o) /\ Nearly(s, o) => Nearly(q, o)
  <2>1. CASE s.retry
    <3>1. /\ Fitting(s, q)
          /\ \A o : OfOneLife(s) /\ Recalls(s, o) => Rests(q, o)
      BY <2>1, <1>1, FlushedFits
    <3> QED
      BY <3>1 DEF Rests, Nearly
  <2>2. CASE ~s.retry
    BY <2>2, <1>1, <1>2
  <2> QED
    BY <2>1, <2>2
<1>4. r = Drafts!HeldReleased(q) /\ q \in Synced
  BY <1>1, <1>3 DEF Drafts!Composed, Fitting
<1>5. Fitting(q, r) /\ \A o : OfOneLife(q) /\ Nearly(q, o) => Rests(r, o)
  BY <1>4, HeldReleasedFits
<1>6. Fitting(s, r)
  BY <1>3, <1>5, FittingIsTransitive
<1>7. ASSUME NEW o, OfOneLife(s), Recalls(s, o), Nearly(s, o) PROVE Rests(r, o)
  BY <1>3, <1>5, <1>7 DEF Fitting
<1> QED
  BY <1>6, <1>7

(* receive, of a draft that a snapshot brings with a smaller number: what  *)
(* is shown is written again, unless the draft says it.                    *)
LEMMA ResetFits ==
  ASSUME NEW s \in Synced, NEW draft \in Drafted, draft.rev >= 0,
         NEW r, r = Drafts!Reset(s, draft)
  PROVE  /\ r \in Synced /\ r.server = draft
         /\ Own(r) \subseteq Own(s) \cup {draft, Drafts!NoDraft}
         /\ OfOneLife(r) /\ \A o : Recalls(r, o) /\ Rests(r, o)
<1>1. PICK b : b = Drafts!Sending(s)
  OBVIOUS
<1>2. b \in BOOLEAN /\ (~b => s.write = Drafts!NoWrite)
  BY <1>1 DEF Drafts!Sending
<1>3. PICK w : w = [s.write EXCEPT !.rebased = b]
  OBVIOUS
<1>4. /\ w \in Written /\ w.at = s.write.at /\ DraftOf(w) = DraftOf(s.write)
      /\ w.rebased = b /\ w.text = s.write.text
  BY <1>2, <1>3 DEF Synced, Written, DraftOf
<1>5. PICK q : q = [s EXCEPT !.server = draft, !.saved = Drafts!NoDraft,
                             !.held = Drafts!NoDraft, !.retry = s.text # draft.text,
                             !.rebased = TRUE, !.write = w]
  OBVIOUS
<1>6. /\ q \in Synced /\ q.text = s.text /\ q.server = draft
      /\ q.saved = Drafts!NoDraft /\ q.held = Drafts!NoDraft
      /\ q.retry = (s.text # draft.text) /\ q.write = w
  BY <1>4, <1>5, NoDraftIsOne DEF Synced
<1>7. r = IF s.composing THEN q ELSE Drafts!Flushed(q)
  BY <1>1, <1>3, <1>5 DEF Drafts!Reset, Synced
<1>8. Fitting(q, r)
  <2>1. Fitting(q, q)
    BY <1>6, MarkFits
  <2> QED
    BY <2>1, <1>6, <1>7, FlushedFits
<1>9. Own(q) \subseteq Own(s) \cup {draft, Drafts!NoDraft}
  BY <1>4, <1>6 DEF Own
<1>10. OfOneLife(q)
  BY <1>2, <1>4, <1>6, NoWriteIsOne DEF OfOneLife
<1>11. q.retry \/ ShowsLatest(q)
  <2>1. Drafts!LatestSaved(q) = draft
    BY <1>6, NoDraftIsOne DEF Drafts!LatestSaved, Drafted
  <2> QED
    BY <2>1, <1>6 DEF ShowsLatest
<1>12. \A o : Recalls(q, o) /\ Rests(q, o)
  BY <1>11 DEF Recalls, Rests, Drafts!Dirty
<1> QED
  BY <1>6, <1>8, <1>9, <1>10, <1>12 DEF Fitting

(* receive, of a draft of the life that the tab has read: it is no older   *)
(* than what the tab has read.                                             *)
LEMMA ReceivedFits ==
  ASSUME NEW s \in Synced, NEW draft \in Drafted, draft.rev >= 0,
         draft.life = s.server.life, Past(s.server, draft),
         \A a \in Own(s) : OneText(a, draft),
         NEW origin, NEW r, r = Drafts!Received(s, draft, origin)
  PROVE  /\ OfOneLife(s) => OfOneLife(r)
         /\ \A o : OfOneLife(s) /\ Recalls(s, o) => Recalls(r, o)
         /\ \A o : OfOneLife(s) /\ Recalls(s, o) /\ Rests(s, o) => Rests(r, o)
<1>1. /\ s.server \in Drafted /\ s.saved \in Drafted /\ s.held \in Drafted
      /\ s.server.rev <= draft.rev /\ draft.text \in Said
      /\ s.server.rev \in Int /\ s.saved.rev \in Int /\ draft.rev \in Int
  BY DEF Synced, Drafted, Past
<1>2. /\ OneText(s.saved, draft) /\ OneText(s.held, draft)
      /\ s.write.at = "saved" => OneText(DraftOf(s.write), draft)
  BY DEF Own
<1>3. s.write \in Written /\ s.write.rev \in Nat
  BY DEF Synced, Written
<1>4. CASE draft.rev <= s.server.rev
  <2>1. r = s
    BY <1>1, <1>4 DEF Drafts!Received
  <2> QED
    BY <2>1
<1>5. CASE ~(draft.rev <= s.server.rev) /\ draft.rev <= s.saved.rev
  <2>1. r = [s EXCEPT !.server = draft]
    BY <1>1, <1>5 DEF Drafts!Received
  <2>2. /\ r.server = draft /\ r.saved = s.saved /\ r.held = s.held /\ r.write = s.write
        /\ r.text = s.text /\ r.retry = s.retry /\ r.timer = s.timer
        /\ r.composing = s.composing
    BY <2>1 DEF Synced
  <2>3. s.saved # Drafts!NoDraft
    <3>1. s.saved.rev >= 0
      BY <1>1, <1>5
    <3> QED
      BY <3>1, NoDraftIsOne
  <2>4. OfOneLife(s) => OfOneLife(r)
    BY <2>2, <1>1, <1>2, <1>3, <1>5 DEF OfOneLife
  <2>5. ~HeldIsNewest(s)
    BY <1>1, <1>5 DEF HeldIsNewest
  <2>6. OfOneLife(s) /\ ShowsLatest(s) => ShowsLatest(r)
    <3>1. Drafts!LatestSaved(s) = s.saved
      BY <1>1, <1>5 DEF Drafts!LatestSaved
    <3>2. Drafts!LatestSaved(r) = IF s.saved.rev > draft.rev THEN s.saved ELSE draft
      BY <2>2 DEF Drafts!LatestSaved
    <3>3. OfOneLife(s) /\ s.saved.rev = draft.rev => s.saved.text = draft.text
      BY <2>3, <1>2 DEF OfOneLife, OneText
    <3> QED
      BY <3>1, <3>2, <3>3, <2>2, <1>1, <1>5 DEF ShowsLatest
  <2>7. Drafts!Dirty(r) = Drafts!Dirty(s)
    BY <2>2 DEF Drafts!Dirty, Drafts!Sending
  <2> QED
    BY <2>2, <2>4, <2>5, <2>6, <2>7 DEF Recalls, Rests
<1>6. CASE ~(draft.rev <= s.server.rev) /\ ~(draft.rev <= s.saved.rev)
  <2>1. PICK retry : retry = (s.retry /\ (origin = "other" \/ draft.text # s.text))
    OBVIOUS
  <2>2. PICK heard : heard = [s EXCEPT !.server = draft, !.retry = retry]
    OBVIOUS
  <2>3. r = IF s.composing \/ Drafts!Dirty(heard) THEN [heard EXCEPT !.held = draft]
            ELSE [heard EXCEPT !.text = draft.text]
    BY <2>1, <2>2, <1>1, <1>6 DEF Drafts!Received
  <2>4. /\ heard \in Synced /\ heard.server = draft /\ heard.saved = s.saved
        /\ heard.held = s.held /\ heard.write = s.write /\ heard.timer = s.timer
        /\ heard.composing = s.composing /\ heard.retry = retry
    <3>1. retry \in BOOLEAN
      BY <2>1 DEF Synced
    <3> QED
      BY <3>1, <2>2 DEF Synced
  <2>5. CASE s.composing \/ Drafts!Dirty(heard)
    <3>1. r = [heard EXCEPT !.held = draft]
      BY <2>3, <2>5
    <3>2. /\ r.server = draft /\ r.saved = s.saved /\ r.held = draft /\ r.write = s.write
          /\ r.timer = s.timer /\ r.retry = retry /\ r.composing = s.composing
      BY <3>1, <2>4 DEF Synced
    <3>3. HeldIsNewest(r)
      BY <3>2, <1>1, <1>6, NoDraftIsOne DEF HeldIsNewest
    <3>4. Drafts!Dirty(r) \/ r.composing
      BY <3>2, <2>4, <2>5 DEF Drafts!Dirty, Drafts!Sending
    <3>5. OfOneLife(s) => OfOneLife(r)
      BY <3>2, <1>2 DEF OfOneLife, OneText
    <3> QED
      BY <3>3, <3>4, <3>5 DEF Recalls, Rests
  <2>6. CASE ~(s.composing \/ Drafts!Dirty(heard))
    <3>1. r = [heard EXCEPT !.text = draft.text]
      BY <2>3, <2>6
    <3>2. /\ r.server = draft /\ r.saved = s.saved /\ r.held = s.held /\ r.write = s.write
          /\ r.text = draft.text
      BY <3>1, <2>4, <1>1 DEF Synced
    <3>3. s.write = Drafts!NoWrite
      BY <2>4, <2>6 DEF Drafts!Dirty, Drafts!Sending
    <3>4. ShowsLatest(r)
      BY <3>2, <1>1, <1>6 DEF ShowsLatest, Drafts!LatestSaved
    <3>5. OfOneLife(s) => OfOneLife(r)
      BY <3>2, <3>3, <1>2, NoWriteIsOne DEF OfOneLife
    <3> QED
      BY <3>4, <3>5 DEF Recalls, Rests
  <2> QED
    BY <2>5, <2>6
<1> QED
  BY <1>4, <1>5, <1>6, <1>1

(* What is read of the session's draft, and what becomes known by it.      *)
LEMMA ReceivedReads ==
  ASSUME NEW s \in Synced, NEW draft \in Drafted, draft.rev >= 0, NEW origin,
         NEW r, r = Drafts!Received(s, draft, origin)
  PROVE  /\ r \in Synced /\ Own(r) \subseteq Own(s) \cup {draft, Drafts!NoDraft}
         /\ \/ r.server = draft
            \/ /\ r.server = s.server /\ draft.rev <= s.server.rev
               /\ origin = "none" => draft.rev >= s.server.rev
<1>1. draft.rev \in Int /\ s.server.rev \in Int /\ s.saved.rev \in Int /\ draft.text \in Said
  BY DEF Synced, Drafted
<1>2. CASE origin = "none" /\ draft.rev < s.server.rev
  <2>1. r = Drafts!Reset(s, draft)
    BY <1>2 DEF Drafts!Received
  <2> QED
    BY <2>1, ResetFits
<1>3. CASE ~(origin = "none" /\ draft.rev < s.server.rev) /\ draft.rev <= s.server.rev
  <2>1. r = s
    BY <1>3 DEF Drafts!Received
  <2> QED
    BY <2>1, <1>1, <1>3
<1>4. CASE ~(draft.rev <= s.server.rev)
  <2>1. PICK retry : retry = (s.retry /\ (origin = "other" \/ draft.text # s.text))
    OBVIOUS
  <2>2. retry \in BOOLEAN
    BY <2>1 DEF Synced
  <2>3. \/ r = [s EXCEPT !.server = draft]
        \/ r = [s EXCEPT !.server = draft, !.retry = retry, !.held = draft]
        \/ r = [s EXCEPT !.server = draft, !.retry = retry, !.text = draft.text]
    BY <2>1, <1>1, <1>4 DEF Drafts!Received, Synced
  <2>4. /\ r \in Synced /\ r.server = draft /\ r.saved = s.saved /\ r.write = s.write
        /\ r.held \in {s.held, draft}
    <3>1. CASE r = [s EXCEPT !.server = draft]
      BY <3>1 DEF Synced
    <3>2. CASE r = [s EXCEPT !.server = draft, !.retry = retry, !.held = draft]
      BY <3>2, <2>2 DEF Synced
    <3>3. CASE r = [s EXCEPT !.server = draft, !.retry = retry, !.text = draft.text]
      BY <3>3, <2>2, <1>1 DEF Synced
    <3> QED
      BY <2>3, <3>1, <3>2, <3>3
  <2> QED
    BY <2>4 DEF Own
<1> QED
  BY <1>2, <1>3, <1>4

-----------------------------------------------------------------------------
LEMMA KnownAre ==
  ASSUME DraftInv
  PROVE  Known \subseteq Drafted
<1>1. /\ pane.draft \in Drafted /\ hub.draft \in Drafted /\ sync \in Synced
      /\ stream \in Seq(FrameOf(pane.draft))
  BY DEF DraftInv, PaneInv, PaneStates, SyncInv, SourceInv
<1>2. Own(sync) \subseteq Drafted
  BY <1>1 DEF Own, DraftOf, Drafts!Draft, Synced, Written, Drafted
<1>3. \A i \in DOMAIN stream : stream[i].draft \in Drafted
  <2>1. \A i \in DOMAIN stream : stream[i] \in FrameOf(pane.draft)
    BY <1>1
  <2> QED
    BY <2>1 DEF FrameOf
<1> QED
  BY <1>1, <1>2, <1>3 DEF Known

LEMMA KnownMoves ==
  ASSUME DraftInv, KnownInv, pane' \in PaneStates, Past(pane.draft, pane'.draft),
         Known' \subseteq Known \cup {Drafts!NoDraft, pane'.draft}
  PROVE  KnownInv'
<1>1. PICK now : now = pane'.draft
  OBVIOUS
<1>2. /\ now \in Drafted /\ now.rev >= 0 /\ pane.draft \in Drafted
      /\ Past(pane.draft, now)
  BY <1>1 DEF PaneStates, DraftInv, PaneInv
<1>3. /\ Known \subseteq Drafted
      /\ \A a \in Known : Past(a, pane.draft)
      /\ \A a, b \in Known : OneText(a, b)
  BY KnownAre DEF KnownInv
<1>4. \A a \in Known : Past(a, now) /\ OneText(a, now) /\ OneText(now, a)
  BY <1>2, <1>3 DEF Past, OneText, Drafted
<1>5. Past(now, now) /\ Past(Drafts!NoDraft, now) /\ OneText(now, now)
  BY <1>2, NoSubmitIsPast DEF Past, OneText, Drafted
<1>6. \A a \in Drafted : OneText(a, Drafts!NoDraft) /\ OneText(Drafts!NoDraft, a)
  BY NoDraftIsOne DEF OneText
<1>7. PICK all : all = Known \cup {Drafts!NoDraft, now}
  OBVIOUS
<1>8. \A a \in all : a \in Drafted /\ Past(a, now)
  BY <1>2, <1>3, <1>4, <1>5, <1>7, NoDraftIsOne
<1>9. \A a, b \in all : OneText(a, b)
  <2> SUFFICES ASSUME NEW a \in all, NEW b \in all PROVE OneText(a, b)
    OBVIOUS
  <2>1. CASE a = Drafts!NoDraft \/ b = Drafts!NoDraft
    BY <2>1, <1>6, <1>8
  <2>2. CASE a \in Known \cup {now} /\ b \in Known \cup {now}
    BY <2>2, <1>3, <1>4, <1>5
  <2> QED
    BY <2>1, <2>2, <1>7
<1> QED
  BY <1>1, <1>7, <1>8, <1>9 DEF KnownInv

(* A step that leaves the stream, and what the tab has read of it.         *)
LEMMA StreamStays ==
  ASSUME OrderInv, ShapeInv, EndInv,
         UNCHANGED <<hub, stream, connected, draft_misled>>,
         sync'.server = sync.server, Drafts!Bound => Drafts!Bound',
         connected /\ hub.open => pane'.draft.life = pane.draft.life
  PROVE  OrderInv' /\ ShapeInv' /\ EndInv'
<1>1. OrderInv'
  BY DEF OrderInv
<1>2. ShapeInv'
  <2>1. \A d : GoesOn(d) => GoesOn(d)'
    BY DEF GoesOn
  <2> QED
    BY <2>1 DEF ShapeInv
<1>3. EndInv'
  BY DEF EndInv
<1> QED
  BY <1>1, <1>2, <1>3

(* Steps of the session.                                                   *)
LEMMA SessionStepAgrees ==
  ASSUME DraftInv, AgreeInv, pane' \in PaneStates, Past(pane.draft, pane'.draft),
         UNCHANGED <<hub, stream, connected, sync, overlooked, draft_misled>>,
         connected /\ hub.open => pane'.draft.life = pane.draft.life
  PROVE  AgreeInv'
<1>1. KnownInv'
  <2>1. Known' \subseteq Known \cup {Drafts!NoDraft, pane'.draft}
    BY DEF Known, Own
  <2> QED
    BY <2>1, KnownMoves DEF AgreeInv
<1>2. Drafts!Bound' = Drafts!Bound
  BY DEF Drafts!Bound
<1>3. OrderInv' /\ ShapeInv' /\ EndInv'
  BY <1>2, StreamStays DEF AgreeInv
<1>4. FitInv'
  <2>1. /\ pane.draft \in Drafted /\ pane'.draft \in Drafted /\ sync.server \in Drafted
        /\ Past(sync.server, pane.draft)
    BY DEF DraftInv, PaneInv, PaneStates, SyncInv, SourceInv, Sourced, Synced
  <2>2. sync.server.life = pane'.draft.life => sync.server.life = pane.draft.life
    BY <2>1 DEF Past, Drafted
  <2> QED
    BY <2>2, <1>2 DEF AgreeInv, FitInv, Follows
<1> QED
  BY <1>1, <1>3, <1>4 DEF AgreeInv

LEMMA SessionAgrees ==
  ASSUME DraftInv, AgreeInv,
         \/ \E text \in OthersTexts : Drafts!OtherEdits(text)
         \/ \E text \in OthersTexts \cup {Empty} : Drafts!Reopen(text)
         \/ Drafts!StrayEnds \/ Drafts!SubmitArrives \/ Drafts!Close
  PROVE  AgreeInv'
<1>1. /\ PaneInv /\ pane \in PaneStates /\ pane.draft \in Drafted /\ strays \in Seq(Said)
      /\ pane.draft.life \in Nat
  BY DEF DraftInv, PaneInv, PaneStates, Drafted
<1>2. UNCHANGED <<hub, stream, connected, sync, overlooked, draft_misled>>
  BY DEF Drafts!OtherEdits, Drafts!Reopen, Drafts!StrayEnds, Drafts!SubmitArrives,
         Drafts!Close, Drafts!historyVars
<1>3. Past(pane.draft, pane.draft)
  BY <1>1 DEF Past, Drafted
<1>4. ASSUME NEW text \in Said, NEW own \in BOOLEAN, Drafts!Takes(text, own)
      PROVE  AgreeInv'
  BY <1>1, <1>2, <1>4, TakesMovesOn, SessionStepAgrees
<1>5. ASSUME pane' = pane PROVE AgreeInv'
  BY <1>1, <1>2, <1>3, <1>5, SessionStepAgrees
<1>6. ASSUME NEW text \in OthersTexts, Drafts!OtherEdits(text) PROVE AgreeInv'
  BY <1>4, <1>6 DEF Drafts!OtherEdits, Said
<1>7. CASE Drafts!StrayEnds
  <2>1. Head(strays) \in Said
    BY <1>1, <1>7 DEF Drafts!StrayEnds
  <2> QED
    BY <2>1, <1>4, <1>5, <1>7 DEF Drafts!StrayEnds
<1>8. CASE Drafts!SubmitArrives
  BY <1>4, <1>5, <1>8 DEF Drafts!SubmitArrives, Said
<1>9. CASE Drafts!Close
  <2>1. pane' = [pane EXCEPT !.open = FALSE]
    BY <1>9 DEF Drafts!Close
  <2>2. pane' \in PaneStates /\ pane'.draft = pane.draft
    BY <2>1, <1>1 DEF PaneStates
  <2> QED
    BY <2>2, <1>2, <1>3, SessionStepAgrees
<1>10. ASSUME NEW text \in OthersTexts \cup {Empty}, Drafts!Reopen(text) PROVE AgreeInv'
  <2>1. PICK d : d = Drafts!Draft(0, text, pane.draft.life + 1)
    OBVIOUS
  <2>2. d \in Drafted /\ d.rev = 0 /\ d.life = pane.draft.life + 1
    BY <2>1, <1>1 DEF Drafts!Draft, Drafted, Said
  <2>3. /\ pane' = [open |-> TRUE, draft |-> d, own |-> FALSE]
        /\ connected => ~hub.open
    BY <2>1, <1>10 DEF Drafts!Reopen
  <2>4. pane' \in PaneStates /\ Past(pane.draft, pane'.draft)
    BY <2>2, <2>3, <1>1 DEF PaneStates, Past
  <2> QED
    BY <2>3, <2>4, <1>2, SessionStepAgrees
<1> QED
  BY <1>6, <1>7, <1>8, <1>9, <1>10

(* Steps of a write.                                                       *)
LEMMA WriteStepAgrees ==
  ASSUME DraftInv, AgreeInv, pane' \in PaneStates, Past(pane.draft, pane'.draft),
         pane'.draft.life = pane.draft.life,
         UNCHANGED <<hub, stream, connected, overlooked, draft_misled>>,
         NEW w \in Written, w.at # "nowhere", sync.write.at # "nowhere",
         sync' = [sync EXCEPT !.write = w],
         w.text = sync.write.text, w.rebased = sync.write.rebased,
         w.at = "saved" => DraftOf(w) = pane'.draft
  PROVE  AgreeInv'
<1>1. /\ sync \in Synced /\ pane.draft \in Drafted /\ pane'.draft \in Drafted
      /\ sync.server \in Drafted /\ sync.saved \in Drafted
      /\ Past(sync.server, pane.draft) /\ Past(sync.saved, pane.draft)
  BY DEF DraftInv, PaneInv, PaneStates, SyncInv, SourceInv, Sourced, Synced
<1>2. /\ sync' \in Synced /\ sync'.server = sync.server /\ sync'.saved = sync.saved
      /\ sync'.held = sync.held /\ sync'.write = w /\ sync'.text = sync.text
      /\ sync'.retry = sync.retry /\ sync'.composing = sync.composing
  BY <1>1 DEF Synced
<1>3. Drafts!Bound /\ Drafts!Bound'
  BY <1>2, NoSyncIsOne DEF Drafts!Bound
<1>4. KnownInv'
  <2>1. Own(sync') \subseteq Own(sync) \cup {pane'.draft}
    BY <1>2 DEF Own
  <2>2. Known' \subseteq Known \cup {Drafts!NoDraft, pane'.draft}
    BY <2>1 DEF Known
  <2> QED
    BY <2>2, KnownMoves DEF AgreeInv
<1>5. OrderInv' /\ ShapeInv' /\ EndInv'
  BY <1>2, <1>3, StreamStays DEF AgreeInv
<1>6. ASSUME Follows(sync)'
      PROVE  OfOneLife(sync') /\ Recalls(sync', overlooked) /\ Rests(sync', overlooked)
  <2>1. OfOneLife(sync) /\ Recalls(sync, overlooked)
    BY <1>2, <1>3, <1>6 DEF AgreeInv, FitInv, Follows
  <2>2. sync.server.life = pane.draft.life
    BY <1>2, <1>6 DEF Follows
  <2>3. Recalls(sync', overlooked)
    BY <2>1, <1>2 DEF Recalls, ShowsLatest, HeldIsNewest, Drafts!LatestSaved
  <2>4. Rests(sync', overlooked)
    BY <1>2, NoWriteIsOne DEF Rests, Drafts!Dirty, Drafts!Sending
  <2>5. ASSUME w.at = "saved"
        PROVE  /\ w.life = sync.server.life /\ OneText(DraftOf(w), sync.server)
               /\ sync.saved.rev <= w.rev /\ ~(sync.server.rev > w.rev)
    <3>1. DraftOf(w).rev = w.rev /\ DraftOf(w).life = w.life
      BY DEF DraftOf, Drafts!Draft
    <3>2. /\ w.life = pane'.draft.life /\ w.rev = pane'.draft.rev
          /\ DraftOf(w) = pane'.draft
      BY <2>5, <3>1
    <3>3. w.life = sync.server.life /\ sync.server.rev <= w.rev
      BY <3>2, <2>2, <1>1 DEF Past, Drafted
    <3>4. OneText(DraftOf(w), sync.server)
      BY <3>2, <2>2, <1>1 DEF OneText, Past, Drafted
    <3>5. sync.saved.rev <= w.rev
      <4>1. CASE sync.saved = Drafts!NoDraft
        BY <4>1, NoDraftIsOne DEF Written
      <4>2. CASE sync.saved # Drafts!NoDraft
        <5>1. sync.saved.life = sync.server.life
          BY <4>2, <2>1 DEF OfOneLife
        <5> QED
          BY <5>1, <3>2, <2>2, <1>1 DEF Past, Drafted
      <4> QED
        BY <4>1, <4>2
    <3> QED
      BY <3>3, <3>4, <3>5, <1>1 DEF Drafted, Written
  <2>6. OfOneLife(sync')
    BY <2>1, <2>5, <1>2 DEF OfOneLife
  <2> QED
    BY <2>3, <2>4, <2>6
<1> QED
  BY <1>4, <1>5, <1>6 DEF AgreeInv, FitInv

LEMMA WritesAgree ==
  ASSUME DraftInv, AgreeInv,
         Drafts!WriteArrives \/ Drafts!WriteRefused \/ Drafts!WriteLost
  PROVE  AgreeInv'
<1>1. PICK w : w = sync.write
  OBVIOUS
<1>2. /\ PaneInv /\ pane \in PaneStates /\ pane.draft \in Drafted /\ sync \in Synced
      /\ w \in Written /\ w.text \in Said
  BY <1>1 DEF DraftInv, PaneInv, PaneStates, SyncInv, Synced, Written
<1>3. UNCHANGED <<hub, stream, connected, overlooked, draft_misled>>
  BY DEF Drafts!WriteArrives, Drafts!WriteRefused, Drafts!WriteLost, Drafts!historyVars
<1>4. CASE Drafts!WriteArrives
  <2>1. w.at = "sent" /\ Drafts!Takes(w.text, TRUE)
    BY <1>1, <1>4 DEF Drafts!WriteArrives
  <2>2. /\ pane' \in PaneStates /\ Past(pane.draft, pane'.draft) /\ pane'.draft \in Drafted
        /\ pane'.draft.rev >= 0 /\ pane'.draft.text = w.text
        /\ pane'.draft.life = pane.draft.life
    BY <2>1, <1>2, TakesMovesOn DEF PaneStates
  <2>3. PICK v : v = [w EXCEPT !.at = "saved", !.rev = pane'.draft.rev,
                               !.life = pane.draft.life]
    OBVIOUS
  <2>4. /\ v \in Written /\ v.at = "saved" /\ v.text = w.text /\ v.rev = pane'.draft.rev
        /\ v.life = pane'.draft.life /\ v.rebased = w.rebased
    <3>1. pane'.draft.rev \in Nat /\ pane.draft.life \in Nat
      BY <2>2, <1>2 DEF Drafted
    <3> QED
      BY <3>1, <2>2, <2>3, <1>2 DEF Written
  <2>5. sync' = [sync EXCEPT !.write = v]
    BY <2>3, <1>1, <1>2, <1>4 DEF Drafts!WriteArrives, Synced
  <2>6. DraftOf(v) = pane'.draft
    BY <2>2, <2>4 DEF DraftOf, Drafts!Draft, Drafted
  <2> QED
    BY <2>1, <2>2, <2>4, <2>5, <2>6, <1>1, <1>3, WriteStepAgrees
<1>5. CASE Drafts!WriteRefused \/ Drafts!WriteLost
  <2>1. /\ w.at \in {"sent", "saved"} /\ pane' = pane
        /\ sync' = [sync EXCEPT !.write.at = "failed"]
    BY <1>1, <1>5 DEF Drafts!WriteRefused, Drafts!WriteLost
  <2>2. PICK v : v = [w EXCEPT !.at = "failed"]
    OBVIOUS
  <2>3. v \in Written /\ v.at = "failed" /\ v.text = w.text /\ v.rebased = w.rebased
    BY <2>2, <1>2 DEF Written
  <2>4. sync' = [sync EXCEPT !.write = v]
    BY <2>1, <2>2, <1>1, <1>2 DEF Synced
  <2>5. Past(pane.draft, pane.draft)
    BY <1>2 DEF Past, Drafted
  <2> QED
    BY <2>1, <2>3, <2>4, <2>5, <1>1, <1>2, <1>3, WriteStepAgrees
<1> QED
  BY <1>4, <1>5

-----------------------------------------------------------------------------
(* Steps of the composer.                                                  *)
LEMMA BecomesIs ==
  ASSUME NEW s \in Synced, s.settling # "none", Drafts!Becomes(s)
  PROVE  /\ Fitting(s, sync') /\ sync' \in Synced /\ sync'.server = s.server
         /\ Drafts!Bound'
<1>1. \/ sync' = s
      \/ sync' = [s EXCEPT !.settling = "no"]
  BY DEF Drafts!Becomes
<1>2. /\ sync' \in Synced /\ sync'.text = s.text /\ sync'.server = s.server
      /\ sync'.saved = s.saved /\ sync'.held = s.held /\ sync'.timer = s.timer
      /\ sync'.write = s.write /\ sync'.retry = s.retry /\ sync'.composing = s.composing
      /\ sync'.settling # "none"
  BY <1>1 DEF Synced
<1>3. Fitting(s, sync')
  BY <1>2, MarkFits
<1>4. Drafts!Bound'
  BY <1>2, NoSyncIsOne DEF Drafts!Bound
<1> QED
  BY <1>2, <1>3, <1>4

LEMMA TabStepAgrees ==
  ASSUME DraftInv, AgreeInv, Drafts!Bound,
         UNCHANGED <<pane, hub, stream, connected, draft_misled>>,
         NEW s \in Synced, s.settling # "none", Drafts!Becomes(s),
         s.server = sync.server, Own(s) \subseteq Own(sync) \cup {Drafts!NoDraft},
         OfOneLife(sync) /\ Recalls(sync, overlooked) /\ Rests(sync, overlooked) =>
           OfOneLife(s) /\ Recalls(s, overlooked') /\ Rests(s, overlooked')
  PROVE  AgreeInv'
<1>1. /\ Fitting(s, sync') /\ sync' \in Synced /\ sync'.server = sync.server
      /\ Drafts!Bound'
  BY BecomesIs
<1>2. pane \in PaneStates /\ pane.draft \in Drafted
  BY DEF DraftInv, PaneInv, PaneStates
<1>3. KnownInv'
  <2>1. Own(sync') \subseteq Own(sync) \cup {Drafts!NoDraft}
    BY <1>1 DEF Fitting
  <2>2. Known' \subseteq Known \cup {Drafts!NoDraft, pane'.draft}
    BY <2>1 DEF Known
  <2>3. pane' \in PaneStates /\ Past(pane.draft, pane'.draft)
    BY <1>2 DEF Past, Drafted
  <2> QED
    BY <2>2, <2>3, KnownMoves DEF AgreeInv
<1>4. OrderInv' /\ ShapeInv' /\ EndInv'
  BY <1>1, StreamStays DEF AgreeInv
<1>5. ASSUME Follows(sync)'
      PROVE  OfOneLife(sync') /\ Recalls(sync', overlooked') /\ Rests(sync', overlooked')
  <2>1. Follows(sync)
    BY <1>1, <1>5 DEF Follows
  <2>2. OfOneLife(s) /\ Recalls(s, overlooked') /\ Rests(s, overlooked')
    BY <2>1 DEF AgreeInv, FitInv
  <2> QED
    BY <2>2, <1>1 DEF Fitting
<1> QED
  BY <1>3, <1>4, <1>5 DEF AgreeInv, FitInv

LEMMA FittingStepAgrees ==
  ASSUME DraftInv, AgreeInv, Drafts!Bound,
         UNCHANGED <<pane, hub, stream, connected, draft_misled, overlooked>>,
         NEW s, s.settling # "none", Drafts!Becomes(s), Fitting(sync, s)
  PROVE  AgreeInv'
BY TabStepAgrees DEF Fitting

LEMMA TypeAgrees ==
  ASSUME DraftInv, AgreeInv, NEW text \in Texts \cup {Empty}, Drafts!Type(text)
  PROVE  AgreeInv'
<1>1. /\ Drafts!Bound /\ Drafts!Typed(text) /\ Drafts!Becomes(Drafts!Edited(sync, text))
      /\ UNCHANGED <<pane, hub, stream, connected, draft_misled>>
  BY DEF Drafts!Type, Drafts!TabStep
<1>2. sync \in Synced /\ sync.settling \notin {"none", "done"}
  BY <1>1, BoundSettles
<1>3. PICK s : s = [sync EXCEPT !.text = text, !.timer = TRUE]
  OBVIOUS
<1>4. /\ s \in Synced /\ s.text = text /\ s.timer /\ s.server = sync.server
      /\ s.saved = sync.saved /\ s.held = sync.held /\ s.write = sync.write
      /\ s.retry = sync.retry /\ s.settling = sync.settling
  BY <1>2, <1>3 DEF Synced, Said
<1>5. Drafts!Becomes(s)
  BY <1>1, <1>3 DEF Drafts!Edited
<1>6. Own(s) = Own(sync)
  BY <1>4 DEF Own
<1>7. OfOneLife(sync) => OfOneLife(s)
  BY <1>4 DEF OfOneLife
<1>8. Recalls(s, overlooked') /\ Rests(s, overlooked')
  BY <1>1, <1>4 DEF Recalls, Rests, Drafts!Dirty, Drafts!Typed, Drafts!Overlooked
<1> QED
  BY <1>1, <1>2, <1>4, <1>5, <1>6, <1>7, <1>8, TabStepAgrees

LEMMA TabAgrees ==
  ASSUME DraftInv, AgreeInv,
         Drafts!Timer \/ Drafts!CompositionStart \/ Drafts!Answer \/ Drafts!PressSend
  PROVE  AgreeInv'
<1>1. UNCHANGED <<pane, hub, stream, connected, draft_misled, overlooked>>
  BY DEF Drafts!Timer, Drafts!CompositionStart, Drafts!Answer, Drafts!PressSend,
         Drafts!TabStep
<1>2. Drafts!Bound
  BY NoSyncIsOne
  DEF Drafts!Timer, Drafts!CompositionStart, Drafts!Answer, Drafts!PressSend, Drafts!Bound
<1>3. sync \in Synced /\ sync.settling \notin {"none", "done"} /\ sync.server.rev >= 0
  BY <1>2, BoundSettles
<1>4. CASE Drafts!Timer
  <2>1. PICK s : s = Drafts!Sent(sync)
    OBVIOUS
  <2>2. Fitting(sync, s) /\ s.settling # "none" /\ Drafts!Becomes(s)
    BY <2>1, <1>3, <1>4, SentFits, SentIsSound DEF Drafts!Timer
  <2> QED
    BY <2>2, <1>1, <1>2, FittingStepAgrees
<1>5. CASE Drafts!PressSend
  <2>1. PICK s : s = Drafts!Settles(sync)
    OBVIOUS
  <2>2. Fitting(sync, s) /\ s.settling # "none" /\ Drafts!Becomes(s)
    BY <2>1, <1>3, <1>5, SettlesFits, SettlesIsSound DEF Drafts!PressSend, Sound
  <2> QED
    BY <2>2, <1>1, <1>2, FittingStepAgrees
<1>6. CASE Drafts!Answer
  <2>1. PICK s : s = Drafts!WriteEnded(sync)
    OBVIOUS
  <2>2. sync.write.at \in {"saved", "failed"} /\ Drafts!Becomes(s)
    BY <2>1, <1>6 DEF Drafts!Answer
  <2>3. Fitting(sync, s) /\ s.settling # "none"
    BY <2>1, <2>2, <1>3, WriteEndedFits, WriteEndedIsSound DEF Learns
  <2> QED
    BY <2>2, <2>3, <1>1, <1>2, FittingStepAgrees
<1>7. CASE Drafts!CompositionStart
  <2>1. PICK s : s = [sync EXCEPT !.composing = TRUE]
    OBVIOUS
  <2>2. /\ s \in Synced /\ s.text = sync.text /\ s.timer = sync.timer
        /\ s.server = sync.server /\ s.saved = sync.saved /\ s.held = sync.held
        /\ s.write = sync.write /\ s.retry = sync.retry /\ s.settling = sync.settling
    BY <2>1, <1>3 DEF Synced
  <2>3. Drafts!Becomes(s)
    <3>1. sync' = s /\ submit' = submit
      BY <2>1, <1>7 DEF Drafts!CompositionStart, Drafts!TabStep
    <3> QED
      BY <3>1, <2>2, <1>3 DEF Drafts!Becomes
  <2>4. Own(s) = Own(sync)
    BY <2>2 DEF Own
  <2>5. OfOneLife(sync) => OfOneLife(s)
    BY <2>2 DEF OfOneLife
  <2>6. /\ ShowsLatest(s) = ShowsLatest(sync) /\ HeldIsNewest(s) = HeldIsNewest(sync)
        /\ Drafts!Dirty(s) = Drafts!Dirty(sync)
    BY <2>2 DEF ShowsLatest, HeldIsNewest, Drafts!LatestSaved, Drafts!Dirty, Drafts!Sending
  <2>7. ~sync.composing
    BY <1>7 DEF Drafts!CompositionStart
  <2>8. \A o : /\ Recalls(sync, o) => Recalls(s, o)
               /\ Rests(sync, o) => Rests(s, o)
    BY <2>2, <2>6, <2>7 DEF Recalls, Rests
  <2> QED
    BY <2>2, <2>3, <2>4, <2>5, <2>8, <1>1, <1>2, <1>3, TabStepAgrees
<1> QED
  BY <1>4, <1>5, <1>6, <1>7

LEMMA CompositionEndAgrees ==
  ASSUME DraftInv, AgreeInv, NEW text \in Texts \cup {sync.text},
         Drafts!CompositionEnd(text)
  PROVE  AgreeInv'
<1>1. sync.composing /\ UNCHANGED <<pane, hub, stream, connected, draft_misled>>
  BY DEF Drafts!CompositionEnd, Drafts!TabStep
<1>2. Drafts!Bound
  BY <1>1, NoSyncIsOne DEF Drafts!Bound
<1>3. sync \in Synced /\ sync.settling \notin {"none", "done"} /\ text \in Said
  BY <1>2, BoundSettles DEF Synced, Said
<1>4. PICK ended : ended = [sync EXCEPT !.composing = FALSE]
  OBVIOUS
<1>5. /\ ended \in Synced /\ ended.text = sync.text /\ ended.timer = sync.timer
      /\ ended.server = sync.server /\ ended.saved = sync.saved
      /\ ended.held = sync.held /\ ended.write = sync.write
      /\ ended.retry = sync.retry /\ ended.settling = sync.settling /\ ~ended.composing
  BY <1>3, <1>4 DEF Synced
<1>6. PICK e : e = IF text = sync.text THEN ended
                   ELSE [ended EXCEPT !.text = text, !.timer = TRUE]
  OBVIOUS
<1>7. /\ e \in Synced /\ e.text = text /\ e.server = sync.server /\ e.saved = sync.saved
      /\ e.held = sync.held /\ e.write = sync.write /\ e.retry = sync.retry
      /\ e.settling = sync.settling /\ ~e.composing
      /\ \/ text = sync.text /\ e.timer = sync.timer
         \/ text # sync.text /\ e.timer
  BY <1>3, <1>5, <1>6 DEF Synced
<1>8. PICK s : s = Drafts!Composed(e)
  OBVIOUS
<1>9. Drafts!Becomes(s)
  BY <1>4, <1>6, <1>8 DEF Drafts!CompositionEnd, Drafts!Edited
<1>10. /\ Fitting(e, s) /\ s.settling # "none"
       /\ \A o : OfOneLife(e) /\ Recalls(e, o) /\ Nearly(e, o) => Rests(s, o)
  BY <1>3, <1>7, <1>8, ComposedFits, ComposedIsSound
<1>11. Own(e) = Own(sync)
  BY <1>7 DEF Own
<1>12. OfOneLife(sync) => OfOneLife(e)
  BY <1>7 DEF OfOneLife
<1>13. Recalls(sync, overlooked) /\ Rests(sync, overlooked) =>
         Recalls(e, overlooked') /\ Nearly(e, overlooked')
  <2>1. CASE text = sync.text
    <3>1. overlooked' = overlooked
      BY <2>1, <1>4 DEF Drafts!CompositionEnd
    <3>2. /\ ShowsLatest(e) = ShowsLatest(sync) /\ HeldIsNewest(e) = HeldIsNewest(sync)
          /\ Drafts!Dirty(e) = Drafts!Dirty(sync)
      BY <2>1, <1>7
      DEF ShowsLatest, HeldIsNewest, Drafts!LatestSaved, Drafts!Dirty, Drafts!Sending
    <3> QED
      BY <3>1, <3>2, <2>1, <1>7 DEF Recalls, Rests, Nearly
  <2>2. CASE text # sync.text
    <3>1. Drafts!Typed(text)
      BY <2>2, <1>4 DEF Drafts!CompositionEnd
    <3>2. overlooked' = Drafts!Overlooked(text) /\ e.timer
      BY <2>2, <3>1, <1>7 DEF Drafts!Typed
    <3> QED
      BY <3>2, <1>7 DEF Recalls, Nearly, Drafts!Dirty, Drafts!Overlooked
  <2> QED
    BY <2>1, <2>2
<1>14. /\ s \in Synced /\ s.server = sync.server
       /\ Own(s) \subseteq Own(sync) \cup {Drafts!NoDraft}
  BY <1>7, <1>10, <1>11 DEF Fitting
<1>15. OfOneLife(sync) /\ Recalls(sync, overlooked) /\ Rests(sync, overlooked) =>
         OfOneLife(s) /\ Recalls(s, overlooked') /\ Rests(s, overlooked')
  BY <1>10, <1>12, <1>13 DEF Fitting
<1> QED
  BY <1>1, <1>2, <1>9, <1>10, <1>14, <1>15, TabStepAgrees

-----------------------------------------------------------------------------
(* Steps of the stream: what the hub passes on goes on from what it had.   *)
LEMMA PublishAgrees ==
  ASSUME DraftInv, AgreeInv, Drafts!Publish
  PROVE  AgreeInv'
<1>1. /\ pane \in PaneStates /\ pane.draft \in Drafted /\ pane.draft.rev >= 0
      /\ hub.draft \in Drafted /\ Past(hub.draft, pane.draft)
      /\ sync.server \in Drafted /\ Past(sync.server, pane.draft)
      /\ stream \in Seq(FrameOf(pane.draft))
  BY DEF DraftInv, PaneInv, PaneStates, SyncInv, SourceInv, Sourced, Synced
<1>2. /\ hub' = pane /\ UNCHANGED <<pane, connected, sync, draft_misled, overlooked>>
      /\ KnownInv /\ OrderInv /\ ShapeInv /\ EndInv /\ FitInv
  BY DEF Drafts!Publish, Drafts!historyVars, AgreeInv
<1>3. Past(pane.draft, pane.draft) /\ Drafts!Bound' = Drafts!Bound
  BY <1>1, <1>2 DEF Past, Drafted, Drafts!Bound
<1>4. FitInv'
  BY <1>2, <1>3 DEF FitInv, Follows
<1>5. \A i \in DOMAIN stream : Past(stream[i].draft, pane.draft)
  BY <1>2 DEF KnownInv, Known
<1>6. CASE ~connected
  <2>1. stream' = stream /\ stream = <<>>
    BY <1>2, <1>6 DEF Drafts!Publish, ShapeInv
  <2>2. Known' \subseteq Known \cup {Drafts!NoDraft, pane'.draft}
    BY <2>1, <1>2 DEF Known
  <2>3. KnownInv'
    BY <2>2, <1>1, <1>2, <1>3, KnownMoves
  <2>4. OrderInv' /\ ShapeInv' /\ EndInv'
    BY <2>1, <1>1, <1>2, <1>6 DEF OrderInv, ShapeInv, EndInv
  <2> QED
    BY <2>3, <2>4, <1>4 DEF AgreeInv
<1>7. CASE connected
  <2>1. PICK f \in Drafts!Frames(pane) : stream' = Append(stream, f)
    BY <1>7 DEF Drafts!Publish
  <2>2. /\ f.event = "snapshot" => f.origin = "none"
        /\ f.draft = pane.draft \/ (f.draft = Drafts!NoDraft /\ f.event = "closed")
        /\ f.event # "closed" <=> pane.open
        /\ f.event # "closed" => IsData(f) /\ f.draft = pane.draft
        /\ f.event = "draft" => hub.open
    BY <2>1 DEF Drafts!Frames, Drafts!Snapshot, Drafts!DraftFrame, Drafts!ClosedFrame, IsData
  <2>3. PICK n \in Nat : n = Len(stream) /\ DOMAIN stream = 1..n
    BY <1>1
  <2>4. /\ DOMAIN stream' = 1..(n + 1) /\ Len(stream') = n + 1 /\ stream' # <<>>
        /\ \A i \in 1..n : stream'[i] = stream[i]
        /\ stream'[n + 1] = f
    BY <2>1, <2>3, <1>1
  <2>5. KnownInv'
    <3>1. \A i \in DOMAIN stream' : stream'[i].draft \in Known \cup {Drafts!NoDraft}
      BY <2>2, <2>3, <2>4 DEF Known
    <3>2. Known' \subseteq Known \cup {Drafts!NoDraft, pane'.draft}
      BY <3>1, <1>2 DEF Known
    <3> QED
      BY <3>2, <1>1, <1>2, <1>3, KnownMoves
  <2>6. OrderInv'
    <3>1. ASSUME NEW i \in 1..n, IsData(stream[i])
          PROVE  /\ Past(sync.server, stream[i].draft)
                 /\ \A j \in 1..n : j > i /\ IsData(stream[j]) =>
                      Past(stream[i].draft, stream[j].draft)
      BY <3>1, <1>2, <2>3 DEF OrderInv
    <3>2. IsData(f) => f.draft = pane.draft
      BY <2>2 DEF IsData
    <3> QED
      BY <3>1, <3>2, <1>1, <1>2, <1>3, <1>5, <2>3, <2>4 DEF OrderInv
  <2>7. ShapeInv'
    <3>1. ASSUME f.event = "draft"
          PROVE  IF n + 1 = 1 THEN GoesOn(f.draft)
                 ELSE IsData(stream[n]) /\ stream[n].draft.life = f.draft.life
      <4>1. hub.open /\ f.draft = pane.draft /\ hub.draft.life = pane.draft.life
        BY <3>1, <2>2, <1>2, <1>7 DEF EndInv, IsData
      <4>2. CASE n = 0
        <5>1. /\ Drafts!Bound
              /\ \/ sync.server = hub.draft
                 \/ draft_misled /\ hub.draft.rev >= sync.server.rev
          BY <4>1, <4>2, <2>3, <1>1, <1>2, <1>7 DEF EndInv
        <5> QED
          BY <4>1, <4>2, <5>1, <1>1 DEF GoesOn, Past, Drafted
      <4>3. CASE n # 0
        BY <4>1, <4>3, <2>3, <1>1, <1>2, <1>7 DEF EndInv
      <4> QED
        BY <4>2, <4>3
    <3>2. \A d : GoesOn(d)' = GoesOn(d)
      BY <1>2, <1>3 DEF GoesOn
    <3>3. ASSUME NEW i \in 1..n, stream[i].event = "draft"
          PROVE  IF i = 1 THEN GoesOn(stream[1].draft)
                 ELSE IsData(stream[i-1]) /\ stream[i-1].draft.life = stream[i].draft.life
      BY <3>3, <2>3, <1>2 DEF ShapeInv
    <3>4. \A i \in 1..n : stream[i].event = "snapshot" => stream[i].origin = "none"
      BY <2>3, <1>2 DEF ShapeInv
    <3>5. ASSUME NEW i \in 1..(n + 1), stream'[i].event = "draft"
          PROVE  IF i = 1 THEN GoesOn(stream'[1].draft)
                 ELSE IsData(stream'[i-1]) /\ stream'[i-1].draft.life = stream'[i].draft.life
      <4>1. CASE i = n + 1
        BY <4>1, <3>1, <3>5, <2>4
      <4>2. CASE i \in 1..n
        BY <4>2, <3>3, <3>5, <2>4
      <4> QED
        BY <4>1, <4>2
    <3>6. \A i \in 1..(n + 1) : stream'[i].event = "snapshot" => stream'[i].origin = "none"
      BY <3>4, <2>2, <2>4
    <3>7. connected'
      BY <1>2, <1>7
    <3> QED
      BY <3>2, <3>5, <3>6, <3>7, <2>4 DEF ShapeInv
  <2>8. EndInv'
    BY <2>2, <2>4, <1>2 DEF EndInv
  <2> QED
    BY <2>5, <2>6, <2>7, <2>8, <1>4 DEF AgreeInv
<1> QED
  BY <1>6, <1>7

LEMMA ConnectionAgrees ==
  ASSUME DraftInv, AgreeInv, Drafts!Disconnect \/ Drafts!Reconnect
  PROVE  AgreeInv'
<1>1. /\ pane \in PaneStates /\ hub.draft \in Drafted /\ pane.draft \in Drafted
      /\ UNCHANGED <<pane, hub, sync, draft_misled, overlooked>>
      /\ KnownInv /\ OrderInv /\ ShapeInv /\ EndInv /\ FitInv
  BY DEF DraftInv, PaneInv, PaneStates, Drafts!Disconnect, Drafts!Reconnect,
         Drafts!historyVars, AgreeInv
<1>2. Past(pane.draft, pane.draft) /\ Past(hub.draft, hub.draft) /\ Drafts!Bound' = Drafts!Bound
  BY <1>1 DEF Past, Drafted, Drafts!Bound
<1>3. FitInv'
  BY <1>1, <1>2 DEF FitInv, Follows
<1>4. PICK a : a = Drafts!Hello
  OBVIOUS
<1>5. PICK b : b = Drafts!Snapshot(hub)
  OBVIOUS
<1>6. /\ ~IsData(a) /\ a.event = "hello" /\ a.draft = Drafts!NoDraft
      /\ IsData(b) /\ b.event = "snapshot" /\ b.draft = hub.draft /\ b.origin = "none"
  BY <1>4, <1>5 DEF Drafts!Hello, Drafts!Snapshot, IsData
<1>7. \/ ~connected' /\ stream' = <<>>
      \/ connected' /\ ~hub.open /\ stream' = <<a>>
      \/ /\ connected' /\ hub.open /\ stream' = <<a, b>>
         /\ hub.draft.life = pane.draft.life
  BY <1>4, <1>5 DEF Drafts!Disconnect, Drafts!Reconnect
<1>8. KnownInv'
  <2>1. \A i \in DOMAIN stream' : stream'[i] \in {a, b}
    BY <1>7
  <2>2. \A i \in DOMAIN stream' : stream'[i].draft \in {Drafts!NoDraft, hub.draft}
    BY <2>1, <1>6
  <2>3. Known' \subseteq Known \cup {Drafts!NoDraft, pane'.draft}
    BY <2>2, <1>1 DEF Known
  <2> QED
    BY <2>3, <1>1, <1>2, KnownMoves
<1>9. OrderInv'
  <2>1. \A i \in DOMAIN stream' : IsData(stream'[i]) => i = 2 /\ stream'[i] = b
    BY <1>6, <1>7
  <2>2. DOMAIN stream' \subseteq {1, 2}
    BY <1>7
  <2> QED
    BY <2>1, <2>2, <1>1, <1>2, <1>6 DEF OrderInv
<1>10. ShapeInv'
  <2>1. \A i \in DOMAIN stream' :
             stream'[i].event # "draft" /\ (stream'[i].event = "snapshot" => stream'[i] = b)
    BY <1>6, <1>7
  <2>2. \A i \in DOMAIN stream' :
             stream'[i].event # "draft"
             /\ (stream'[i].event = "snapshot" => stream'[i].origin = "none")
    BY <2>1, <1>6
  <2>3. ~connected' => stream' = <<>>
    BY <1>7
  <2> QED
    BY <2>2, <2>3 DEF ShapeInv
<1>11. EndInv'
  <2>1. connected' /\ hub'.open =>
          /\ hub'.draft.life = pane'.draft.life
          /\ stream' # <<>> /\ Len(stream') = 2 /\ stream'[2] = b
    <3>1. hub' = hub /\ pane' = pane
      BY <1>1
    <3>2. connected' /\ hub.open => stream' = <<a, b>> /\ hub.draft.life = pane.draft.life
      BY <1>7
    <3>3. <<a, b>> # <<>> /\ Len(<<a, b>>) = 2 /\ <<a, b>>[2] = b
      OBVIOUS
    <3> QED
      BY <3>1, <3>2, <3>3
  <2>2. IsData(b) /\ b.draft = hub'.draft
    BY <1>1, <1>6
  <2> QED
    BY <2>1, <2>2 DEF EndInv, IsData
<1> QED
  BY <1>3, <1>8, <1>9, <1>10, <1>11 DEF AgreeInv

(* A frame is read: what is under way after it goes on from it.            *)
LEMMA StreamMoves ==
  ASSUME DraftInv, OrderInv, ShapeInv, EndInv,
         stream # <<>>, stream' = Tail(stream), UNCHANGED <<pane, hub, connected>>,
         NEW frame, frame = stream[1],
         \/ sync'.server \in {sync.server, Drafts!NoDraft}
         \/ IsData(frame) /\ sync'.server = frame.draft,
         sync'.server \in Drafted,
         IsData(frame) =>
           /\ Drafts!Bound'
           /\ \/ sync'.server = frame.draft
              \/ draft_misled' /\ frame.draft.rev >= sync'.server.rev
  PROVE  OrderInv' /\ ShapeInv' /\ EndInv'
<1>1. /\ pane.draft \in Drafted /\ hub.draft \in Drafted /\ hub.draft.rev >= 0
      /\ stream \in Seq(FrameOf(pane.draft))
  BY DEF DraftInv, PaneInv, PaneStates, SourceInv
<1>2. PICK n \in Nat : n = Len(stream) /\ DOMAIN stream = 1..n /\ n >= 1
  BY <1>1
<1>3. /\ DOMAIN stream' = 1..(n - 1) /\ Len(stream') = n - 1
      /\ \A i \in 1..(n - 1) : stream'[i] = stream[i + 1]
      /\ (stream' = <<>> <=> n = 1)
  <2>1. /\ stream' \in Seq(FrameOf(pane.draft)) /\ Len(stream') = n - 1
        /\ \A i \in 1..(n - 1) : stream'[i] = stream[i + 1]
    BY <1>1, <1>2
  <2>2. DOMAIN stream' = 1..(n - 1)
    BY <2>1, <1>2
  <2>3. stream' = <<>> <=> Len(stream') = 0
    BY <2>1, EmptySeq
  <2> QED
    BY <2>1, <2>2, <2>3, <1>2
<1>4. ASSUME NEW i \in 1..n, IsData(stream[i])
      PROVE  /\ stream[i].draft \in Drafted /\ stream[i].draft.rev >= 0
             /\ Past(sync.server, stream[i].draft) /\ Past(stream[i].draft, hub.draft)
             /\ \A j \in 1..n : j > i /\ IsData(stream[j]) =>
                  Past(stream[i].draft, stream[j].draft)
  <2>1. stream[i] \in FrameOf(pane.draft)
    BY <1>1, <1>2
  <2>2. stream[i].draft \in Drafted /\ stream[i].draft.rev >= 0
    BY <2>1, <1>4 DEF FrameOf, IsData
  <2>3. /\ Past(sync.server, stream[i].draft) /\ Past(stream[i].draft, hub.draft)
        /\ \A j \in 1..n : j > i /\ IsData(stream[j]) =>
             Past(stream[i].draft, stream[j].draft)
    BY <1>2, <1>4 DEF OrderInv
  <2> QED
    BY <2>2, <2>3
<1>5. OrderInv'
  <2>1. Past(sync'.server, hub.draft)
    BY <1>1, <1>2, <1>4, NoSubmitIsPast DEF OrderInv
  <2>2. ASSUME NEW i \in 1..(n - 1), IsData(stream[i + 1])
        PROVE  /\ Past(sync'.server, stream[i + 1].draft)
               /\ Past(stream[i + 1].draft, hub.draft)
               /\ \A j \in 1..(n - 1) : j > i /\ IsData(stream[j + 1]) =>
                    Past(stream[i + 1].draft, stream[j + 1].draft)
    <3>1. i + 1 \in 1..n /\ i + 1 > 1 /\ 1 \in 1..n
      BY <1>2
    <3>2. /\ stream[i + 1].draft \in Drafted /\ stream[i + 1].draft.rev >= 0
          /\ Past(sync.server, stream[i + 1].draft)
          /\ Past(stream[i + 1].draft, hub.draft)
      BY <3>1, <2>2, <1>4
    <3>3. IsData(frame) => Past(frame.draft, stream[i + 1].draft)
      BY <3>1, <2>2, <1>4
    <3>4. Past(sync'.server, stream[i + 1].draft)
      BY <3>2, <3>3, NoSubmitIsPast
    <3>5. ASSUME NEW j \in 1..(n - 1), j > i, IsData(stream[j + 1])
          PROVE  Past(stream[i + 1].draft, stream[j + 1].draft)
      <4>1. j + 1 \in 1..n /\ j + 1 > i + 1
        BY <3>5, <1>2
      <4> QED
        BY <4>1, <3>1, <3>5, <2>2, <1>4
    <3> QED
      BY <3>2, <3>4, <3>5
  <2> QED
    BY <2>1, <2>2, <1>3 DEF OrderInv
<1>6. ShapeInv'
  <2>1. \A i \in 1..(n - 1) : stream[i + 1].event = "snapshot" => stream[i + 1].origin = "none"
    BY <1>2 DEF ShapeInv
  <2>2. ASSUME NEW i \in 1..(n - 1), stream[i + 1].event = "draft"
        PROVE  IsData(stream[i]) /\ stream[i].draft.life = stream[i + 1].draft.life
    <3>1. i + 1 \in 1..n /\ i + 1 # 1 /\ (i + 1) - 1 = i
      BY <1>2
    <3> QED
      BY <3>1, <2>2, <1>2 DEF ShapeInv
  <2>3. ASSUME n >= 2, stream[2].event = "draft" PROVE GoesOn(stream[1].draft)'
    <3>1. 1 \in 1..(n - 1) /\ 1 \in 1..n /\ 2 \in 1..n
      BY <2>3, <1>2
    <3>2. IsData(stream[1]) /\ stream[1].draft.life = stream[2].draft.life
      BY <3>1, <2>2, <2>3
    <3>3. IsData(stream[2])
      BY <2>3 DEF IsData
    <3>4. /\ Past(stream[1].draft, stream[2].draft)
          /\ stream[1].draft \in Drafted /\ stream[2].draft \in Drafted
      BY <3>1, <3>2, <3>3, <1>4
    <3>5. stream[2].draft.rev >= stream[1].draft.rev
      BY <3>2, <3>4 DEF Past, Drafted
    <3>6. /\ Drafts!Bound'
          /\ \/ sync'.server.life = stream[2].draft.life
             \/ draft_misled' /\ stream[2].draft.rev >= sync'.server.rev
      BY <3>2, <3>4, <3>5 DEF Drafted
    <3>7. stream'[1] = stream[2]
      BY <3>1, <1>3
    <3> QED
      BY <3>6, <3>7 DEF GoesOn
  <2>4. ASSUME NEW i \in 1..(n - 1), stream'[i].event = "draft"
        PROVE  IF i = 1 THEN GoesOn(stream[1].draft)'
               ELSE IsData(stream'[i-1]) /\ stream'[i-1].draft.life = stream'[i].draft.life
    <3>1. CASE i = 1
      <4>1. n >= 2 /\ stream[2].event = "draft"
        BY <3>1, <2>4, <1>2, <1>3
      <4> QED
        BY <4>1, <3>1, <2>3
    <3>2. CASE i # 1
      <4>1. i - 1 \in 1..(n - 1) /\ stream'[i - 1] = stream[i] /\ stream'[i] = stream[i + 1]
        BY <3>2, <1>2, <1>3
      <4> QED
        BY <4>1, <3>2, <2>2, <2>4
    <3> QED
      BY <3>1, <3>2
  <2> QED
    BY <2>1, <2>4, <1>2, <1>3 DEF ShapeInv
<1>7. EndInv'
  <2> SUFFICES ASSUME connected, hub.open
               PROVE  /\ hub.draft.life = pane.draft.life
                      /\ stream' # <<>> => /\ IsData(stream'[n - 1])
                                           /\ stream'[n - 1].draft = hub.draft
                      /\ stream' = <<>> =>
                           /\ Drafts!Bound'
                           /\ \/ sync'.server = hub.draft
                              \/ draft_misled' /\ hub.draft.rev >= sync'.server.rev
    BY <1>3 DEF EndInv
  <2>1. /\ hub.draft.life = pane.draft.life
        /\ IsData(stream[n]) /\ stream[n].draft = hub.draft
    BY <1>2 DEF EndInv
  <2>2. n # 1 => stream'[n - 1] = stream[n]
    BY <1>2, <1>3
  <2> QED
    BY <2>1, <2>2, <1>3
<1> QED
  BY <1>5, <1>6, <1>7

LEMMA ReadAgrees ==
  ASSUME DraftInv, AgreeInv, Drafts!Read
  PROVE  AgreeInv'
<1>1. /\ pane \in PaneStates /\ pane.draft \in Drafted /\ pane.draft.rev >= 0
      /\ sync \in Synced /\ sync.server \in Drafted /\ Past(sync.server, pane.draft)
      /\ stream \in Seq(FrameOf(pane.draft))
  BY DEF DraftInv, PaneInv, PaneStates, SyncInv, SourceInv, Sourced, Synced
<1>2. /\ stream # <<>> /\ stream' = Tail(stream)
      /\ UNCHANGED <<pane, hub, connected, overlooked>>
      /\ KnownInv /\ OrderInv /\ ShapeInv /\ EndInv /\ FitInv
  BY DEF Drafts!Read, AgreeInv
<1>3. PICK frame : frame = stream[1] /\ frame = Head(stream)
  BY <1>1, <1>2
<1>4. /\ 1 \in DOMAIN stream /\ frame \in FrameOf(pane.draft)
      /\ \A i \in DOMAIN stream' : \E j \in DOMAIN stream : stream'[i] = stream[j]
  BY <1>1, <1>2, <1>3
<1>5. PICK d : d = frame.draft
  OBVIOUS
<1>6. d \in Drafted /\ Past(d, pane.draft) /\ (IsData(frame) => d.rev >= 0)
  BY <1>4, <1>5 DEF FrameOf, IsData
<1>7. draft_misled' = Drafts!Misled(frame)
  BY <1>3 DEF Drafts!Read
<1>8. ASSUME Own(sync') \subseteq Own(sync) \cup {Drafts!NoDraft, d} PROVE KnownInv'
  <2>1. d \in Known /\ \A i \in DOMAIN stream' : stream'[i].draft \in Known
    BY <1>3, <1>4, <1>5 DEF Known
  <2>2. Known' \subseteq Known \cup {Drafts!NoDraft, pane'.draft}
    BY <2>1, <1>2, <1>8 DEF Known
  <2>3. pane' \in PaneStates /\ Past(pane.draft, pane'.draft)
    BY <1>1, <1>2 DEF Past, Drafted
  <2> QED
    BY <2>2, <2>3, <1>2, KnownMoves
<1>9. CASE frame.event = "closed" /\ Drafts!Bound
  <2>1. sync' = Drafts!NoSync /\ ~Drafts!Bound'
    BY <1>3, <1>9 DEF Drafts!Read, Drafts!Bound
  <2>2. Own(sync') \subseteq Own(sync) \cup {Drafts!NoDraft, d}
    <3>1. Drafts!NoSync.held = Drafts!NoDraft
      BY DEF Drafts!NoSync, Drafts!Sync
    <3> QED
      BY <3>1, <2>1, NoSyncIsOne DEF Own
  <2>3. OrderInv' /\ ShapeInv' /\ EndInv'
    BY <2>1, <1>2, <1>3, <1>9, NoSyncIsOne, NoDraftIsOne, StreamMoves DEF IsData
  <2>4. FitInv'
    BY <2>1 DEF FitInv, Follows
  <2> QED
    BY <2>2, <2>3, <2>4, <1>8 DEF AgreeInv
<1>10. CASE frame.event = "snapshot" /\ ~Drafts!Bound
  <2>1. sync' = Drafts!Sync(d) /\ IsData(frame)
    BY <1>3, <1>5, <1>10 DEF Drafts!Read, IsData
  <2>2. /\ sync' \in Synced /\ sync'.server = d /\ sync'.saved = Drafts!NoDraft
        /\ sync'.write = Drafts!NoWrite /\ sync'.settling = "no"
    BY <2>1, <1>6, SyncIsOne
  <2>3. sync'.held = Drafts!NoDraft /\ sync'.text = d.text
    BY <2>1 DEF Drafts!Sync
  <2>4. Drafts!Bound'
    BY <2>2, NoSyncIsOne DEF Drafts!Bound
  <2>5. Own(sync') \subseteq Own(sync) \cup {Drafts!NoDraft, d}
    BY <2>2, <2>3, NoWriteIsOne DEF Own
  <2>6. OrderInv' /\ ShapeInv' /\ EndInv'
    BY <2>1, <2>2, <2>4, <1>2, <1>3, <1>5, <1>6, StreamMoves
  <2>7. FitInv'
    <3>1. OfOneLife(sync')
      BY <2>2, <2>3, NoWriteIsOne DEF OfOneLife
    <3>2. ShowsLatest(sync')
      <4>1. Drafts!LatestSaved(sync') = d
        BY <2>1, <2>2, <1>6, NoDraftIsOne DEF Drafts!LatestSaved, Drafted
      <4> QED
        BY <4>1, <2>3 DEF ShowsLatest
    <3>3. \A o : Recalls(sync', o) /\ Rests(sync', o)
      BY <3>2, <2>2, NoWriteIsOne DEF Recalls, Rests
    <3> QED
      BY <3>1, <3>3 DEF FitInv
  <2> QED
    BY <2>5, <2>6, <2>7, <1>8 DEF AgreeInv
<1>11. CASE frame.event = "hello" /\ Drafts!Bound
  <2>1. PICK s : s = IF sync.retry /\ ~Drafts!Sending(sync) THEN Drafts!Sent(sync) ELSE sync
    OBVIOUS
  <2>2. Drafts!Becomes(s)
    BY <2>1, <1>3, <1>11 DEF Drafts!Read
  <2>3. sync.settling \notin {"none", "done"}
    BY <1>11, BoundSettles
  <2>4. Fitting(sync, s) /\ s \in Synced /\ s.settling # "none"
    <3>1. Fitting(sync, sync)
      BY <1>1, MarkFits
    <3> QED
      BY <2>1, <2>3, <3>1, <1>1, SentFits, SentIsSound DEF Fitting
  <2>5. Fitting(s, sync') /\ sync'.server = sync.server /\ sync' \in Synced
    BY <2>2, <2>4, BecomesIs DEF Fitting
  <2>6. Fitting(sync, sync')
    BY <2>4, <2>5, FittingIsTransitive
  <2>7. ~IsData(frame)
    BY <1>11 DEF IsData
  <2>8. Own(sync') \subseteq Own(sync) \cup {Drafts!NoDraft, d}
    BY <2>6 DEF Fitting
  <2>9. OrderInv' /\ ShapeInv' /\ EndInv'
    BY <2>5, <2>7, <1>1, <1>2, <1>3, StreamMoves
  <2>10. FitInv'
    <3>1. ASSUME Follows(sync)' PROVE Follows(sync)
      <4>1. ~draft_misled' /\ sync.server.life = pane.draft.life
        BY <3>1, <2>5, <1>2 DEF Follows
      <4>2. d.life <= sync.server.life
        BY <4>1, <1>6 DEF Past
      <4>3. ~draft_misled
        BY <4>1, <4>2, <1>1, <1>5, <1>6, <1>7, <1>11 DEF Drafts!Misled, Drafted
      <4> QED
        BY <4>1, <4>3, <1>11 DEF Follows
    <3> QED
      BY <3>1, <2>6, <1>2 DEF FitInv, Fitting
  <2> QED
    BY <2>8, <2>9, <2>10, <1>8 DEF AgreeInv
<1>12. CASE IsData(frame) /\ Drafts!Bound
  <2>1. PICK r : r = Drafts!Received(sync, d, frame.origin)
    OBVIOUS
  <2>2. Drafts!Becomes(r)
    BY <2>1, <1>3, <1>5, <1>12 DEF Drafts!Read, IsData
  <2>3. /\ sync.settling \notin {"none", "done"} /\ sync.server.rev >= 0
        /\ d.rev >= 0
    BY <1>6, <1>12, BoundSettles
  <2>4. /\ r \in Synced /\ Own(r) \subseteq Own(sync) \cup {d, Drafts!NoDraft}
        /\ \/ r.server = d
           \/ /\ r.server = sync.server /\ d.rev <= sync.server.rev
              /\ frame.origin = "none" => d.rev >= sync.server.rev
    BY <2>1, <2>3, <1>1, <1>6, ReceivedReads
  <2>5. r.settling # "none"
    BY <2>1, <2>3, <1>1, <1>6, ReceivedIsSound DEF Learns
  <2>6. Fitting(r, sync') /\ sync' \in Synced /\ sync'.server = r.server /\ Drafts!Bound'
    BY <2>2, <2>4, <2>5, BecomesIs
  <2>7. Own(sync') \subseteq Own(sync) \cup {Drafts!NoDraft, d}
    BY <2>4, <2>6 DEF Fitting
  <2>8. /\ Past(sync.server, d)
        /\ frame.event = "snapshot" => frame.origin = "none"
        /\ frame.event = "draft" => GoesOn(d)
        /\ \A a \in Own(sync) : OneText(a, d)
    <3>1. Past(sync.server, d)
      BY <1>2, <1>3, <1>4, <1>5, <1>12 DEF OrderInv
    <3>2. /\ frame.event = "snapshot" => frame.origin = "none"
          /\ frame.event = "draft" => GoesOn(d)
      BY <1>2, <1>3, <1>4, <1>5 DEF ShapeInv
    <3>3. d \in Known /\ Own(sync) \subseteq Known
      BY <1>3, <1>4, <1>5 DEF Known
    <3> QED
      BY <3>1, <3>2, <3>3, <1>2 DEF KnownInv
  <2>9. frame.event \in {"snapshot", "draft"}
    BY <1>12 DEF IsData
  <2>10. d.life > sync.server.life => (draft_misled' <=> d.rev >= sync.server.rev)
    BY <2>9, <1>5, <1>7, <1>12 DEF Drafts!Misled
  <2>11. r.server = d \/ (draft_misled' /\ d.rev >= r.server.rev)
    <3> SUFFICES ASSUME r.server # d PROVE draft_misled' /\ d.rev >= r.server.rev
      OBVIOUS
    <3>1. /\ r.server = sync.server /\ d.rev <= sync.server.rev
          /\ frame.origin = "none" => d.rev >= sync.server.rev
      BY <2>4
    <3>2. d.life # sync.server.life
      <4> SUFFICES ASSUME d.life = sync.server.life PROVE FALSE
        OBVIOUS
      <4>1. d.rev = sync.server.rev /\ d.text = sync.server.text
        BY <3>1, <2>8, <1>1, <1>6 DEF Past, Drafted
      <4>2. d = sync.server
        BY <4>1, <1>1, <1>6 DEF Drafted
      <4> QED
        BY <4>2, <3>1
    <3>3. d.life > sync.server.life
      BY <3>2, <2>8, <1>1, <1>6 DEF Past, Drafted
    <3>4. d.rev >= sync.server.rev
      BY <3>1, <3>2, <2>8, <2>9 DEF GoesOn
    <3> QED
      BY <3>1, <3>3, <3>4, <2>10
  <2>12. OrderInv' /\ ShapeInv' /\ EndInv'
    BY <2>4, <2>6, <2>11, <1>1, <1>2, <1>3, <1>5, <1>6, <1>12, StreamMoves
  <2>13. ASSUME Follows(sync)'
         PROVE  /\ OfOneLife(sync') /\ Recalls(sync', overlooked)
                /\ Rests(sync', overlooked)
    <3>1. ~draft_misled' /\ r.server.life = pane.draft.life
      BY <2>6, <2>13, <1>2 DEF Follows
    <3>2. r.server = d
      BY <2>11, <3>1
    <3>3. OfOneLife(r) /\ Recalls(r, overlooked) /\ Rests(r, overlooked)
      <4>1. CASE d.life = sync.server.life
        <5>1. ~draft_misled
          BY <4>1, <3>1, <2>9, <1>1, <1>5, <1>7, <1>12 DEF Drafts!Misled, Drafted
        <5>2. OfOneLife(sync) /\ Recalls(sync, overlooked) /\ Rests(sync, overlooked)
          BY <5>1, <4>1, <3>1, <3>2, <1>2, <1>12 DEF FitInv, Follows
        <5>3. /\ OfOneLife(sync) => OfOneLife(r)
              /\ \A o : OfOneLife(sync) /\ Recalls(sync, o) => Recalls(r, o)
              /\ \A o : OfOneLife(sync) /\ Recalls(sync, o) /\ Rests(sync, o) => Rests(r, o)
          BY <4>1, <2>1, <2>3, <2>8, <1>1, <1>6, ReceivedFits
        <5> QED
          BY <5>2, <5>3
      <4>2. CASE d.life # sync.server.life
        <5>1. d.life > sync.server.life
          BY <4>2, <2>8, <1>1, <1>6 DEF Past, Drafted
        <5>2. d.rev < sync.server.rev
          BY <5>1, <3>1, <2>10, <1>1, <1>6 DEF Drafted
        <5>3. frame.origin = "none"
          BY <5>2, <4>2, <2>8, <2>9, <1>1, <1>6 DEF GoesOn, Drafted
        <5>4. r = Drafts!Reset(sync, d)
          BY <5>2, <5>3, <2>1 DEF Drafts!Received
        <5> QED
          BY <5>4, <2>3, <1>1, <1>6, ResetFits
      <4> QED
        BY <4>1, <4>2
    <3> QED
      BY <3>3, <2>6 DEF Fitting
  <2>14. FitInv'
    BY <2>13, <1>2 DEF FitInv
  <2> QED
    BY <2>7, <2>12, <2>14, <1>8 DEF AgreeInv
<1>13. CASE ~(\/ frame.event = "closed" /\ Drafts!Bound
              \/ frame.event = "snapshot" /\ ~Drafts!Bound
              \/ frame.event = "hello" /\ Drafts!Bound
              \/ IsData(frame) /\ Drafts!Bound)
  <2>1. sync' = sync
    BY <1>3, <1>13 DEF Drafts!Read, IsData
  <2>2. frame.event \in {"snapshot", "draft", "closed", "hello"}
    BY <1>4 DEF FrameOf
  <2>3. ~Drafts!Bound /\ ~Drafts!Bound' /\ frame.event # "snapshot"
    BY <2>1, <2>2, <1>13 DEF IsData, Drafts!Bound
  <2>4. ~IsData(frame)
    <3>1. frame.event # "draft"
      BY <2>3, <1>2, <1>3, <1>4 DEF ShapeInv, GoesOn
    <3> QED
      BY <3>1, <2>3 DEF IsData
  <2>5. Own(sync') \subseteq Own(sync) \cup {Drafts!NoDraft, d}
    BY <2>1
  <2>6. OrderInv' /\ ShapeInv' /\ EndInv'
    BY <2>1, <2>4, <1>1, <1>2, <1>3, StreamMoves
  <2>7. FitInv'
    BY <2>3 DEF FitInv, Follows
  <2> QED
    BY <2>5, <2>6, <2>7, <1>8 DEF AgreeInv
<1> QED
  BY <1>9, <1>10, <1>11, <1>12, <1>13

-----------------------------------------------------------------------------
LEMMA AgreeStarts == Drafts!Init => AgreeInv
<1> SUFFICES ASSUME Drafts!Init PROVE AgreeInv
  OBVIOUS
<1> USE DEF Drafts!Init
<1>1. PICK d : d = Drafts!Draft(0, Empty, 0)
  OBVIOUS
<1>2. d \in Drafted /\ d.rev = 0 /\ d.text = Empty /\ d.life = 0
  BY <1>1 DEF Drafts!Draft, Drafted, Said
<1>3. /\ pane = [open |-> TRUE, draft |-> d, own |-> FALSE] /\ hub = pane
      /\ pane.draft = d /\ sync = Drafts!Sync(d) /\ stream = <<>> /\ connected
  BY <1>1
<1>4. /\ sync \in Synced /\ sync.server = d /\ sync.saved = Drafts!NoDraft
      /\ sync.write = Drafts!NoWrite /\ sync.settling = "no"
      /\ sync.held = Drafts!NoDraft /\ sync.text = d.text
  BY <1>2, <1>3, SyncIsOne DEF Drafts!Sync
<1>5. Drafts!Bound
  BY <1>4, NoSyncIsOne DEF Drafts!Bound
<1>6. Past(d, d) /\ Past(Drafts!NoDraft, d)
  BY <1>2, NoSubmitIsPast DEF Past
<1>7. KnownInv
  <2>1. Known = {d, Drafts!NoDraft}
    BY <1>3, <1>4, NoWriteIsOne DEF Known, Own
  <2> QED
    BY <2>1, <1>2, <1>3, <1>6, NoDraftIsOne DEF KnownInv, OneText
<1>8. OrderInv /\ ShapeInv /\ EndInv
  BY <1>3, <1>4, <1>5, <1>6 DEF OrderInv, ShapeInv, EndInv
<1>9. FitInv
  <2>1. OfOneLife(sync)
    BY <1>4, NoWriteIsOne DEF OfOneLife
  <2>2. ShowsLatest(sync)
    <3>1. Drafts!LatestSaved(sync) = d
      BY <1>2, <1>4, NoDraftIsOne DEF Drafts!LatestSaved
    <3> QED
      BY <3>1, <1>4 DEF ShowsLatest
  <2> QED
    BY <2>1, <2>2, <1>4, NoWriteIsOne DEF FitInv, Recalls, Rests
<1> QED
  BY <1>7, <1>8, <1>9 DEF AgreeInv

LEMMA AgreeKeeps ==
  ASSUME DraftInv, AgreeInv, [Drafts!Next]_draftVars
  PROVE  AgreeInv'
<1>1. CASE UNCHANGED draftVars
  BY <1>1
  DEF draftVars, AgreeInv, KnownInv, Known, OrderInv, ShapeInv, GoesOn, EndInv, FitInv,
      Follows, Drafts!Bound
<1>2. CASE Drafts!Next
  <2>1. ASSUME NEW text \in Texts \cup {Empty}, Drafts!Type(text) PROVE AgreeInv'
    BY <2>1, TypeAgrees
  <2>2. ASSUME NEW text \in Texts \cup {sync.text}, Drafts!CompositionEnd(text)
        PROVE  AgreeInv'
    BY <2>2, CompositionEndAgrees
  <2>3. CASE \/ \E text \in OthersTexts : Drafts!OtherEdits(text)
             \/ \E text \in OthersTexts \cup {Empty} : Drafts!Reopen(text)
             \/ Drafts!StrayEnds \/ Drafts!SubmitArrives \/ Drafts!Close
    BY <2>3, SessionAgrees
  <2>4. CASE Drafts!WriteArrives \/ Drafts!WriteRefused \/ Drafts!WriteLost
    BY <2>4, WritesAgree
  <2>5. CASE Drafts!Publish
    BY <2>5, PublishAgrees
  <2>6. CASE Drafts!Disconnect \/ Drafts!Reconnect
    BY <2>6, ConnectionAgrees
  <2>7. CASE Drafts!Read
    BY <2>7, ReadAgrees
  <2>8. CASE Drafts!Timer \/ Drafts!CompositionStart \/ Drafts!Answer \/ Drafts!PressSend
    BY <2>8, TabAgrees
  <2> QED
    BY <1>2, <2>1, <2>2, <2>3, <2>4, <2>5, <2>6, <2>7, <2>8 DEF Drafts!Next
<1> QED
  BY <1>1, <1>2

THEOREM AgreeHolds == PartsSpec => []AgreeInv
<1>1. PartsInit => AgreeInv
  BY AgreeStarts DEF PartsInit
<1>2. ASSUME DraftInv, AgreeInv, [PartsNext]_allVars PROVE AgreeInv'
  BY <1>2, AgreeKeeps DEF PartsNext, allVars
<1> QED
  BY <1>1, <1>2, DraftHolds, PTL DEF PartsSpec

(* A tab that has read all there is, and has nothing of its own under way, *)
(* shows the session's draft: no failed, late or overtaken write, no reset *)
(* and no lost stream leaves another text in its place (DraftSync.receive, *)
(* send, flush, releaseHeld).                                              *)
THEOREM DraftsAgreeOnceRead == PartsSpec => []DraftsAgree
<1>1. ASSUME DraftInv, AgreeInv, connected, stream = <<>>, hub = pane, pane.open
      PROVE  /\ Drafts!Bound
             /\ ~Drafts!Dirty(sync) /\ ~sync.composing /\ ~draft_misled /\ ~overlooked =>
                  sync.text = pane.draft.text
  <2>1. /\ Drafts!Bound
        /\ sync.server = pane.draft \/ draft_misled
    BY <1>1 DEF AgreeInv, EndInv
  <2>2. ASSUME ~Drafts!Dirty(sync), ~sync.composing, ~draft_misled, ~overlooked
        PROVE  sync.text = pane.draft.text
    <3>1. sync.server = pane.draft
      BY <2>1, <2>2
    <3>2. OfOneLife(sync) /\ ShowsLatest(sync)
      BY <3>1, <2>1, <2>2, <1>1 DEF AgreeInv, FitInv, Follows, Rests
    <3>3. /\ sync.saved \in Drafted /\ sync.server \in Drafted /\ sync.server.rev >= 0
          /\ Past(sync.saved, pane.draft)
      BY <2>1, <1>1 DEF DraftInv, SyncInv, SourceInv, Sourced, Synced
    <3>4. ~(sync.saved.rev > sync.server.rev)
      <4>1. CASE sync.saved = Drafts!NoDraft
        BY <4>1, <3>3, NoDraftIsOne DEF Drafted
      <4>2. CASE sync.saved # Drafts!NoDraft
        BY <4>2, <3>1, <3>2, <3>3 DEF OfOneLife, Past, Drafted
      <4> QED
        BY <4>1, <4>2
    <3> QED
      BY <3>1, <3>2, <3>4 DEF ShowsLatest, Drafts!LatestSaved
  <2> QED
    BY <2>1, <2>2
<1>2. AgreeInv /\ DraftInv => DraftsAgree
  BY <1>1 DEF DraftsAgree, Drafts!DraftsAgree
<1> QED
  BY <1>2, AgreeHolds, DraftHolds, PTL

-----------------------------------------------------------------------------
(* The hub.  Publications, and the sessions that those of a kind are of.   *)
Publications ==
       [kind : {"closed", "active", "change"}, session : Sessions]
  \cup [kind : {"opened"}, session : Sessions, entries : {0, Stored}, life : Nat]
  \cup [kind : {"inherit"}, session : Sessions, parent : Sessions]

Of(kind, seq) == {seq[i].session : i \in {j \in DOMAIN seq : seq[j].kind = kind}}

Shown(ps) == {ps[p].shows : p \in DOMAIN ps} \ {None}

HubPane == [shows : Sessions \cup {None}, opening : Sessions \cup {None}]

(* No session is in two panes.                                             *)
Apart(ps) ==
  /\ \A p \in DOMAIN ps : ps[p].opening = None \/ ps[p].opening # ps[p].shows
  /\ \A p, q \in DOMAIN ps : p # q =>
       /\ ps[p].shows = None \/ ps[p].shows \notin {ps[q].shows, ps[q].opening}
       /\ ps[p].opening = None \/ ps[p].opening \notin {ps[q].shows, ps[q].opening}

(* The order of activity lists every pane once.                            *)
Lists(r, D) ==
  /\ r \in Seq(D)
  /\ \A i, j \in DOMAIN r : r[i] = r[j] => i = j
  /\ \A p \in D : \E i \in DOMAIN r : r[i] = p

PanesOk(ps, r) ==
  ps \in [DOMAIN ps -> HubPane] /\ Apart(ps) /\ Lists(r, DOMAIN ps) /\ r # <<>>

FocusInv == panes[Hub!Last(recency)].shows \in {None, announced}

(* What is published and not yet folded makes the hub's sessions those     *)
(* that are shown, in whatever order it does.                              *)
LiveInv ==
  /\ published \in Seq(Publications) /\ events \in Nat
  /\ Of("closed", published) \cap Of("opened", published) = {}
  /\ (DOMAIN live \ Of("closed", published)) \cup Of("opened", published) = Shown(panes)

(* The session announced last becomes or stays the active one.             *)
AnnouncedInv ==
  /\ \A i \in DOMAIN published : published[i].kind = "active" =>
       i = Len(published) /\ published[i].session = announced /\ announced \in Shown(panes)
  /\ ~stale /\ Of("active", published) = {} =>
       active = announced /\ announced \notin Of("closed", published)

HubInv == PanesOk(panes, recency) /\ FocusInv /\ LiveInv /\ AnnouncedInv

LEMMA HubStarts == Hub!Init => HubInv
<1> SUFFICES ASSUME Hub!Init PROVE HubInv
  OBVIOUS
<1>1. PICK p \in Panes, s \in Sessions :
        /\ panes = [q \in {p} |-> Hub!Pane(s, None)] /\ recency = <<p>> /\ announced = s
        /\ published = <<>> /\ live = [r \in {s} |-> Hub!Projection(0, Stored)]
        /\ active = s /\ events = 0 /\ stale = FALSE
  BY DEF Hub!Init
<1>2. DOMAIN panes = {p} /\ panes[p].shows = s /\ panes[p].opening = None
  BY <1>1 DEF Hub!Pane
<1>3. recency \in Seq({p}) /\ recency # <<>> /\ DOMAIN recency = {1} /\ recency[1] = p
      /\ Len(recency) = 1
  BY <1>1
<1>4. PanesOk(panes, recency)
  <2>1. panes \in [{p} -> HubPane]
    BY <1>1 DEF Hub!Pane, HubPane
  <2>2. Apart(panes)
    BY <1>2, NoneIsNoSession DEF Apart
  <2>3. Lists(recency, {p})
    BY <1>3 DEF Lists
  <2> QED
    BY <2>1, <2>2, <2>3, <1>2, <1>3 DEF PanesOk
<1>5. FocusInv
  BY <1>1, <1>2, <1>3 DEF FocusInv, Hub!Last
<1>6. Of("closed", published) = {} /\ Of("opened", published) = {}
      /\ published \in Seq(Publications) /\ DOMAIN published = {}
  BY <1>1 DEF Of
<1>7. Shown(panes) = {s}
  BY <1>2, NoneIsNoSession DEF Shown
<1>8. LiveInv /\ AnnouncedInv
  BY <1>1, <1>6, <1>7 DEF LiveInv, AnnouncedInv
<1> QED
  BY <1>4, <1>5, <1>8 DEF HubInv

IsWithout(r, i, q) ==
  /\ Len(q) = Len(r) - 1
  /\ \A k \in DOMAIN q : q[k] = IF k < i THEN r[k] ELSE r[k + 1]

LEMMA RemovedAt ==
  ASSUME NEW S, NEW r \in Seq(S), NEW i \in DOMAIN r
  PROVE  Hub!RemoveAt(r, i) \in Seq(S) /\ IsWithout(r, i, Hub!RemoveAt(r, i))
<1> SUFFICES ASSUME NEW q, q = Hub!RemoveAt(r, i)
             PROVE  q \in Seq(S) /\ IsWithout(r, i, q)
  OBVIOUS
<1>1. i \in 1..Len(r) /\ Len(r) \in Nat
  OBVIOUS
<1>2. PICK a : a = SubSeq(r, 1, i - 1)
  OBVIOUS
<1>3. PICK b : b = SubSeq(r, i + 1, Len(r))
  OBVIOUS
<1>4. a \in Seq(S) /\ Len(a) = i - 1 /\ \A k \in 1..(i - 1) : a[k] = r[k]
  BY <1>1, <1>2
<1>5. b \in Seq(S) /\ Len(b) = Len(r) - i /\ \A k \in 1..(Len(r) - i) : b[k] = r[i + k]
  BY <1>1, <1>3
<1>6. q = a \o b
  BY <1>2, <1>3 DEF Hub!RemoveAt
<1>7. /\ q \in Seq(S) /\ Len(q) = Len(r) - 1
      /\ \A k \in 1..Len(q) : q[k] = IF k <= i - 1 THEN a[k] ELSE b[k - (i - 1)]
  <2>1. a \in Seq(S) /\ b \in Seq(S)
    BY <1>4, <1>5
  <2>2. q \in Seq(S) /\ Len(q) = Len(a) + Len(b)
    BY <2>1, <1>6
  <2>3. \A k \in 1..Len(q) : q[k] = IF k <= Len(a) THEN a[k] ELSE b[k - Len(a)]
    BY <2>1, <1>6
  <2>4. Len(q) = Len(r) - 1
    BY <2>2, <1>1, <1>4, <1>5
  <2> QED
    BY <2>2, <2>3, <2>4, <1>4
<1>8. ASSUME NEW k \in DOMAIN q PROVE q[k] = IF k < i THEN r[k] ELSE r[k + 1]
  <2>1. k \in 1..(Len(r) - 1)
    BY <1>7
  <2>2. CASE k < i
    <3>1. k \in 1..(i - 1) /\ k \in 1..Len(q) /\ k <= i - 1
      BY <2>1, <2>2, <1>1, <1>7
    <3>2. q[k] = a[k]
      BY <3>1, <1>7
    <3>3. a[k] = r[k]
      BY <3>1, <1>4
    <3> QED
      BY <3>2, <3>3, <2>2
  <2>3. CASE ~(k < i)
    <3>1. /\ k - (i - 1) \in 1..(Len(r) - i) /\ k \in 1..Len(q) /\ ~(k <= i - 1)
          /\ i + (k - (i - 1)) = k + 1
      BY <2>1, <2>3, <1>1, <1>7
    <3>2. q[k] = b[k - (i - 1)]
      BY <3>1, <1>7
    <3>3. b[k - (i - 1)] = r[i + (k - (i - 1))]
      BY <3>1, <1>5
    <3> QED
      BY <3>1, <3>2, <3>3, <2>3
  <2> QED
    BY <2>2, <2>3
<1> QED
  BY <1>7, <1>8 DEF IsWithout

(* A pane is in the list once, so what is left are the others.             *)
LEMMA DroppedLeaves ==
  ASSUME NEW D, NEW r, Lists(r, D), NEW p \in D, NEW q, q = Hub!Dropped(r, p)
  PROVE  Lists(q, D \ {p})
<1> USE DEF Lists
<1>1. PICK n : n = CHOOSE i \in DOMAIN r : r[i] = p
  OBVIOUS
<1>2. n \in DOMAIN r /\ r[n] = p /\ n \in 1..Len(r) /\ Len(r) \in Nat
  BY <1>1
<1>3. q = Hub!RemoveAt(r, n)
  BY <1>1 DEF Hub!Dropped
<1>4. /\ q \in Seq(D) /\ Len(q) = Len(r) - 1 /\ DOMAIN q = 1..(Len(r) - 1)
      /\ \A k \in DOMAIN q : q[k] = IF k < n THEN r[k] ELSE r[k + 1]
  <2>1. q \in Seq(D) /\ IsWithout(r, n, q)
    BY <1>2, <1>3, RemovedAt
  <2>2. DOMAIN q = 1..(Len(r) - 1)
    BY <2>1 DEF IsWithout
  <2> QED
    BY <2>1, <2>2 DEF IsWithout
<1> DEFINE from(k) == IF k < n THEN k ELSE k + 1
<1>5. ASSUME NEW k \in DOMAIN q
      PROVE  from(k) \in DOMAIN r /\ from(k) # n /\ q[k] = r[from(k)]
  <2>1. k \in 1..(Len(r) - 1) /\ n \in 1..Len(r) /\ Len(r) \in Nat
    BY <1>2, <1>4
  <2>2. from(k) \in 1..Len(r) /\ from(k) # n
    BY <2>1
  <2>3. q[k] = r[from(k)]
    BY <1>4
  <2>4. DOMAIN r = 1..Len(r)
    OBVIOUS
  <2> QED
    BY <2>2, <2>3, <2>4
<1>6. \A k \in DOMAIN q : q[k] \in D \ {p}
  BY <1>2, <1>4, <1>5
<1>7. q \in Seq(D \ {p})
  <2>1. q \in [1..Len(q) -> D \ {p}] /\ Len(q) \in Nat
    BY <1>4, <1>6
  <2> QED
    BY <2>1, SeqDef
<1>8. ASSUME NEW i \in DOMAIN q, NEW j \in DOMAIN q, q[i] = q[j] PROVE i = j
  <2>1. from(i) = from(j)
    <3>1. /\ from(i) \in DOMAIN r /\ from(j) \in DOMAIN r
          /\ q[i] = r[from(i)] /\ q[j] = r[from(j)]
      BY <1>5, <1>8
    <3> HIDE DEF from
    <3> QED
      BY <3>1, <1>8
  <2>2. i \in Int /\ j \in Int /\ n \in Int
    BY <1>2, <1>4
  <2> QED
    BY <2>1, <2>2
<1>9. ASSUME NEW x \in D \ {p} PROVE \E i \in DOMAIN q : q[i] = x
  <2>1. PICK m \in DOMAIN r : r[m] = x
    OBVIOUS
  <2>2. m # n /\ m \in 1..Len(r)
    BY <2>1, <1>2
  <2>3. PICK k : k = IF m < n THEN m ELSE m - 1
    OBVIOUS
  <2>4. /\ m \in 1..Len(r) /\ n \in 1..Len(r) /\ m # n /\ Len(r) \in Nat
        /\ DOMAIN q = 1..(Len(r) - 1)
    BY <2>2, <1>2, <1>4
  <2>5. k \in DOMAIN q /\ from(k) = m
    BY <2>3, <2>4
  <2> QED
    BY <2>1, <2>5, <1>5
<1> QED
  BY <1>7, <1>8, <1>9

LEMMA OfNothing == \A kind : Of(kind, <<>>) = {}
BY DEF Of

LEMMA OfConcatenation ==
  ASSUME NEW a \in Seq(Publications), NEW b \in Seq(Publications), NEW kind
  PROVE  Of(kind, a \o b) = Of(kind, a) \cup Of(kind, b)
<1>1. PICK ab : ab = a \o b
  OBVIOUS
<1>2. /\ ab \in Seq(Publications) /\ DOMAIN a = 1..Len(a) /\ DOMAIN b = 1..Len(b)
      /\ DOMAIN ab = 1..(Len(a) + Len(b)) /\ Len(a) \in Nat /\ Len(b) \in Nat
      /\ \A i \in DOMAIN ab : ab[i] = IF i <= Len(a) THEN a[i] ELSE b[i - Len(a)]
  BY <1>1
<1>3. ASSUME NEW x \in Of(kind, ab) PROVE x \in Of(kind, a) \cup Of(kind, b)
  <2>1. PICK i \in DOMAIN ab : ab[i].kind = kind /\ ab[i].session = x
    BY <1>3 DEF Of
  <2>2. CASE i <= Len(a)
    <3>1. i \in DOMAIN a /\ ab[i] = a[i]
      BY <1>2, <2>2
    <3> QED
      BY <2>1, <3>1 DEF Of
  <2>3. CASE ~(i <= Len(a))
    <3>1. i - Len(a) \in DOMAIN b /\ ab[i] = b[i - Len(a)]
      BY <1>2, <2>3
    <3> QED
      BY <2>1, <3>1 DEF Of
  <2> QED
    BY <2>2, <2>3
<1>4. ASSUME NEW x \in Of(kind, a) PROVE x \in Of(kind, ab)
  <2>1. PICK i \in DOMAIN a : a[i].kind = kind /\ a[i].session = x
    BY <1>4 DEF Of
  <2>2. i \in DOMAIN ab /\ ab[i] = a[i]
    BY <1>2
  <2> QED
    BY <2>1, <2>2 DEF Of
<1>5. ASSUME NEW x \in Of(kind, b) PROVE x \in Of(kind, ab)
  <2>1. PICK i \in DOMAIN b : b[i].kind = kind /\ b[i].session = x
    BY <1>5 DEF Of
  <2>2. PICK j : j = Len(a) + i
    OBVIOUS
  <2>3. i \in 1..Len(b) /\ j \in DOMAIN ab /\ ~(j <= Len(a)) /\ j - Len(a) = i
    BY <1>2, <2>2
  <2>4. ab[j] = b[i]
    BY <1>2, <2>3
  <2> QED
    BY <2>1, <2>3, <2>4 DEF Of
<1> QED
  BY <1>1, <1>3, <1>4, <1>5

(* What one step of the terminal publishes: its sessions are the hub's     *)
(* once all is folded, and the session in focus is announced.              *)
LEMMA PublishingKeeps ==
  ASSUME HubInv, NEW ps, NEW r, NEW pubs \in Seq(Publications), Hub!Publish(ps, r, pubs),
         PanesOk(ps, r), live' = live, active' = active, events' \in Nat,
         Of("active", pubs) = {}, Of("closed", pubs) \cap Of("opened", pubs) = {},
         Shown(ps) = (Shown(panes) \ Of("closed", pubs)) \cup Of("opened", pubs)
  PROVE  HubInv'
<1> DEFINE focus == ps[Hub!Last(r)].shows
           ann == Hub!Announced(ps, r)
<1>1. /\ panes' = ps /\ recency' = r /\ published = <<>> /\ published' = pubs \o ann
      /\ announced' = IF ann = <<>> THEN announced ELSE focus
      /\ stale' = /\ ann = <<>>
                  /\ \/ stale
                     \/ \E i \in DOMAIN published' :
                          published'[i].kind = "closed" /\ published'[i].session = announced
  BY DEF Hub!Publish
<1>2. Hub!Last(r) \in DOMAIN ps
  BY DEF PanesOk, Lists, Hub!Last
<1>3. focus \in Sessions \cup {None}
  BY <1>2 DEF PanesOk, HubPane
<1>4. /\ focus \in {None, announced} => ann = <<>>
      /\ focus \notin {None, announced} =>
           ann = <<[kind |-> "active", session |-> focus]>> /\ ann # <<>>
  BY DEF Hub!Announced
<1>5. focus \in {None, announced'}
  BY <1>1, <1>4
<1>6. /\ ann \in Seq(Publications)
      /\ Of("closed", ann) = {} /\ Of("opened", ann) = {}
      /\ Of("active", ann) = {} => ann = <<>>
  <2>1. CASE focus \in {None, announced}
    BY <2>1, <1>4, OfNothing, EmptySeq
  <2>2. CASE focus \notin {None, announced}
    <3>1. PICK x : x = [kind |-> "active", session |-> focus]
      OBVIOUS
    <3>2. x \in Publications /\ x.kind = "active" /\ x.session = focus
      BY <3>1, <2>2, <1>3 DEF Publications
    <3>3. ann = <<x>>
      BY <3>1, <2>2, <1>4
    <3>4. ann \in Seq(Publications) /\ DOMAIN ann = {1} /\ ann[1] = x
      BY <3>2, <3>3
    <3> HIDE DEF ann
    <3> QED
      BY <3>2, <3>4 DEF Of
  <2> QED
    BY <2>1, <2>2
<1> HIDE DEF ann
<1>7. published' \in Seq(Publications)
  BY <1>1, <1>6
<1>8. /\ Of("closed", published') = Of("closed", pubs)
      /\ Of("opened", published') = Of("opened", pubs)
      /\ Of("active", published') = Of("active", ann)
  <2>1. \A kind : Of(kind, pubs \o ann) = Of(kind, pubs) \cup Of(kind, ann)
    BY <1>6, OfConcatenation
  <2> QED
    BY <2>1, <1>1, <1>6
<1>9. DOMAIN live = Shown(panes)
  BY <1>1, OfNothing DEF HubInv, LiveInv
<1>10. LiveInv'
  <2>1. (DOMAIN live \ Of("closed", published')) \cup Of("opened", published') = Shown(panes')
    BY <1>1, <1>8, <1>9
  <2> QED
    BY <2>1, <1>7, <1>8 DEF LiveInv, Of
<1>11. AnnouncedInv'
  <2>1. ASSUME NEW i \in DOMAIN published', published'[i].kind = "active"
        PROVE  i = Len(published') /\ published'[i].session = announced'
               /\ announced' \in Shown(panes')
    <3>1. /\ DOMAIN pubs = 1..Len(pubs) /\ Len(pubs) \in Nat /\ Len(ann) \in Nat
          /\ Len(published') = Len(pubs) + Len(ann) /\ DOMAIN published' = 1..Len(published')
          /\ published'[i] = IF i <= Len(pubs) THEN pubs[i] ELSE ann[i - Len(pubs)]
      BY <1>1, <1>6
    <3>2. ~(i <= Len(pubs))
      <4>1. SUFFICES ASSUME i <= Len(pubs) PROVE FALSE
        OBVIOUS
      <4>2. i \in DOMAIN pubs
        <5>1. i \in 1..(Len(pubs) + Len(ann))
          BY <3>1, <2>1
        <5>2. i \in 1..Len(pubs)
          BY <5>1, <4>1, <3>1
        <5> QED
          BY <5>2, <3>1
      <4>3. published'[i] = pubs[i]
        BY <4>1, <3>1
      <4>4. pubs[i].kind = "active"
        BY <4>3, <2>1
      <4>5. pubs[i].session \in Of("active", pubs)
        BY <4>2, <4>4 DEF Of
      <4> QED
        BY <4>5
    <3>3. ann # <<>> /\ focus \notin {None, announced}
      BY <3>1, <3>2, <1>4, <1>6
    <3>4. ann = <<[kind |-> "active", session |-> focus]>>
      BY <3>3, <1>4
    <3>5. i = Len(pubs) + 1 /\ Len(ann) = 1
      BY <3>1, <3>2, <3>4
    <3>6. published'[i].session = focus
      BY <3>1, <3>2, <3>4, <3>5
    <3>7. focus \in Shown(ps)
      BY <3>3, <1>2 DEF Shown
    <3> QED
      BY <3>1, <3>3, <3>5, <3>6, <3>7, <1>1
  <2>2. ASSUME ~stale', Of("active", published') = {}
        PROVE  active' = announced' /\ announced' \notin Of("closed", published')
    <3>1. ann = <<>> /\ announced' = announced
      BY <2>2, <1>1, <1>6, <1>8
    <3>2. ~stale /\ announced \notin Of("closed", published')
      BY <2>2, <3>1, <1>1 DEF Of
    <3>3. Of("active", published) = {}
      BY <1>1 DEF Of
    <3> QED
      BY <3>1, <3>2, <3>3 DEF HubInv, AnnouncedInv
  <2> QED
    BY <2>1, <2>2 DEF AnnouncedInv, Of
<1>12. FocusInv' /\ PanesOk(panes, recency)'
  BY <1>1, <1>5 DEF FocusInv, PanesOk, Hub!Last
<1> QED
  BY <1>10, <1>11, <1>12 DEF HubInv

LEMMA OfOne ==
  ASSUME NEW x \in Publications
  PROVE  /\ <<x>> \in Seq(Publications)
         /\ \A kind : Of(kind, <<x>>) = IF x.kind = kind THEN {x.session} ELSE {}
<1>1. PICK seq : seq = <<x>>
  OBVIOUS
<1>2. seq \in Seq(Publications) /\ DOMAIN seq = {1} /\ seq[1] = x
  BY <1>1
<1> QED
  BY <1>1, <1>2 DEF Of

(* The publications of an opening.                                         *)
LEMMA ClosedOfIs ==
  ASSUME NEW s \in Sessions \cup {None}
  PROVE  /\ Hub!ClosedOf(s) \in Seq(Publications)
         /\ Of("closed", Hub!ClosedOf(s)) = {s} \ {None}
         /\ Of("opened", Hub!ClosedOf(s)) = {} /\ Of("active", Hub!ClosedOf(s)) = {}
<1>1. CASE s = None
  BY <1>1, OfNothing, EmptySeq DEF Hub!ClosedOf
<1>2. CASE s # None
  <2>1. PICK x : x = [kind |-> "closed", session |-> s]
    OBVIOUS
  <2>2. x \in Publications /\ x.kind = "closed" /\ x.session = s
    BY <2>1, <1>2 DEF Publications
  <2>3. Hub!ClosedOf(s) = <<x>>
    BY <2>1, <1>2 DEF Hub!ClosedOf
  <2> QED
    BY <2>2, <2>3, <1>2, OfOne
<1> QED
  BY <1>1, <1>2

LEMMA OpenedOfIs ==
  ASSUME NEW s \in Sessions, NEW n \in {0, Stored}, events \in Nat
  PROVE  /\ Hub!OpenedOf(s, n) \in Seq(Publications)
         /\ Of("opened", Hub!OpenedOf(s, n)) = {s}
         /\ Of("closed", Hub!OpenedOf(s, n)) = {} /\ Of("active", Hub!OpenedOf(s, n)) = {}
<1>1. PICK x : x = [kind |-> "opened", session |-> s, entries |-> n, life |-> events]
  OBVIOUS
<1>2. x \in Publications /\ x.kind = "opened" /\ x.session = s
  BY <1>1 DEF Publications
<1>3. Hub!OpenedOf(s, n) = <<x>>
  BY <1>1 DEF Hub!OpenedOf
<1> QED
  BY <1>2, <1>3, OfOne

LEMMA InheritOfIs ==
  ASSUME NEW s \in Sessions, NEW parent \in Sessions \cup {None}
  PROVE  /\ Hub!InheritOf(s, parent) \in Seq(Publications)
         /\ Of("opened", Hub!InheritOf(s, parent)) = {}
         /\ Of("closed", Hub!InheritOf(s, parent)) = {}
         /\ Of("active", Hub!InheritOf(s, parent)) = {}
<1>1. CASE parent = None
  BY <1>1, OfNothing, EmptySeq DEF Hub!InheritOf
<1>2. CASE parent # None
  <2>1. PICK x : x = [kind |-> "inherit", session |-> s, parent |-> parent]
    OBVIOUS
  <2>2. x \in Publications /\ x.kind = "inherit"
    BY <2>1, <1>2 DEF Publications
  <2>3. Hub!InheritOf(s, parent) = <<x>>
    BY <2>1, <1>2 DEF Hub!InheritOf
  <2> QED
    BY <2>2, <2>3, OfOne
<1> QED
  BY <1>1, <1>2

-----------------------------------------------------------------------------
(* Steps of the terminal.  Without publications of sessions that open and  *)
(* close, the same sessions are shown.                                     *)
LEMMA QuietPublishKeeps ==
  ASSUME HubInv, NEW ps, NEW r, Hub!Publish(ps, r, <<>>), PanesOk(ps, r),
         Hub!HubWaits, events' \in Nat, Shown(ps) = Shown(panes)
  PROVE  HubInv'
<1>1. <<>> \in Seq(Publications)
  BY EmptySeq
<1>2. live' = live /\ active' = active
  BY DEF Hub!HubWaits, Hub!hubVars
<1> QED
  BY <1>1, <1>2, OfNothing, PublishingKeeps

LEMMA BeginOpenKeeps ==
  ASSUME HubInv, NEW p \in Panes, NEW s \in Sessions, Hub!BeginOpen(p, s)
  PROVE  HubInv'
<1> DEFINE D == DOMAIN panes
           ps == [q \in D \cup {p} |-> IF q = p THEN Hub!Pane(None, s) ELSE panes[q]]
           r == Append(recency, p)
<1>1. /\ PanesOk(panes, recency) /\ p \notin D /\ events \in Nat
      /\ events' = events + 1 /\ Hub!HubWaits /\ Hub!Publish(ps, r, <<>>)
      /\ \A q \in D : s \notin {panes[q].shows, panes[q].opening}
  BY DEF HubInv, LiveInv, Hub!BeginOpen, Hub!InUse
<1>2. /\ DOMAIN ps = D \cup {p} /\ ps[p].shows = None /\ ps[p].opening = s
      /\ \A q \in D : ps[q] = panes[q]
  BY <1>1 DEF Hub!Pane
<1>3. ps \in [D \cup {p} -> HubPane]
  BY <1>1 DEF PanesOk, Hub!Pane, HubPane
<1>4. Lists(r, D \cup {p}) /\ r # <<>>
  <2>1. /\ recency \in Seq(D) /\ Len(recency) \in Nat /\ DOMAIN recency = 1..Len(recency)
        /\ \A i \in DOMAIN recency : recency[i] \in D
        /\ \A i, j \in DOMAIN recency : recency[i] = recency[j] => i = j
        /\ \A q \in D : \E i \in DOMAIN recency : recency[i] = q
    BY <1>1 DEF PanesOk, Lists
  <2>2. /\ r \in Seq(D \cup {p}) /\ DOMAIN r = 1..(Len(recency) + 1) /\ r # <<>>
        /\ r[Len(recency) + 1] = p /\ \A i \in DOMAIN recency : r[i] = recency[i]
    BY <2>1
  <2> HIDE DEF r
  <2>3. \A i, j \in DOMAIN r : r[i] = r[j] => i = j
    BY <1>1, <2>1, <2>2
  <2>4. \A q \in D \cup {p} : \E i \in DOMAIN r : r[i] = q
    BY <2>1, <2>2
  <2> QED
    BY <2>2, <2>3, <2>4 DEF Lists
<1> HIDE DEF ps, r
<1>5. Apart(ps)
  BY <1>1, <1>2, NoneIsNoSession DEF Apart, PanesOk
<1>6. PanesOk(ps, r)
  BY <1>2, <1>3, <1>4, <1>5 DEF PanesOk
<1>8. Shown(ps) = Shown(panes)
  BY <1>2 DEF Shown
<1> QED
  BY <1>1, <1>6, <1>8, QuietPublishKeeps

LEMMA BeginReplaceKeeps ==
  ASSUME HubInv, NEW p \in Panes, NEW s \in Sessions, Hub!BeginReplace(p, s)
  PROVE  HubInv'
<1> DEFINE ps == [panes EXCEPT ![p].opening = s]
<1>1. /\ PanesOk(panes, recency) /\ p \in DOMAIN panes /\ events \in Nat
      /\ events' = events + 1 /\ Hub!HubWaits /\ Hub!Publish(ps, recency, <<>>)
      /\ \A q \in DOMAIN panes : s \notin {panes[q].shows, panes[q].opening}
  BY DEF HubInv, LiveInv, Hub!BeginReplace, Hub!InUse
<1>2. /\ DOMAIN ps = DOMAIN panes
      /\ ps[p].shows = panes[p].shows /\ ps[p].opening = s
      /\ \A q \in DOMAIN panes : q # p => ps[q] = panes[q]
      /\ ps \in [DOMAIN ps -> HubPane]
  BY <1>1 DEF PanesOk, HubPane
<1> HIDE DEF ps
<1>3. Apart(ps)
  <2>1. \A q \in DOMAIN ps : ps[q].opening = None \/ ps[q].opening # ps[q].shows
    BY <1>1, <1>2 DEF Apart, PanesOk
  <2>2. ASSUME NEW a \in DOMAIN ps, NEW b \in DOMAIN ps, a # b
        PROVE  /\ ps[a].shows = None \/ ps[a].shows \notin {ps[b].shows, ps[b].opening}
               /\ ps[a].opening = None \/ ps[a].opening \notin {ps[b].shows, ps[b].opening}
    <3>1. /\ panes[a].shows = None \/ panes[a].shows \notin {panes[b].shows, panes[b].opening}
          /\ panes[a].opening = None
               \/ panes[a].opening \notin {panes[b].shows, panes[b].opening}
      BY <1>1, <1>2, <2>2 DEF Apart, PanesOk
    <3> QED
      BY <3>1, <1>1, <1>2, <2>2
  <2> QED
    BY <2>1, <2>2 DEF Apart
<1>4. PanesOk(ps, recency)
  BY <1>1, <1>2, <1>3 DEF PanesOk
<1>5. Shown(ps) = Shown(panes)
  BY <1>2 DEF Shown
<1> QED
  BY <1>1, <1>4, <1>5, QuietPublishKeeps

LEMMA OpenedKeeps ==
  ASSUME HubInv, NEW p \in Panes, NEW n \in {0, Stored}, NEW parent \in Sessions \cup {None},
         Hub!Opened(p, n, parent)
  PROVE  HubInv'
<1> DEFINE ps == [panes EXCEPT ![p] = Hub!Pane(@.opening, None)]
           was == panes[p].shows
           s == panes[p].opening
           a == Hub!ClosedOf(was)
           b == Hub!OpenedOf(s, n)
           c == Hub!InheritOf(s, parent)
           pubs == a \o b \o c
<1>1. /\ PanesOk(panes, recency) /\ p \in DOMAIN panes /\ events \in Nat
      /\ events' = events /\ Hub!HubWaits /\ Hub!Publish(ps, recency, pubs)
      /\ s # None
  BY DEF HubInv, LiveInv, Hub!Opened
<1>2. /\ panes \in [DOMAIN panes -> HubPane] /\ panes[p] \in HubPane
      /\ s \in Sessions /\ was \in Sessions \cup {None} /\ s # was
  BY <1>1 DEF PanesOk, Apart, HubPane
<1>3. /\ DOMAIN ps = DOMAIN panes /\ ps[p].shows = s /\ ps[p].opening = None
      /\ \A q \in DOMAIN panes : q # p => ps[q] = panes[q]
      /\ ps \in [DOMAIN ps -> HubPane]
  BY <1>1, <1>2 DEF HubPane, Hub!Pane
<1>4. \A q \in DOMAIN panes : q # p =>
        /\ s \notin {panes[q].shows, panes[q].opening}
        /\ was = None \/ was \notin {panes[q].shows, panes[q].opening}
        /\ panes[q].shows # s /\ panes[q].opening # s
  BY <1>1 DEF PanesOk, Apart
<1>5. /\ a \in Seq(Publications) /\ Of("closed", a) = {was} \ {None}
      /\ Of("opened", a) = {} /\ Of("active", a) = {}
  BY <1>2, ClosedOfIs
<1>6. /\ b \in Seq(Publications) /\ Of("opened", b) = {s}
      /\ Of("closed", b) = {} /\ Of("active", b) = {}
  BY <1>1, <1>2, OpenedOfIs
<1>7. /\ c \in Seq(Publications) /\ Of("opened", c) = {}
      /\ Of("closed", c) = {} /\ Of("active", c) = {}
  BY <1>2, InheritOfIs
<1> HIDE DEF a, b, c, ps
<1>8. /\ pubs \in Seq(Publications) /\ Of("closed", pubs) = {was} \ {None}
      /\ Of("opened", pubs) = {s} /\ Of("active", pubs) = {}
  <2>1. PICK ab : ab = a \o b
    OBVIOUS
  <2>2. ab \in Seq(Publications) /\ \A kind : Of(kind, ab) = Of(kind, a) \cup Of(kind, b)
    BY <2>1, <1>5, <1>6, OfConcatenation
  <2>3. pubs = ab \o c
    BY <2>1
  <2>4. pubs \in Seq(Publications) /\ \A kind : Of(kind, pubs) = Of(kind, ab) \cup Of(kind, c)
    BY <2>2, <2>3, <1>7, OfConcatenation
  <2> QED
    BY <2>2, <2>4, <1>5, <1>6, <1>7
<1> HIDE DEF pubs
<1>9. Apart(ps)
  <2>1. \A q \in DOMAIN ps : ps[q].opening = None \/ ps[q].opening # ps[q].shows
    BY <1>1, <1>3 DEF Apart, PanesOk
  <2>2. ASSUME NEW x \in DOMAIN ps, NEW y \in DOMAIN ps, x # y
        PROVE  /\ ps[x].shows = None \/ ps[x].shows \notin {ps[y].shows, ps[y].opening}
               /\ ps[x].opening = None \/ ps[x].opening \notin {ps[y].shows, ps[y].opening}
    <3>1. /\ panes[x].shows = None \/ panes[x].shows \notin {panes[y].shows, panes[y].opening}
          /\ panes[x].opening = None
               \/ panes[x].opening \notin {panes[y].shows, panes[y].opening}
      BY <1>1, <1>3, <2>2 DEF Apart, PanesOk
    <3> QED
      BY <3>1, <1>1, <1>3, <1>4, <2>2
  <2> QED
    BY <2>1, <2>2 DEF Apart
<1>10. PanesOk(ps, recency)
  BY <1>1, <1>3, <1>9 DEF PanesOk
<1>11. Shown(ps) = (Shown(panes) \ Of("closed", pubs)) \cup Of("opened", pubs)
  <2>1. ASSUME NEW x \in Shown(ps) PROVE x \in (Shown(panes) \ ({was} \ {None})) \cup {s}
    BY <2>1, <1>1, <1>3, <1>4 DEF Shown
  <2>2. ASSUME NEW x \in (Shown(panes) \ ({was} \ {None})) \cup {s} PROVE x \in Shown(ps)
    <3>1. CASE x = s
      BY <3>1, <1>1, <1>3 DEF Shown
    <3>2. CASE x # s
      <4>1. PICK q \in DOMAIN panes : panes[q].shows = x /\ x # None /\ x # was
        BY <2>2, <3>2 DEF Shown
      <4> QED
        BY <4>1, <1>3 DEF Shown
    <3> QED
      BY <3>1, <3>2
  <2> QED
    BY <2>1, <2>2, <1>8
<1>12. live' = live /\ active' = active /\ events' \in Nat
  BY <1>1 DEF Hub!HubWaits, Hub!hubVars
<1> QED
  BY <1>1, <1>2, <1>8, <1>10, <1>11, <1>12, PublishingKeeps

(* A pane goes; another is left.                                           *)
LEMMA WithoutLeaves ==
  ASSUME PanesOk(panes, recency), NEW p \in DOMAIN panes, DOMAIN panes # {p}
  PROVE  /\ PanesOk(Hub!Without(p), Hub!Dropped(recency, p))
         /\ Shown(Hub!Without(p)) = Shown(panes) \ {panes[p].shows}
<1> DEFINE D == DOMAIN panes
           ps == Hub!Without(p)
           r == Hub!Dropped(recency, p)
<1>1. DOMAIN ps = D \ {p} /\ \A q \in D \ {p} : ps[q] = panes[q]
  BY DEF Hub!Without
<1>2. ps \in [D \ {p} -> HubPane]
  BY DEF Hub!Without, PanesOk
<1>3. Lists(r, D \ {p})
  BY DroppedLeaves DEF PanesOk
<1> HIDE DEF ps, r
<1>4. PICK q \in D : q # p
  OBVIOUS
<1>5. r # <<>>
  BY <1>3, <1>4 DEF Lists
<1>6. Apart(ps)
  BY <1>1 DEF Apart, PanesOk
<1>7. PanesOk(ps, r)
  BY <1>1, <1>2, <1>3, <1>5, <1>6 DEF PanesOk
<1>8. Shown(ps) = Shown(panes) \ {panes[p].shows}
  <2>1. \A x \in D : x # p /\ panes[x].shows # None => panes[x].shows # panes[p].shows
    BY DEF PanesOk, Apart
  <2> QED
    BY <2>1, <1>1 DEF Shown
<1> QED
  BY <1>7, <1>8 DEF ps, r

LEMMA OpenFailedKeeps ==
  ASSUME HubInv, NEW p \in Panes, Hub!OpenFailed(p)
  PROVE  HubInv'
<1>1. /\ PanesOk(panes, recency) /\ p \in DOMAIN panes /\ events \in Nat
      /\ events' = events /\ Hub!HubWaits
  BY DEF HubInv, LiveInv, Hub!OpenFailed
<1>2. CASE panes[p].shows # None
  <2> DEFINE ps == [panes EXCEPT ![p].opening = None]
  <2>1. Hub!Publish(ps, recency, <<>>)
    BY <1>2 DEF Hub!OpenFailed
  <2>2. /\ DOMAIN ps = DOMAIN panes
        /\ ps[p].shows = panes[p].shows /\ ps[p].opening = None
        /\ \A q \in DOMAIN panes : q # p => ps[q] = panes[q]
        /\ ps \in [DOMAIN ps -> HubPane]
    BY <1>1 DEF PanesOk, HubPane
  <2> HIDE DEF ps
  <2>3. Apart(ps)
    <3>1. \A q \in DOMAIN ps : /\ ps[q].shows = panes[q].shows
                               /\ ps[q].opening \in {None, panes[q].opening}
      BY <1>1, <2>2
    <3> QED
      BY <3>1, <1>1, <2>2 DEF Apart, PanesOk
  <2>4. PanesOk(ps, recency)
    BY <1>1, <2>2, <2>3 DEF PanesOk
  <2>5. Shown(ps) = Shown(panes)
    BY <2>2 DEF Shown
  <2> QED
    BY <1>1, <2>1, <2>4, <2>5, QuietPublishKeeps
<1>3. CASE panes[p].shows = None
  <2>1. /\ DOMAIN panes # {p}
        /\ Hub!Publish(Hub!Without(p), Hub!Dropped(recency, p), <<>>)
    BY <1>3 DEF Hub!OpenFailed
  <2>2. /\ PanesOk(Hub!Without(p), Hub!Dropped(recency, p))
        /\ Shown(Hub!Without(p)) = Shown(panes) \ {None}
    BY <1>1, <1>3, <2>1, WithoutLeaves
  <2>3. Shown(panes) \ {None} = Shown(panes)
    BY DEF Shown
  <2> QED
    BY <1>1, <2>1, <2>2, <2>3, QuietPublishKeeps
<1> QED
  BY <1>2, <1>3

LEMMA ClosePaneKeeps ==
  ASSUME HubInv, NEW p \in Panes, Hub!ClosePane(p)
  PROVE  HubInv'
<1> DEFINE pubs == Hub!ClosedOf(panes[p].shows)
<1>1. /\ PanesOk(panes, recency) /\ p \in DOMAIN panes /\ events \in Nat
      /\ events' = events /\ Hub!HubWaits /\ DOMAIN panes # {p}
      /\ Hub!Publish(Hub!Without(p), Hub!Dropped(recency, p), pubs)
  BY DEF HubInv, LiveInv, Hub!ClosePane
<1>2. panes[p].shows \in Sessions \cup {None}
  BY <1>1 DEF PanesOk, HubPane
<1>3. /\ pubs \in Seq(Publications) /\ Of("closed", pubs) = {panes[p].shows} \ {None}
      /\ Of("opened", pubs) = {} /\ Of("active", pubs) = {}
  BY <1>2, ClosedOfIs
<1> HIDE DEF pubs
<1>4. /\ PanesOk(Hub!Without(p), Hub!Dropped(recency, p))
      /\ Shown(Hub!Without(p)) = Shown(panes) \ {panes[p].shows}
  BY <1>1, WithoutLeaves
<1>5. Shown(Hub!Without(p)) = (Shown(panes) \ Of("closed", pubs)) \cup Of("opened", pubs)
  BY <1>3, <1>4 DEF Shown
<1>6. live' = live /\ active' = active /\ events' \in Nat
  BY <1>1 DEF Hub!HubWaits, Hub!hubVars
<1>7. Of("closed", pubs) \cap Of("opened", pubs) = {}
  BY <1>3
<1> QED
  BY <1>1, <1>3, <1>4, <1>5, <1>6, <1>7, PublishingKeeps

LEMMA ActivateKeeps ==
  ASSUME HubInv, NEW p \in Panes, Hub!Activate(p)
  PROVE  HubInv'
<1> DEFINE D == DOMAIN panes
           q == Hub!Dropped(recency, p)
           r == Append(q, p)
<1>1. /\ PanesOk(panes, recency) /\ p \in D /\ events' \in Nat /\ Hub!HubWaits
      /\ Hub!Publish(panes, r, <<>>)
  BY DEF HubInv, LiveInv, Hub!Activate, Hub!Activated
<1>2. Lists(q, D \ {p})
  BY <1>1, DroppedLeaves DEF PanesOk
<1> HIDE DEF q
<1>3. /\ q \in Seq(D) /\ Len(q) \in Nat /\ DOMAIN q = 1..Len(q)
      /\ \A i \in DOMAIN q : q[i] \in D \ {p}
      /\ \A i, j \in DOMAIN q : q[i] = q[j] => i = j
      /\ \A x \in D \ {p} : \E i \in DOMAIN q : q[i] = x
  <2>1. q \in Seq(D \ {p})
    BY <1>2 DEF Lists
  <2>2. q \in Seq(D)
    BY <2>1, SeqMonotonic
  <2> QED
    BY <2>1, <2>2, <1>2 DEF Lists
<1>4. /\ r \in Seq(D) /\ DOMAIN r = 1..(Len(q) + 1) /\ r # <<>>
      /\ r[Len(q) + 1] = p /\ \A i \in DOMAIN q : r[i] = q[i]
  BY <1>1, <1>3
<1> HIDE DEF r
<1>5. \A i, j \in DOMAIN r : r[i] = r[j] => i = j
  BY <1>3, <1>4
<1>6. \A x \in D : \E i \in DOMAIN r : r[i] = x
  <2>1. ASSUME NEW x \in D PROVE \E i \in DOMAIN r : r[i] = x
    <3>1. CASE x = p
      BY <3>1, <1>3, <1>4
    <3>2. CASE x # p
      BY <3>2, <1>3, <1>4
    <3> QED
      BY <3>1, <3>2
  <2> QED
    BY <2>1
<1>7. PanesOk(panes, r)
  BY <1>1, <1>4, <1>5, <1>6 DEF PanesOk, Lists
<1> QED
  BY <1>1, <1>7, QuietPublishKeeps

LEMMA WorkKeeps ==
  ASSUME HubInv, NEW p \in Panes, Hub!Work(p)
  PROVE  HubInv'
<1>1. PICK x : x = [kind |-> "change", session |-> panes[p].shows]
  OBVIOUS
<1>2. /\ PanesOk(panes, recency) /\ p \in DOMAIN panes /\ events \in Nat
      /\ events' = events + 1 /\ live' = live /\ active' = active
      /\ panes[p].shows # None /\ Hub!Publish(panes, recency, <<x>>)
  BY <1>1 DEF HubInv, LiveInv, Hub!Work, Hub!hubVars
<1>3. panes[p].shows \in Sessions
  BY <1>2 DEF PanesOk, HubPane
<1>4. x \in Publications /\ x.kind = "change"
  BY <1>1, <1>3 DEF Publications
<1>5. /\ <<x>> \in Seq(Publications) /\ Of("closed", <<x>>) = {}
      /\ Of("opened", <<x>>) = {} /\ Of("active", <<x>>) = {}
  BY <1>4, OfOne
<1>6. /\ Of("closed", <<x>>) \cap Of("opened", <<x>>) = {}
      /\ Shown(panes) = (Shown(panes) \ Of("closed", <<x>>)) \cup Of("opened", <<x>>)
      /\ events' \in Nat
  BY <1>2, <1>5
<1> QED
  BY <1>2, <1>5, <1>6, PublishingKeeps

(* The hub takes the first publication.                                    *)
LEMMA OfHead ==
  ASSUME NEW all \in Seq(Publications), all # <<>>, NEW kind
  PROVE  /\ Head(all) \in Publications /\ Tail(all) \in Seq(Publications)
         /\ Of(kind, all) = Of(kind, Tail(all))
              \cup (IF Head(all).kind = kind THEN {Head(all).session} ELSE {})
<1>1. PICK x : x = Head(all)
  OBVIOUS
<1>2. PICK rest : rest = Tail(all)
  OBVIOUS
<1>3. /\ x \in Publications /\ rest \in Seq(Publications) /\ <<x>> \in Seq(Publications)
      /\ all = <<x>> \o rest
  BY <1>1, <1>2
<1>4. Of(kind, all) = Of(kind, <<x>>) \cup Of(kind, rest)
  BY <1>3, OfConcatenation
<1> QED
  BY <1>1, <1>2, <1>3, <1>4, OfOne

LEMMA LivesAfterIs ==
  ASSUME NEW x \in Publications, NEW l \in Hub!LivesAfter(x)
  PROVE  DOMAIN l = IF x.kind = "opened" THEN DOMAIN live \cup {x.session}
                    ELSE IF x.kind = "closed" THEN DOMAIN live \ {x.session}
                    ELSE DOMAIN live
<1> DEFINE s == x.session
<1>1. CASE x.kind = "opened"
  <2>1. l = Hub!Live(s, Hub!Projection(x.life, x.entries))
    BY <1>1 DEF Hub!LivesAfter
  <2> QED
    BY <2>1, <1>1 DEF Hub!Live
<1>2. CASE x.kind # "opened" /\ s \notin DOMAIN live
  <2>1. l = live
    BY <1>2 DEF Hub!LivesAfter
  <2> QED
    BY <2>1, <1>2
<1>3. CASE s \in DOMAIN live /\ x.kind = "closed"
  <2>1. l = [r \in DOMAIN live \ {s} |-> live[r]]
    BY <1>3 DEF Hub!LivesAfter
  <2> QED
    BY <2>1, <1>3
<1>4. CASE s \in DOMAIN live /\ x.kind = "change"
  <2>1. PICK c \in Hub!Changed(live[s]) : l = Hub!Live(s, c)
    BY <1>4 DEF Hub!LivesAfter
  <2> QED
    BY <2>1, <1>4 DEF Hub!Live
<1>5. CASE s \in DOMAIN live /\ x.kind = "inherit"
  <2>1. CASE x.parent \in DOMAIN live
    <3>1. l = [live EXCEPT ![s].entries = live[x.parent].entries,
                           ![s].next = live[x.parent].next]
      BY <1>5, <2>1 DEF Hub!LivesAfter
    <3> QED
      BY <3>1, <1>5
  <2>2. CASE x.parent \notin DOMAIN live
    <3>1. l = live
      BY <1>5, <2>2 DEF Hub!LivesAfter
    <3> QED
      BY <3>1, <1>5
  <2> QED
    BY <2>1, <2>2
<1>6. CASE s \in DOMAIN live /\ x.kind = "active"
  <2>1. l = live
    BY <1>6 DEF Hub!LivesAfter
  <2> QED
    BY <2>1, <1>6
<1> QED
  BY <1>1, <1>2, <1>3, <1>4, <1>5, <1>6 DEF Publications

LEMMA FoldKeeps ==
  ASSUME HubInv, Hub!Fold
  PROVE  HubInv'
<1>1. PICK x : x = Head(published)
  OBVIOUS
<1>2. /\ published # <<>> /\ published' = Tail(published)
      /\ live' \in Hub!LivesAfter(x) /\ active' = Hub!ActiveAfter(x)
      /\ UNCHANGED <<panes, recency, announced, events, stale>>
  BY <1>1 DEF Hub!Fold, Hub!historyVars
<1>3. published \in Seq(Publications) /\ events \in Nat
  BY DEF HubInv, LiveInv
<1>4. /\ x \in Publications /\ published' \in Seq(Publications)
      /\ \A kind : Of(kind, published) = Of(kind, published')
                       \cup (IF x.kind = kind THEN {x.session} ELSE {})
  BY <1>1, <1>2, <1>3, OfHead
<1>5. /\ Len(published) \in Nat \ {0} /\ Len(published') = Len(published) - 1
      /\ DOMAIN published' = 1..(Len(published) - 1) /\ DOMAIN published = 1..Len(published)
      /\ \A i \in DOMAIN published' : published'[i] = published[i + 1]
      /\ published[1] = x
  BY <1>1, <1>2, <1>3
<1>6. DOMAIN live' = IF x.kind = "opened" THEN DOMAIN live \cup {x.session}
                     ELSE IF x.kind = "closed" THEN DOMAIN live \ {x.session}
                     ELSE DOMAIN live
  BY <1>2, <1>4, LivesAfterIs
<1> DEFINE C == Of("closed", published)
           O == Of("opened", published)
           A == Of("active", published)
           after(k) == Of(k, published')
<1>7. /\ C = after("closed") \cup (IF x.kind = "closed" THEN {x.session} ELSE {})
      /\ O = after("opened") \cup (IF x.kind = "opened" THEN {x.session} ELSE {})
      /\ A = after("active") \cup (IF x.kind = "active" THEN {x.session} ELSE {})
  BY <1>4
<1>8. C \cap O = {} /\ (DOMAIN live \ C) \cup O = Shown(panes)
  BY DEF HubInv, LiveInv
<1>9. LiveInv'
  <2> HIDE DEF C, O, A, after
  <2>1. after("closed") \cap after("opened") = {}
    BY <1>7, <1>8
  <2>2. (DOMAIN live' \ after("closed")) \cup after("opened")
          = (DOMAIN live \ C) \cup O
    <3>1. CASE x.kind = "opened"
      BY <3>1, <1>6, <1>7, <1>8
    <3>2. CASE x.kind = "closed"
      BY <3>2, <1>6, <1>7, <1>8
    <3>3. CASE x.kind \notin {"opened", "closed"}
      BY <3>3, <1>6, <1>7, <1>8
    <3> QED
      BY <3>1, <3>2, <3>3
  <2>3. Shown(panes') = Shown(panes)
    BY <1>2
  <2> QED
    BY <2>1, <2>2, <2>3, <1>2, <1>3, <1>4, <1>8 DEF LiveInv, Of, after
<1>10. \A i \in DOMAIN published : published[i].kind = "active" =>
         i = Len(published) /\ published[i].session = announced /\ announced \in Shown(panes)
  BY DEF HubInv, AnnouncedInv
<1>11. \A i \in DOMAIN published' : published'[i].kind = "active" =>
         /\ i = Len(published') /\ published'[i].session = announced'
         /\ announced' \in Shown(panes')
  <2>1. ASSUME NEW i \in DOMAIN published', published'[i].kind = "active"
        PROVE  /\ i = Len(published') /\ published'[i].session = announced'
               /\ announced' \in Shown(panes')
    <3>1. i + 1 \in DOMAIN published /\ published'[i] = published[i + 1] /\ i \in Int
      BY <1>5
    <3>2. i + 1 = Len(published) /\ published[i + 1].session = announced
          /\ announced \in Shown(panes)
      BY <2>1, <3>1, <1>10
    <3> QED
      BY <3>1, <3>2, <1>2, <1>5
  <2> QED
    BY <2>1
<1>12. ASSUME ~stale, after("active") = {}
       PROVE  active' = announced /\ announced \notin after("closed")
  <2>1. CASE x.kind = "active"
    <3>1. Len(published) = 1 /\ x.session = announced /\ announced \in Shown(panes)
      BY <2>1, <1>5, <1>10
    <3>2. published' = <<>>
      BY <3>1, <1>4, <1>5
    <3>3. \A k : after(k) = {}
      BY <3>2, OfNothing
    <3>4. C = {} /\ O = {}
      BY <3>3, <1>7, <2>1
    <3>5. x.session \in DOMAIN live
      BY <3>1, <3>4, <1>8
    <3>6. active' = x.session
      BY <3>5, <2>1, <1>2 DEF Hub!ActiveAfter
    <3> QED
      BY <3>1, <3>3, <3>6
  <2>2. CASE x.kind # "active"
    <3>1. A = {}
      BY <2>2, <1>7, <1>12
    <3>2. active = announced /\ announced \notin C
      BY <3>1, <1>12 DEF HubInv, AnnouncedInv
    <3>3. ~(x.kind = "closed" /\ active = x.session)
      BY <3>2, <1>7
    <3>4. active' = active
      BY <3>3, <2>2, <1>2 DEF Hub!ActiveAfter
    <3> QED
      BY <3>2, <3>4, <1>7
  <2> QED
    BY <2>1, <2>2
<1>13. AnnouncedInv'
  BY <1>2, <1>11, <1>12 DEF AnnouncedInv, Of
<1>14. PanesOk(panes, recency)' /\ FocusInv'
  BY <1>2 DEF HubInv, PanesOk, FocusInv, Hub!Last
<1> QED
  BY <1>9, <1>13, <1>14 DEF HubInv

(* Tabs that come and go, and flushes, change none of this.                *)
LEMMA OthersKeep ==
  ASSUME HubInv, UNCHANGED <<panes, recency, announced, published, active, events, stale>>,
         DOMAIN live' = DOMAIN live
  PROVE  HubInv'
<1>1. PanesOk(panes, recency)' /\ FocusInv'
  BY DEF HubInv, PanesOk, FocusInv, Hub!Last
<1>2. \A kind : Of(kind, published') = Of(kind, published)
  OBVIOUS
<1>3. LiveInv' /\ AnnouncedInv'
  BY <1>2 DEF HubInv, LiveInv, AnnouncedInv, Of
<1> QED
  BY <1>1, <1>3 DEF HubInv

LEMMA FlushKeeps ==
  ASSUME HubInv, Hub!Flush
  PROVE  HubInv'
<1>1. UNCHANGED <<panes, recency, announced, published, active, events, stale>>
  BY DEF Hub!Flush, Hub!appVars
<1>2. DOMAIN live' = DOMAIN live
  <2>1. CASE ~client /\ ~others
    <3>1. live' = [s \in DOMAIN live |-> [live[s] EXCEPT !.reshaped = FALSE]]
      BY <2>1 DEF Hub!Flush
    <3> QED
      BY <3>1
  <2>2. CASE ~(~client /\ ~others)
    <3>1. live' = IF active = None THEN live ELSE [live EXCEPT ![active].reshaped = FALSE]
      BY <2>2 DEF Hub!Flush
    <3> QED
      BY <3>1
  <2> QED
    BY <2>1, <2>2
<1> QED
  BY <1>1, <1>2, OthersKeep

LEMMA HubKeeps ==
  ASSUME HubInv, Hub!Next
  PROVE  HubInv'
<1>1. CASE \E p \in Panes, s \in Sessions : Hub!BeginOpen(p, s) \/ Hub!BeginReplace(p, s)
  BY <1>1, BeginOpenKeeps, BeginReplaceKeeps
<1>2. CASE \E p \in Panes, n \in {0, Stored}, parent \in Sessions \cup {None} :
             Hub!Opened(p, n, parent)
  BY <1>2, OpenedKeeps
<1>3. CASE \E p \in Panes :
             Hub!OpenFailed(p) \/ Hub!Activate(p) \/ Hub!ClosePane(p) \/ Hub!Work(p)
  BY <1>3, OpenFailedKeeps, ActivateKeeps, ClosePaneKeeps, WorkKeeps
<1>4. CASE Hub!Fold
  BY <1>4, FoldKeeps
<1>5. CASE Hub!Flush
  BY <1>5, FlushKeeps
<1>6. CASE Hub!Connect \/ Hub!Disconnect \/ Hub!OthersJoin \/ Hub!OthersLeave
  <2>1. UNCHANGED <<panes, recency, announced, published, active, events, stale, live>>
    BY <1>6 DEF Hub!Connect, Hub!Disconnect, Hub!OthersJoin, Hub!OthersLeave, Hub!appVars,
                Hub!hubVars, Hub!historyVars
  <2> QED
    BY <2>1, OthersKeep
<1> QED
  BY <1>1, <1>2, <1>3, <1>4, <1>5, <1>6 DEF Hub!Next

THEOREM HubHolds == PartsSpec => []HubInv
<1>1. PartsInit => HubInv
  BY HubStarts DEF PartsInit
<1>2. HubInv /\ [PartsNext]_allVars => HubInv'
  <2> SUFFICES ASSUME HubInv, [PartsNext]_allVars PROVE HubInv'
    OBVIOUS
  <2>1. CASE Hub!Next
    BY <2>1, HubKeeps
  <2>2. CASE UNCHANGED hubVars
    BY <2>2, OthersKeep DEF hubVars
  <2> QED
    BY <2>1, <2>2 DEF PartsNext, allVars
<1> QED
  BY <1>1, <1>2, PTL DEF PartsSpec

(* Once its publications are folded the session in focus is the active one *)
(* (FocusIsActive): the session announced last is shown, and the hub has   *)
(* every session that is.                                                  *)
THEOREM FocusBecomesActive == PartsSpec => []FocusIsActive
<1>1. HubInv => FocusIsActive
  <2> SUFFICES ASSUME HubInv, published = <<>>, panes[Hub!Last(recency)].shows # None, ~stale
               PROVE  active = panes[Hub!Last(recency)].shows
    BY DEF FocusIsActive, Hub!FocusIsActive, Hub!Focus
  <2>1. Of("active", published) = {}
    BY OfNothing
  <2>2. active = announced
    BY <2>1 DEF HubInv, AnnouncedInv
  <2> QED
    BY <2>2 DEF HubInv, FocusInv
<1> QED
  BY <1>1, HubHolds, PTL
===============================================================================
