---------------------------- MODULE SessionsProofs ----------------------------
(***************************************************************************)
(* What the session database holds of the sessions, for any number of      *)
(* processes, sessions, opens, messages and failures: its records rise     *)
(* from a start, a fork never outruns its parent, and a message that waits *)
(* for an open is not forgotten.                                           *)
(*                                                                         *)
(* First sequences of records and what a commit makes of them (Thinned),   *)
(* then what the journal's operations keep (Continues), then the invariant *)
(* (KeptInv), one lemma for each action, and the theorems.                 *)
(***************************************************************************)
EXTENDS Sessions, SequenceTheorems, FiniteSetTheorems, TLAPS

-----------------------------------------------------------------------------
(* The set of the rows and records; that of the kinds that are stored.     *)
Kinds == {"start", "prompt", "message", "draft", "final", "end"}

Records ==
  [seq : Nat, kind : Kinds, turn : Nat, parent : Nat, through : Nat]

(* Of the places that are picked, the n-th in their order.                 *)
Rank(places, i) == Cardinality({j \in places : j <= i})

Nth(places, n) == CHOOSE i \in places : Rank(places, i) = n

(* Nth counts the places, from the first to the last of them.              *)
LEMMA NthIs ==
  ASSUME NEW m \in Nat, NEW places \in SUBSET (1..m)
  PROVE  /\ Cardinality(places) \in Nat
         /\ \A n \in 1..Cardinality(places) : Nth(places, n) \in places
         /\ \A n, k \in 1..Cardinality(places) :
              n < k => Nth(places, n) < Nth(places, k)
         /\ \A i \in places : \E n \in 1..Cardinality(places) : Nth(places, n) = i
<1> DEFINE upTo(i) == {j \in places : j <= i}
           N == Cardinality(places)
<1>0. \A i \in places : i \in Nat
  OBVIOUS
<1>1. IsFiniteSet(places)
  <2>1. IsFiniteSet(1..m)
    BY FS_Interval
  <2> QED
    BY <2>1, FS_Subset
<1>2. N \in Nat
  BY <1>1, FS_CardinalityType
<1>3. ASSUME NEW i \in places
      PROVE  /\ IsFiniteSet(upTo(i)) /\ upTo(i) \in SUBSET places
             /\ Rank(places, i) \in Nat /\ Rank(places, i) \in 1..N
  <2>1. upTo(i) \in SUBSET places /\ {i} \in SUBSET upTo(i)
    OBVIOUS
  <2>2. IsFiniteSet(upTo(i)) /\ Cardinality(upTo(i)) <= N
    BY <1>1, <2>1, FS_Subset
  <2>3. Cardinality({i}) <= Cardinality(upTo(i)) /\ Cardinality({i}) = 1
    BY <2>1, <2>2, FS_Subset, FS_Singleton
  <2>4. Cardinality(upTo(i)) \in Nat
    BY <2>2, FS_CardinalityType
  <2> QED
    BY <1>2, <2>1, <2>2, <2>3, <2>4 DEF Rank
<1>4. ASSUME NEW i \in places, NEW k \in places, i < k
      PROVE  Rank(places, i) < Rank(places, k)
  <2>1. k \notin upTo(i) /\ upTo(i) \cup {k} \in SUBSET upTo(k)
    <3>1. i \in Nat /\ k \in Nat /\ ~(k <= i)
      BY <1>0, <1>4
    <3>2. \A j \in places : j <= i => j <= k
      BY <1>0, <1>4, <3>1
    <3>3. upTo(i) \subseteq upTo(k)
      BY <3>2
    <3>4. k \in upTo(k) /\ k \notin upTo(i)
      BY <3>1
    <3> QED
      BY <3>3, <3>4
  <2>2. Cardinality(upTo(i) \cup {k}) = Cardinality(upTo(i)) + 1
    BY <1>3, <2>1, FS_AddElement
  <2>3. Cardinality(upTo(i) \cup {k}) <= Cardinality(upTo(k))
    BY <1>3, <2>1, FS_Subset
  <2>4. Rank(places, i) \in Nat /\ Rank(places, k) \in Nat
    BY <1>3
  <2> QED
    BY <2>2, <2>3, <2>4 DEF Rank
<1>5. ASSUME NEW i \in places, NEW k \in places, Rank(places, i) = Rank(places, k)
      PROVE  i = k
  <2>1. Rank(places, i) \in Nat /\ i \in Nat /\ k \in Nat
    BY <1>0, <1>3
  <2>2. ~(i < k) /\ ~(k < i)
    BY <1>4, <1>5, <2>1
  <2> QED
    BY <2>1, <2>2
<1>6. ASSUME NEW n \in 1..N
      PROVE  \E i \in places : Rank(places, i) = n
  <2> DEFINE T == 1..N
             g == [i \in places |-> Rank(places, i)]
  <2>1. IsFiniteSet(T) /\ Cardinality(T) = N
    <3>1. 1 \in Int /\ N \in Int
      BY <1>2
    <3>2. IsFiniteSet(T) /\ Cardinality(T) = IF 1 > N THEN 0 ELSE N - 1 + 1
      BY <3>1, FS_Interval
    <3> QED
      BY <1>2, <3>2
  <2>2. g \in Injection(places, T)
    BY <1>3, <1>5 DEF Injection, IsInjective
  <2> HIDE DEF T, g
  <2>3. g \in Surjection(places, T)
    BY <1>1, <2>1, <2>2, FS_Injection
  <2>4. \E i \in places : g[i] = n
    BY <2>3 DEF Surjection, T
  <2> QED
    BY <2>4 DEF g
<1>7. ASSUME NEW n \in 1..N
      PROVE  Nth(places, n) \in places /\ Rank(places, Nth(places, n)) = n
  BY <1>6 DEF Nth
<1>8. ASSUME NEW n \in 1..N, NEW k \in 1..N, n < k
      PROVE  Nth(places, n) < Nth(places, k)
  <2>1. Nth(places, n) \in 1..m /\ Nth(places, k) \in 1..m
    BY <1>7
  <2>2. Rank(places, Nth(places, n)) = n /\ Rank(places, Nth(places, k)) = k
    BY <1>7
  <2>3. Nth(places, k) # Nth(places, n)
    BY <1>8, <2>2
  <2>4. ~(Nth(places, k) < Nth(places, n))
    <3>1. Nth(places, k) < Nth(places, n) => k < n
      BY <1>4, <1>7, <2>2
    <3> QED
      BY <1>2, <1>8, <3>1
  <2> QED
    BY <2>1, <2>3, <2>4
<1>9. ASSUME NEW i \in places
      PROVE  \E n \in 1..N : Nth(places, n) = i
  <2>1. Rank(places, i) \in 1..N
    BY <1>3
  <2> QED
    BY <1>5, <1>7, <2>1
<1> QED
  BY <1>2, <1>7, <1>8, <1>9

(* T is R without some of its drafts, its last record excepted.  e says    *)
(* where the records of T are in R.                                        *)
Places(R, T, e) ==
  /\ \A k, n \in DOMAIN T : k < n => e[k] < e[n]
  /\ \A k \in DOMAIN T : T[k] = R[e[k]]
  /\ \A i \in DOMAIN R :
       R[i].kind # "draft" \/ i = Len(R) => \E k \in DOMAIN T : e[k] = i

Thinned(R, T) == \E e \in [DOMAIN T -> DOMAIN R] : Places(R, T, e)

(* What a commit makes of the rows thins them and its records.             *)
LEMMA WithRowsThins ==
  ASSUME NEW rows \in Seq(Records), NEW records \in Seq(Records)
  PROVE  /\ WithRows(rows, records) \in Seq(Records)
         /\ Thinned(rows \o records, WithRows(rows, records))
<1> DEFINE all == rows \o records
           replaced(i) == \E j \in Len(rows) + 1 .. Len(all) :
                             j > i /\ Replaces(all[j], all[i])
           places == {i \in DOMAIN all : ~replaced(i)}
           N == Cardinality(places)
           T == WithRows(rows, records)
           e == [n \in 1..N |-> Nth(places, n)]
<1>1. /\ all \in Seq(Records) /\ Len(all) \in Nat /\ DOMAIN all = 1..Len(all)
      /\ Len(rows) \in Nat
  BY ConcatProperties, LenProperties
<1>2. \A i \in DOMAIN all : all[i] \in Records
  BY <1>1, ElementOfSeq
<1>3. T = [n \in 1..N |-> all[Nth(places, n)]]
  BY Zenon DEF WithRows, Picked, Nth, Rank
<1>4. \A i \in DOMAIN all : all[i].kind # "draft" \/ i = Len(all) => i \in places
  BY <1>1 DEF Replaces
<1>5. places \in SUBSET (1..Len(all)) /\ places \in SUBSET DOMAIN all
  BY <1>1
<1> HIDE DEF all, places, T
<1>6. /\ N \in Nat
      /\ \A n \in 1..N : Nth(places, n) \in places
      /\ \A n, k \in 1..N : n < k => Nth(places, n) < Nth(places, k)
      /\ \A i \in places : \E n \in 1..N : Nth(places, n) = i
  BY <1>1, <1>5, NthIs
<1> HIDE DEF N
<1>7. T \in [1..N -> Records] /\ DOMAIN T = 1..N
  BY <1>2, <1>3, <1>5, <1>6
<1>8. T \in Seq(Records)
  BY <1>6, <1>7, SeqDef
<1>9. e \in [DOMAIN T -> DOMAIN all]
  BY <1>5, <1>6, <1>7
<1>10. Places(all, T, e)
  <2>1. \A k, n \in DOMAIN T : k < n => e[k] < e[n]
    BY <1>6, <1>7
  <2>2. \A k \in DOMAIN T : T[k] = all[e[k]]
    BY <1>3, <1>7
  <2>3. ASSUME NEW i \in DOMAIN all, all[i].kind # "draft" \/ i = Len(all)
        PROVE  \E k \in DOMAIN T : e[k] = i
    BY <1>4, <1>6, <1>7, <2>3
  <2> QED
    BY <2>1, <2>2, <2>3 DEF Places
<1> HIDE DEF e
<1>11. Thinned(all, T)
  BY <1>9, <1>10 DEF Thinned
<1> QED
  BY <1>8, <1>11 DEF T, all

(* What follows the records is kept as it is.                              *)
LEMMA ThinnedThenMore ==
  ASSUME NEW R \in Seq(Records), NEW T \in Seq(Records), NEW more \in Seq(Records),
         R # <<>>, Thinned(R, T)
  PROVE  Thinned(R \o more, T \o more)
<1> DEFINE A == R \o more
           B == T \o more
<1>1. PICK e \in [DOMAIN T -> DOMAIN R] : Places(R, T, e)
  BY DEF Thinned
<1>2. /\ DOMAIN R = 1..Len(R) /\ Len(R) \in Nat /\ Len(R) > 0
      /\ DOMAIN T = 1..Len(T) /\ Len(T) \in Nat /\ Len(more) \in Nat
  BY LenProperties, EmptySeq
<1>3. /\ Len(A) = Len(R) + Len(more) /\ DOMAIN A = 1..(Len(R) + Len(more))
      /\ \A i \in 1..(Len(R) + Len(more)) :
           A[i] = IF i <= Len(R) THEN R[i] ELSE more[i - Len(R)]
  BY ConcatProperties, LenProperties
<1>4. /\ DOMAIN B = 1..(Len(T) + Len(more))
      /\ \A i \in 1..(Len(T) + Len(more)) :
           B[i] = IF i <= Len(T) THEN T[i] ELSE more[i - Len(T)]
  BY ConcatProperties, LenProperties
<1> HIDE DEF A, B
<1> DEFINE g == [k \in DOMAIN B |-> IF k <= Len(T) THEN e[k] ELSE k - Len(T) + Len(R)]
<1>5. \A k \in DOMAIN T : e[k] \in 1..Len(R) /\ k \in DOMAIN B /\ g[k] = e[k]
  BY <1>2, <1>4
<1>6. \A k \in DOMAIN B : k \notin DOMAIN T =>
        /\ g[k] = k - Len(T) + Len(R) /\ g[k] \in Len(R) + 1 .. Len(R) + Len(more)
        /\ k \in Len(T) + 1 .. Len(T) + Len(more)
  BY <1>2, <1>4
<1> HIDE DEF g
<1>7. g \in [DOMAIN B -> DOMAIN A]
  <2>1. \A k \in DOMAIN B : g[k] \in DOMAIN A
    BY <1>2, <1>3, <1>5, <1>6
  <2> QED
    BY <2>1 DEF g
<1>8. ASSUME NEW k \in DOMAIN B, NEW n \in DOMAIN B, k < n
      PROVE  g[k] < g[n]
  <2>1. CASE n \in DOMAIN T
    <3>1. k \in DOMAIN T
      BY <1>2, <1>4, <1>8, <2>1
    <3> QED
      BY <1>1, <1>5, <1>8, <2>1, <3>1 DEF Places
  <2>2. CASE n \notin DOMAIN T /\ k \in DOMAIN T
    BY <1>2, <1>5, <1>6, <2>2
  <2>3. CASE n \notin DOMAIN T /\ k \notin DOMAIN T
    BY <1>2, <1>6, <1>8, <2>3
  <2> QED
    BY <2>1, <2>2, <2>3
<1>9. ASSUME NEW k \in DOMAIN B
      PROVE  B[k] = A[g[k]]
  <2>1. CASE k \in DOMAIN T
    <3>1. B[k] = T[k] /\ T[k] = R[e[k]] /\ A[e[k]] = R[e[k]]
      BY <1>1, <1>2, <1>3, <1>4, <1>5, <2>1 DEF Places
    <3> QED
      BY <1>5, <2>1, <3>1
  <2>2. CASE k \notin DOMAIN T
    <3>1. B[k] = more[k - Len(T)]
      BY <1>2, <1>4, <1>6, <2>2
    <3>2. A[g[k]] = more[g[k] - Len(R)]
      BY <1>2, <1>3, <1>6, <2>2
    <3> QED
      BY <1>2, <1>6, <2>2, <3>1, <3>2
  <2> QED
    BY <2>1, <2>2
<1>10. ASSUME NEW i \in DOMAIN A, A[i].kind # "draft" \/ i = Len(A)
       PROVE  \E k \in DOMAIN B : g[k] = i
  <2>1. CASE i \in DOMAIN R
    <3>1. A[i] = R[i]
      BY <1>2, <1>3, <2>1
    <3>2. ASSUME i = Len(A) PROVE i = Len(R)
      <4>1. i <= Len(R) /\ i = Len(R) + Len(more)
        BY <1>2, <1>3, <2>1, <3>2
      <4>2. Len(R) \in Nat /\ Len(more) \in Nat
        BY <1>2
      <4> QED
        BY <4>1, <4>2
    <3>3. PICK k \in DOMAIN T : e[k] = i
      BY <1>1, <1>10, <2>1, <3>1, <3>2 DEF Places
    <3> QED
      BY <1>5, <3>3
  <2>2. CASE i \notin DOMAIN R
    <3>1. i - Len(R) + Len(T) \in DOMAIN B /\ i - Len(R) + Len(T) \notin DOMAIN T
      BY <1>2, <1>3, <1>4, <2>2
    <3>2. g[i - Len(R) + Len(T)] = i
      BY <1>2, <1>3, <1>6, <3>1
    <3> QED
      BY <3>1, <3>2
  <2> QED
    BY <2>1, <2>2
<1>11. Places(A, B, g)
  BY <1>8, <1>9, <1>10 DEF Places
<1> QED
  BY <1>7, <1>11 DEF Thinned, A, B
-----------------------------------------------------------------------------
(* A session's records: they rise, a start is the first, and a start that  *)
(* names no parent is followed neither by an end nor by what a turn says,  *)
(* so that it is never alone with an end.                                  *)
Bare(record) == record.kind = "start" /\ record.parent = 0

Whole(R) ==
  /\ \A i \in DOMAIN R : R[i].seq > 0
  /\ \A i, k \in DOMAIN R : i < k => R[i].seq < R[k].seq
  /\ R # <<>> => R[1].kind = "start"
  /\ \A i \in DOMAIN R : i > 1 /\ Bare(R[i - 1]) => R[i].kind \notin {"end", "draft"}

(* The records go as far as a number.                                      *)
Reaches(R, seq) == seq = 0 \/ \E i \in DOMAIN R : R[i].seq >= seq

(* Dropping drafts leaves a whole session whole, and the last record.      *)
LEMMA ThinnedWhole ==
  ASSUME NEW R \in Seq(Records), NEW T \in Seq(Records), Whole(R), Thinned(R, T)
  PROVE  /\ Whole(T)
         /\ R # <<>> => T # <<>> /\ T[Len(T)] = R[Len(R)]
         /\ T # <<>> => R # <<>>
         /\ \A n \in Nat : Reaches(R, n) => Reaches(T, n)
         /\ \A n \in Nat : (\A i \in DOMAIN R : R[i].seq < n) =>
                           (\A i \in DOMAIN T : T[i].seq < n)
<1>1. PICK e \in [DOMAIN T -> DOMAIN R] : Places(R, T, e)
  BY DEF Thinned
<1>2. /\ DOMAIN R = 1..Len(R) /\ Len(R) \in Nat
      /\ DOMAIN T = 1..Len(T) /\ Len(T) \in Nat
      /\ R # <<>> => Len(R) > 0
      /\ T # <<>> => Len(T) > 0
      /\ R = <<>> => Len(R) = 0
      /\ T = <<>> => Len(T) = 0
  BY LenProperties, EmptySeq
<1>3. /\ \A k \in DOMAIN T : e[k] \in 1..Len(R) /\ T[k] = R[e[k]]
      /\ \A k, n \in DOMAIN T : k < n => e[k] < e[n]
      /\ \A i \in DOMAIN R :
           R[i].kind # "draft" \/ i = Len(R) => \E k \in DOMAIN T : e[k] = i
  BY <1>1, <1>2 DEF Places
<1>4. \A i \in DOMAIN R : R[i].seq \in Nat
  <2>1. \A i \in DOMAIN R : R[i] \in Records
    BY <1>2, ElementOfSeq
  <2> QED
    BY <2>1 DEF Records
<1>5. ASSUME NEW k \in DOMAIN T, NEW n \in DOMAIN T, e[k] <= e[n]
      PROVE  k <= n
  <2>1. ~(n < k)
    BY <1>3, <1>5
  <2> QED
    BY <1>2, <2>1
<1>6. \A k \in DOMAIN T : T[k].seq > 0
  BY <1>2, <1>3 DEF Whole
<1>7. \A k, n \in DOMAIN T : k < n => T[k].seq < T[n].seq
  BY <1>2, <1>3 DEF Whole
<1>8. ASSUME T # <<>> PROVE R # <<>> /\ T[1].kind = "start"
  <2>1. 1 \in DOMAIN T /\ e[1] \in 1..Len(R)
    BY <1>2, <1>3, <1>8
  <2>2. R # <<>> /\ 1 \in DOMAIN R /\ R[1].kind = "start"
    BY <1>2, <2>1 DEF Whole
  <2>3. PICK k \in DOMAIN T : e[k] = 1
    BY <1>3, <2>2
  <2>4. k <= 1
    BY <1>5, <2>1, <2>3
  <2>5. k = 1
    BY <1>2, <2>4
  <2> QED
    BY <1>3, <2>1, <2>2, <2>3, <2>5
<1>9. ASSUME NEW n \in DOMAIN T, n > 1, Bare(T[n - 1])
      PROVE  T[n].kind \notin {"end", "draft"}
  <2> DEFINE i == e[n - 1]
  <2>1. /\ n - 1 \in DOMAIN T /\ n - 1 < n /\ i \in 1..Len(R) /\ e[n] \in 1..Len(R)
        /\ i < e[n] /\ Bare(R[i])
    BY <1>2, <1>3, <1>9
  <2>2. /\ i + 1 \in DOMAIN R /\ i + 1 > 1 /\ i + 1 - 1 = i
        /\ R[i + 1].kind \notin {"end", "draft"}
    BY <1>2, <2>1 DEF Whole
  <2>3. PICK k \in DOMAIN T : e[k] = i + 1
    BY <1>3, <2>2
  <2>4. k > n - 1
    BY <1>2, <1>5, <2>1, <2>3
  <2>5. e[n] <= e[k]
    <3>1. k = n \/ n < k
      BY <1>2, <2>4
    <3>2. e[n] \in Int /\ e[k] \in Int
      BY <1>3
    <3> QED
      BY <1>3, <3>1, <3>2
  <2>6. e[n] = i + 1
    BY <2>1, <2>3, <2>5
  <2> QED
    BY <1>3, <2>2, <2>6
<1>10. ASSUME R # <<>> PROVE T # <<>> /\ T[Len(T)] = R[Len(R)]
  <2>1. Len(R) \in DOMAIN R
    BY <1>2, <1>10
  <2>2. PICK k \in DOMAIN T : e[k] = Len(R)
    BY <1>3, <2>1
  <2>3. T # <<>> /\ Len(T) \in DOMAIN T /\ e[Len(T)] \in 1..Len(R)
    BY <1>2, <1>3, <2>2
  <2>4. ~(k < Len(T))
    BY <1>3, <2>2, <2>3
  <2>5. k = Len(T)
    BY <1>2, <2>3, <2>4
  <2> QED
    BY <1>3, <2>2, <2>3, <2>5
<1>11. ASSUME NEW n \in Nat, Reaches(R, n) PROVE Reaches(T, n)
  <2>1. CASE n = 0
    BY <2>1 DEF Reaches
  <2>2. CASE n # 0
    <3>1. PICK i \in DOMAIN R : R[i].seq >= n
      BY <1>11, <2>2 DEF Reaches
    <3>2. R # <<>> /\ Len(R) \in DOMAIN R /\ i <= Len(R)
      BY <1>2
    <3>3. R[Len(R)].seq >= n
      <4>1. i < Len(R) \/ i = Len(R)
        BY <1>2, <3>2
      <4> QED
        BY <1>4, <3>1, <3>2, <4>1 DEF Whole
    <3>4. Len(T) \in DOMAIN T /\ T[Len(T)].seq >= n
      BY <1>2, <1>10, <3>2, <3>3
    <3> QED
      BY <3>4 DEF Reaches
  <2> QED
    BY <2>1, <2>2
<1>12. ASSUME NEW n \in Nat, \A i \in DOMAIN R : R[i].seq < n
       PROVE  \A i \in DOMAIN T : T[i].seq < n
  BY <1>2, <1>3, <1>12
<1>13. Whole(T)
  BY <1>6, <1>7, <1>8, <1>9 DEF Whole
<1> QED
  BY <1>8, <1>10, <1>11, <1>12, <1>13

(* What is first stored of a whole session is whole.                       *)
LEMMA WholeSoFar ==
  ASSUME NEW R \in Seq(Records), NEW more \in Seq(Records), Whole(R \o more)
  PROVE  Whole(R)
<1> DEFINE A == R \o more
<1>1. /\ DOMAIN R = 1..Len(R) /\ Len(R) \in Nat /\ Len(more) \in Nat
      /\ (R # <<>> => Len(R) > 0)
  BY LenProperties, EmptySeq
<1>2. /\ DOMAIN A = 1..(Len(R) + Len(more))
      /\ \A i \in 1..Len(R) : A[i] = R[i]
  BY <1>1, ConcatProperties, LenProperties
<1>3. Whole(A)
  OBVIOUS
<1> HIDE DEF A
<1>4. \A i \in DOMAIN R : i \in DOMAIN A /\ A[i] = R[i]
  BY <1>1, <1>2
<1>5. R # <<>> => A # <<>> /\ 1 \in DOMAIN R
  <2>1. A = <<>> => DOMAIN A = {}
    OBVIOUS
  <2> QED
    BY <1>1, <1>4, <2>1
<1>6. ASSUME NEW i \in DOMAIN R, i > 1, Bare(R[i - 1])
      PROVE  R[i].kind \notin {"end", "draft"}
  <2>1. i - 1 \in DOMAIN R
    BY <1>1, <1>6
  <2> QED
    BY <1>3, <1>4, <1>6, <2>1 DEF Whole
<1>7. (\A i \in DOMAIN R : R[i].seq > 0) /\ (R # <<>> => R[1].kind = "start")
  BY <1>3, <1>4, <1>5 DEF Whole
<1>8. \A i, k \in DOMAIN R : i < k => R[i].seq < R[k].seq
  BY <1>3, <1>4 DEF Whole
<1> QED
  BY <1>6, <1>7, <1>8 DEF Whole

(* A record that goes on where the session is.                             *)
LEMMA WholeAndMore ==
  ASSUME NEW R \in Seq(Records), NEW record \in Records, Whole(R),
         record.seq > 0, \A i \in DOMAIN R : R[i].seq < record.seq,
         R = <<>> => record.kind = "start",
         R # <<>> /\ Bare(R[Len(R)]) => record.kind \notin {"end", "draft"}
  PROVE  Whole(Append(R, record))
<1> DEFINE A == Append(R, record)
<1>1. /\ DOMAIN R = 1..Len(R) /\ Len(R) \in Nat
      /\ (R # <<>> => Len(R) > 0) /\ (R = <<>> => Len(R) = 0)
  BY LenProperties, EmptySeq
<1>2. /\ DOMAIN A = 1..(Len(R) + 1) /\ A[Len(R) + 1] = record
      /\ \A i \in 1..Len(R) : A[i] = R[i]
  BY <1>1, AppendProperties, LenProperties
<1> HIDE DEF A
<1>3. \A i \in DOMAIN A : i \in DOMAIN R \/ i = Len(R) + 1
  BY <1>1, <1>2
<1>4. \A i \in DOMAIN R : i \in DOMAIN A /\ A[i] = R[i] /\ i < Len(R) + 1
  BY <1>1, <1>2
<1>5. \A i \in DOMAIN A : A[i].seq > 0
  BY <1>2, <1>3, <1>4 DEF Whole
<1>6. ASSUME NEW i \in DOMAIN A, NEW k \in DOMAIN A, i < k
      PROVE  A[i].seq < A[k].seq
  <2>1. i \in DOMAIN R
    BY <1>1, <1>2, <1>3, <1>6
  <2>2. CASE k \in DOMAIN R
    BY <1>4, <1>6, <2>1, <2>2 DEF Whole
  <2>3. CASE k = Len(R) + 1
    BY <1>2, <1>4, <2>1, <2>3
  <2> QED
    BY <1>3, <2>2, <2>3
<1>7. A[1].kind = "start"
  <2>1. CASE R = <<>>
    BY <1>1, <1>2, <2>1
  <2>2. CASE R # <<>>
    <3>1. 1 \in DOMAIN R
      BY <1>1, <2>2
    <3> QED
      BY <1>4, <2>2, <3>1 DEF Whole
  <2> QED
    BY <2>1, <2>2
<1>8. ASSUME NEW i \in DOMAIN A, i > 1, Bare(A[i - 1])
      PROVE  A[i].kind \notin {"end", "draft"}
  <2>1. i - 1 \in DOMAIN R
    BY <1>1, <1>2, <1>8
  <2>2. CASE i \in DOMAIN R
    BY <1>4, <1>8, <2>1, <2>2 DEF Whole
  <2>3. CASE i = Len(R) + 1
    <3>1. i - 1 = Len(R) /\ R # <<>>
      BY <1>1, <2>1, <2>3
    <3> QED
      BY <1>2, <1>4, <1>8, <2>1, <2>3, <3>1
  <2> QED
    BY <1>3, <2>2, <2>3
<1> QED
  BY <1>5, <1>6, <1>7, <1>8 DEF Whole, A
-----------------------------------------------------------------------------
(* A journal and the records of its session, those that are stored and     *)
(* those that it has queued.  Goes: they are whole, the journal's numbers  *)
(* go on from theirs, and it still has its start when there are none.      *)
Journals ==
  [process : Processes \cup {"none"}, session : Nat, next : Int, last : Int,
   empty : BOOLEAN, start : [held : BOOLEAN, parent : Nat, through : Nat],
   turn : Nat, queue : Seq(Records), writer : {"open", "closed", "gone", "failed"}]

Goes(R, j) ==
  /\ Whole(R)
  /\ j.next > 0 /\ \A i \in DOMAIN R : R[i].seq < j.next
  /\ R = <<>> => j.start.held
  /\ j.last >= 0 /\ Reaches(R, j.last)

(* Unless the journal has its start still to send, the last record is not  *)
(* such a start; and it has not, once there was a turn or a record.        *)
Apart(R, j) == R # <<>> /\ ~j.start.held => ~Bare(R[Len(R)])

Continues(R, j) ==
  /\ Goes(R, j) /\ Apart(R, j)
  /\ j.turn > 0 \/ ~j.empty => ~j.start.held

(* The journal after it has sent a record.                                 *)
SentTo(j, k, record) ==
  /\ record.seq = j.next
  /\ k.queue = Append(j.queue, record)
  /\ k.next = j.next + 1 /\ k.last = record.seq /\ ~k.start.held

LEMMA SentGoes ==
  ASSUME NEW rows \in Seq(Records), NEW j \in Journals, NEW k \in Journals,
         NEW record \in Records, Goes(rows \o j.queue, j), SentTo(j, k, record),
         j.start.held => record.kind = "start",
         rows \o j.queue # <<>> /\ Bare((rows \o j.queue)[Len(rows \o j.queue)]) =>
           record.kind \notin {"end", "draft"}
  PROVE  /\ Goes(rows \o k.queue, k)
         /\ rows \o k.queue \in Seq(Records) /\ rows \o k.queue # <<>>
         /\ (rows \o k.queue)[Len(rows \o k.queue)] = record
<1> DEFINE R == rows \o j.queue
           T == rows \o k.queue
<1>1. j.queue \in Seq(Records) /\ j.next \in Int
  BY DEF Journals
<1>2. R \in Seq(Records) /\ DOMAIN R = 1..Len(R) /\ Len(R) \in Nat
  BY <1>1, ConcatProperties, LenProperties
<1>3. T = Append(R, record)
  <2> DEFINE one == <<record>>
  <2>1. k.queue = j.queue \o one
    BY <1>1, AppendIsConcat DEF SentTo
  <2>2. one \in Seq(Records)
    OBVIOUS
  <2> HIDE DEF one
  <2>3. ASSUME NEW q \in Seq(Records)
        PROVE  (rows \o q) \o one = rows \o (q \o one)
    BY <2>2, ConcatAssociative
  <2>4. T = R \o one
    BY <1>1, <2>1, <2>3
  <2>5. R \o one = Append(R, record)
    BY <1>2, AppendIsConcat DEF one
  <2> QED
    BY <2>4, <2>5
<1>4. Goes(R, j)
  OBVIOUS
<1>5. R # <<>> /\ Bare(R[Len(R)]) => record.kind \notin {"end", "draft"}
  OBVIOUS
<1> HIDE DEF R, T
<1>6. /\ T \in Seq(Records) /\ T # <<>> /\ Len(T) = Len(R) + 1 /\ T[Len(T)] = record
      /\ DOMAIN T = 1..(Len(R) + 1) /\ \A i \in 1..Len(R) : T[i] = R[i]
  BY <1>2, <1>3, AppendProperties, LenProperties
<1>7. Whole(T)
  <2>1. /\ Whole(R) /\ record.seq > 0 /\ \A i \in DOMAIN R : R[i].seq < record.seq
        /\ R = <<>> => record.kind = "start"
    BY <1>4 DEF Goes, SentTo
  <2> QED
    BY <1>2, <1>3, <1>5, <2>1, WholeAndMore
<1>8. record.seq \in Nat
  BY DEF Records
<1>9. ASSUME NEW i \in DOMAIN T
      PROVE  T[i].seq < k.next
  <2>1. CASE i = Len(R) + 1
    BY <1>1, <1>6, <2>1 DEF SentTo
  <2>2. CASE i # Len(R) + 1
    <3>1. i \in DOMAIN R /\ T[i] = R[i]
      BY <1>2, <1>6, <2>2
    <3>2. R[i].seq \in Nat
      <4>1. R[i] \in Records
        BY <1>2, <3>1, ElementOfSeq
      <4> QED
        BY <4>1 DEF Records
    <3> QED
      BY <1>1, <1>4, <3>1, <3>2 DEF Goes, SentTo
  <2> QED
    BY <2>1, <2>2
<1>10. Reaches(T, k.last)
  <2>1. Len(R) + 1 \in DOMAIN T /\ T[Len(R) + 1].seq >= k.last
    BY <1>2, <1>6, <1>8 DEF SentTo
  <2> QED
    BY <2>1 DEF Reaches
<1>11. Goes(T, k)
  BY <1>1, <1>4, <1>6, <1>7, <1>8, <1>9, <1>10 DEF Goes, SentTo
<1> QED
  BY <1>6, <1>11 DEF T

(* What an operation on a journal leaves alone.                            *)
SameHost(j, k) == k.process = j.process /\ k.session = j.session

LEMMA SentIs ==
  ASSUME NEW j \in Journals, NEW record \in Records
  PROVE  LET k == Sent(j, record) IN
         /\ k \in Journals /\ SameHost(j, k) /\ k.writer = j.writer
         /\ k.queue = Append(j.queue, record) /\ k.last = record.seq
         /\ k.next = j.next /\ k.start = j.start /\ k.turn = j.turn
<1> DEFINE q == Append(j.queue, record)
<1>1. q \in Seq(Records)
  BY AppendProperties DEF Journals
<1>2. record.seq \in Int
  BY DEF Records
<1>3. Sent(j, record) = [j EXCEPT !.queue = q, !.last = record.seq]
  BY DEF Sent, Journals
<1> HIDE DEF q
<1> QED
  BY <1>1, <1>2, <1>3 DEF Journals, SameHost, q

LEMMA NextIs ==
  ASSUME NEW j \in Journals
  PROVE  LET k == [j EXCEPT !.next = @ + 1] IN
         /\ k \in Journals /\ SameHost(j, k) /\ k.writer = j.writer
         /\ k.queue = j.queue /\ k.last = j.last /\ k.next = j.next + 1
         /\ k.start = j.start /\ k.turn = j.turn
<1>1. j.next + 1 \in Int
  BY DEF Journals
<1>2. [j EXCEPT !.next = @ + 1] = [j EXCEPT !.next = j.next + 1]
  OBVIOUS
<1> QED
  BY <1>1, <1>2 DEF Journals, SameHost

LEMMA RecordedIs ==
  ASSUME NEW j \in Journals, NEW record \in Records, record.seq = j.next
  PROVE  LET k == Recorded(j, record) IN
         /\ k \in Journals /\ SameHost(j, k) /\ k.writer = j.writer
         /\ k.start = j.start /\ k.turn = j.turn /\ ~k.empty
         /\ ~j.start.held => SentTo(j, k, record)
         /\ k.queue = Append(j.queue, record) /\ k.last = record.seq
         /\ k.next = j.next + 1
<1> DEFINE m == Sent(j, record)
<1>1. /\ m \in Journals /\ SameHost(j, m) /\ m.writer = j.writer
      /\ m.queue = Append(j.queue, record) /\ m.last = record.seq
      /\ m.next = j.next /\ m.start = j.start /\ m.turn = j.turn
  BY SentIs
<1>2. Recorded(j, record) = [m EXCEPT !.next = @ + 1, !.empty = FALSE]
  BY DEF Recorded
<1> HIDE DEF m
<1>3. m.next + 1 \in Int
  BY <1>1 DEF Journals
<1> DEFINE k == [m EXCEPT !.next = m.next + 1, !.empty = FALSE]
<1>4. Recorded(j, record) = k
  BY <1>2
<1>5. /\ k \in Journals /\ SameHost(m, k) /\ k.writer = m.writer
      /\ k.start = m.start /\ k.turn = m.turn /\ ~k.empty
      /\ k.queue = m.queue /\ k.last = m.last /\ k.next = m.next + 1
  BY <1>1, <1>3 DEF Journals, SameHost
<1> HIDE DEF k
<1> QED
  BY <1>1, <1>4, <1>5 DEF SameHost, SentTo

StartRecord(j) ==
  [Record(j.next, "start", 0) EXCEPT !.parent = j.start.parent, !.through = j.start.through]

(* start_if_needed                                                         *)
LEMMA StartedGoes ==
  ASSUME NEW rows \in Seq(Records), NEW j \in Journals,
         Goes(rows \o j.queue, j), Apart(rows \o j.queue, j)
  PROVE  LET s == StartedIfNeeded(j)
             T == rows \o s.queue IN
         /\ s \in Journals /\ SameHost(j, s) /\ s.writer = j.writer
         /\ s.turn = j.turn /\ ~s.start.held
         /\ Goes(T, s) /\ T \in Seq(Records) /\ T # <<>>
         /\ Bare(T[Len(T)]) => j.start.held /\ j.start.parent = 0
         /\ ~j.start.held => s = j
         /\ j.start.held => ~s.empty
<1> DEFINE s == StartedIfNeeded(j)
           R == rows \o j.queue
           T == rows \o s.queue
           record == StartRecord(j)
<1>1. CASE j.start.held
  <2>1. j.next \in Nat /\ j.next > 0
    BY DEF Goes, Journals
  <2>2. /\ record \in Records /\ record.seq = j.next /\ record.kind = "start"
        /\ record.parent = j.start.parent
    BY <2>1 DEF StartRecord, Record, Records, Kinds, Journals
  <2> DEFINE m == Recorded(j, record)
  <2>3. s = [m EXCEPT !.start = NoStart]
    BY <1>1 DEF StartedIfNeeded, StartRecord
  <2> HIDE DEF record
  <2>4. /\ m \in Journals /\ SameHost(j, m) /\ m.writer = j.writer
        /\ m.turn = j.turn /\ ~m.empty
        /\ m.queue = Append(j.queue, record) /\ m.last = record.seq
        /\ m.next = j.next + 1
    BY <2>2, RecordedIs
  <2> HIDE DEF m
  <2>5. /\ s \in Journals /\ SameHost(j, s) /\ s.writer = j.writer
        /\ s.turn = j.turn /\ ~s.start.held /\ ~s.empty
        /\ SentTo(j, s, record)
    <3>1. NoStart \in [held : BOOLEAN, parent : Nat, through : Nat] /\ ~NoStart.held
      BY DEF NoStart
    <3>2. /\ s \in Journals /\ SameHost(m, s) /\ s.writer = m.writer
          /\ s.turn = m.turn /\ s.start = NoStart /\ s.empty = m.empty
          /\ s.queue = m.queue /\ s.last = m.last /\ s.next = m.next
      BY <2>3, <2>4, <3>1 DEF SameHost, Journals
    <3> HIDE DEF s
    <3> QED
      BY <2>2, <2>4, <3>1, <3>2 DEF SameHost, SentTo
  <2> HIDE DEF s
  <2>6. Goes(T, s) /\ T \in Seq(Records) /\ T # <<>> /\ T[Len(T)] = record
    BY <1>1, <2>2, <2>5, SentGoes
  <2> QED
    BY <1>1, <2>2, <2>5, <2>6 DEF Bare, s
<1>2. CASE ~j.start.held
  <2>1. s = j
    BY <1>2 DEF StartedIfNeeded
  <2>2. R # <<>> /\ R \in Seq(Records) /\ ~Bare(R[Len(R)])
    <3>1. j.queue \in Seq(Records)
      BY DEF Journals
    <3> QED
      BY <1>2, <3>1, ConcatProperties DEF Goes, Apart
  <2> QED
    BY <1>2, <2>1, <2>2 DEF SameHost
<1> QED
  BY <1>1, <1>2

(* append_local                                                            *)
LEMMA LocalGoes ==
  ASSUME NEW rows \in Seq(Records), NEW j \in Journals,
         Goes(rows \o j.queue, j), Apart(rows \o j.queue, j),
         NEW kind \in {"prompt", "message", "end"}, kind = "end" => ~j.start.held
  PROVE  LET k == AppendLocal(j, kind) IN
         /\ k \in Journals /\ SameHost(j, k) /\ k.writer = j.writer
         /\ Continues(rows \o k.queue, k)
<1> DEFINE s == StartedIfNeeded(j)
           S == rows \o s.queue
           record == Record(s.next, kind, s.turn)
           k == AppendLocal(j, kind)
           T == rows \o k.queue
<1>1. /\ s \in Journals /\ SameHost(j, s) /\ s.writer = j.writer
      /\ s.turn = j.turn /\ ~s.start.held
      /\ Goes(S, s) /\ S \in Seq(Records) /\ S # <<>>
      /\ Bare(S[Len(S)]) => j.start.held
  BY StartedGoes
<1>2. k = Recorded(s, record)
  BY DEF AppendLocal
<1> HIDE DEF s
<1>3. s.next \in Nat /\ s.next > 0
  BY <1>1 DEF Goes, Journals
<1>4. record \in Records /\ record.seq = s.next /\ record.kind = kind /\ ~Bare(record)
  BY <1>1, <1>3 DEF Record, Records, Kinds, Journals, Bare
<1> HIDE DEF record
<1>6. /\ k \in Journals /\ SameHost(s, k) /\ k.writer = s.writer
      /\ ~k.start.held /\ SentTo(s, k, record)
  BY <1>1, <1>2, <1>4, RecordedIs
<1> HIDE DEF k
<1>7. /\ Goes(T, k) /\ T # <<>> /\ T[Len(T)] = record
  <2>1. S # <<>> /\ Bare(S[Len(S)]) => record.kind \notin {"end", "draft"}
    BY <1>1, <1>4
  <2> QED
    BY <1>1, <1>4, <1>6, <2>1, SentGoes
<1>8. Continues(T, k)
  BY <1>4, <1>6, <1>7 DEF Continues, Apart
<1> QED
  BY <1>1, <1>6, <1>8 DEF k, SameHost

(* append_local of a prompt, in the next turn                              *)
LEMMA PromptGoes ==
  ASSUME NEW rows \in Seq(Records), NEW j \in Journals, Continues(rows \o j.queue, j)
  PROVE  LET k == AppendPrompt(j) IN
         /\ k \in Journals /\ SameHost(j, k) /\ k.writer = j.writer
         /\ Continues(rows \o k.queue, k)
<1> DEFINE t == [j EXCEPT !.turn = @ + 1]
<1>1. /\ t \in Journals /\ SameHost(j, t) /\ t.writer = j.writer
      /\ t.queue = j.queue /\ t.next = j.next /\ t.last = j.last /\ t.start = j.start
  BY SMTT(30) DEF Journals, SameHost
<1>2. AppendPrompt(j) = AppendLocal(t, "prompt")
  BY DEF AppendPrompt
<1> HIDE DEF t
<1>3. Goes(rows \o t.queue, t) /\ Apart(rows \o t.queue, t)
  BY <1>1 DEF Continues, Goes, Apart
<1> QED
  BY <1>1, <1>2, <1>3, LocalGoes DEF SameHost

(* append_agent, of what is said in a turn                                 *)
LEMMA AgentGoes ==
  ASSUME NEW rows \in Seq(Records), NEW j \in Journals, Continues(rows \o j.queue, j),
         j.turn > 0, NEW kind \in {"draft", "final", "api"}
  PROVE  LET k == AppendAgent(j, kind) IN
         /\ k \in Journals /\ SameHost(j, k) /\ k.writer = j.writer
         /\ Continues(rows \o k.queue, k)
<1> DEFINE k == AppendAgent(j, kind)
           record == Record(j.next, kind, j.turn)
           R == rows \o j.queue
           T == rows \o k.queue
<1>1. ~j.start.held /\ Goes(R, j) /\ Apart(R, j) /\ R # <<>> /\ ~Bare(R[Len(R)])
  BY DEF Continues, Goes, Apart
<1>2. j.next \in Nat /\ j.next > 0
  BY <1>1 DEF Goes, Journals
<1>3. k = IF kind = "api" THEN [j EXCEPT !.next = @ + 1]
          ELSE [Sent(j, record) EXCEPT !.next = @ + 1]
  BY <1>1 DEF AppendAgent, StartedIfNeeded
<1>4. CASE kind = "api"
  <2>1. k = [j EXCEPT !.next = @ + 1]
    BY <1>3, <1>4
  <2> HIDE DEF k
  <2>2. /\ k \in Journals /\ SameHost(j, k) /\ k.writer = j.writer
        /\ k.queue = j.queue /\ k.next = j.next + 1 /\ k.last = j.last
        /\ k.start = j.start /\ k.turn = j.turn
    BY <2>1, NextIs
  <2>3. R \in Seq(Records) /\ DOMAIN R = 1..Len(R)
    <3>1. j.queue \in Seq(Records)
      BY DEF Journals
    <3> QED
      BY <3>1, ConcatProperties, LenProperties
  <2> HIDE DEF R
  <2>4. \A i \in DOMAIN R : R[i].seq < k.next
    <3>1. \A i \in DOMAIN R : R[i] \in Records
      BY <2>3, ElementOfSeq
    <3>2. \A i \in DOMAIN R : R[i].seq \in Nat
      BY <3>1 DEF Records
    <3> QED
      BY <1>1, <1>2, <2>2, <3>2 DEF Goes
  <2>5. Continues(R, k)
    BY <1>1, <1>2, <2>2, <2>4 DEF Continues, Goes, Apart
  <2> QED
    BY <2>2, <2>5 DEF k, R
<1>5. CASE kind # "api"
  <2>1. record \in Records /\ record.seq = j.next /\ record.kind = kind /\ ~Bare(record)
    BY <1>2, <1>5 DEF Record, Records, Kinds, Journals, Bare
  <2>2. k = [Sent(j, record) EXCEPT !.next = @ + 1]
    BY <1>3, <1>5
  <2> DEFINE m == Sent(j, record)
  <2> HIDE DEF record, k
  <2>3. /\ m \in Journals /\ SameHost(j, m) /\ m.writer = j.writer
        /\ m.queue = Append(j.queue, record) /\ m.last = record.seq
        /\ m.next = j.next /\ m.start = j.start
    BY <2>1, SentIs
  <2> HIDE DEF m
  <2>4. /\ k \in Journals /\ SameHost(j, k) /\ k.writer = j.writer
        /\ ~k.start.held /\ SentTo(j, k, record)
    <3>1. k = [m EXCEPT !.next = @ + 1]
      BY <2>2 DEF m
    <3>2. /\ k \in Journals /\ SameHost(m, k) /\ k.writer = m.writer
          /\ k.queue = m.queue /\ k.last = m.last /\ k.next = m.next + 1
          /\ k.start = m.start
      BY <2>3, <3>1, NextIs
    <3> QED
      BY <1>1, <2>1, <2>3, <3>2 DEF SameHost, SentTo
  <2>5. Goes(T, k) /\ T # <<>> /\ T[Len(T)] = record
    BY <1>1, <2>1, <2>4, SentGoes
  <2>6. Continues(T, k)
    BY <2>1, <2>4, <2>5 DEF Continues, Apart
  <2> QED
    BY <2>4, <2>6 DEF k
<1> QED
  BY <1>4, <1>5

(* close_journal                                                           *)
LEMMA ClosedGoes ==
  ASSUME NEW rows \in Seq(Records), NEW j \in Journals, Continues(rows \o j.queue, j)
  PROVE  LET k == Closed(j) IN
         /\ k \in Journals /\ SameHost(j, k) /\ k.writer = "closed"
         /\ Continues(rows \o k.queue, k)
<1> DEFINE e == Ended(j)
<1>1. e \in Journals /\ SameHost(j, e) /\ Continues(rows \o e.queue, e)
  <2>1. CASE j.empty
    BY <2>1 DEF Ended, SameHost
  <2>2. CASE ~j.empty
    <3>1. e = AppendLocal(j, "end")
      BY <2>2 DEF Ended
    <3>2. ~j.start.held /\ Goes(rows \o j.queue, j) /\ Apart(rows \o j.queue, j)
      BY <2>2 DEF Continues
    <3> QED
      BY <3>1, <3>2, LocalGoes
  <2> QED
    BY <2>1, <2>2
<1>2. Closed(j) = [e EXCEPT !.writer = "closed"]
  BY DEF Closed
<1> HIDE DEF e
<1> DEFINE k == [e EXCEPT !.writer = "closed"]
<1>3. /\ k \in Journals /\ SameHost(e, k) /\ k.writer = "closed"
      /\ k.queue = e.queue /\ k.next = e.next /\ k.last = e.last
      /\ k.start = e.start /\ k.turn = e.turn /\ k.empty = e.empty
  BY <1>1 DEF Journals, SameHost
<1> HIDE DEF k
<1>4. Continues(rows \o k.queue, k)
  BY <1>1, <1>3 DEF Continues, Goes, Apart
<1>5. Closed(j) = k
  BY <1>2 DEF k
<1> QED
  BY <1>1, <1>3, <1>4, <1>5 DEF SameHost

(* open_in, on the rows of a session that is stored or new                 *)
LEMMA OpenedGoes ==
  ASSUME NEW rows \in Seq(Records), Whole(rows), NEW p \in Processes, NEW s \in Nat,
         NEW next \in Nat \ {0}, Reaches(rows, next - 1),
         \A i \in DOMAIN rows : rows[i].seq < next,
         NEW parent \in Nat, NEW through \in Nat
  PROVE  LET k == Opened(p, s, next, StartOf(parent, through)) IN
         /\ k \in Journals /\ k.process = p /\ k.session = s /\ k.writer = "open"
         /\ Continues(rows \o k.queue, k)
         /\ k.start.held /\ k.start.parent = parent
<1> DEFINE k == Opened(p, s, next, StartOf(parent, through))
<1>1. /\ k \in Journals /\ k.process = p /\ k.session = s /\ k.writer = "open"
      /\ k.queue = <<>> /\ k.next = next /\ k.last = next - 1 /\ k.empty
      /\ k.turn = 0 /\ k.start.held /\ k.start.parent = parent
  <2>1. <<>> \in Seq(Records)
    BY EmptySeq
  <2> QED
    BY <2>1 DEF Opened, StartOf, Journals
<1>2. rows \o <<>> = rows
  BY ConcatEmptySeq
<1> HIDE DEF k
<1>3. Continues(rows, k)
  BY <1>1 DEF Continues, Goes, Apart
<1>4. Continues(rows \o k.queue, k)
  BY <1>1, <1>2, <1>3
<1> QED
  BY <1>1, <1>4 DEF k

(* A fork's start names its parent and is sent at once.                    *)
LEMMA ForkGoes ==
  ASSUME NEW p \in Processes, NEW s \in Nat, NEW parent \in Nat \ {0}, NEW through \in Nat
  PROVE  LET k == StartedIfNeeded(Opened(p, s, 1, StartOf(parent, through))) IN
         /\ k \in Journals /\ k.process = p /\ k.session = s /\ k.writer = "open"
         /\ Continues(<<>> \o k.queue, k)
<1> DEFINE j == Opened(p, s, 1, StartOf(parent, through))
           k == StartedIfNeeded(j)
           none == <<>>
<1>1. none \in Seq(Records) /\ Whole(none) /\ Reaches(none, 1 - 1)
      /\ \A i \in DOMAIN none : none[i].seq < 1
  BY EmptySeq DEF Whole, Reaches
<1> HIDE DEF none
<1>2. /\ j \in Journals /\ j.process = p /\ j.session = s /\ j.writer = "open"
      /\ Continues(none \o j.queue, j)
      /\ j.start.held /\ j.start.parent = parent
  BY <1>1, OpenedGoes
<1> HIDE DEF j
<1>3. /\ k \in Journals /\ SameHost(j, k) /\ k.writer = j.writer
      /\ ~k.start.held /\ Goes(none \o k.queue, k)
      /\ Bare((none \o k.queue)[Len(none \o k.queue)]) => j.start.held /\ j.start.parent = 0
  BY <1>1, <1>2, StartedGoes DEF Continues
<1>4. Continues(none \o k.queue, k)
  BY <1>2, <1>3 DEF Continues, Apart
<1> QED
  BY <1>2, <1>3, <1>4 DEF j, none, SameHost

(* run: the writer commits the first of what is queued.                    *)
LEMMA CommitGoes ==
  ASSUME NEW rows \in Seq(Records), NEW j \in Journals, Continues(rows \o j.queue, j),
         NEW n \in 1..Len(j.queue)
  PROVE  LET after == WithRows(rows, SubSeq(j.queue, 1, n))
             k == [j EXCEPT !.queue = SubSeq(@, n + 1, Len(@))] IN
         /\ after \in Seq(Records) /\ Whole(after) /\ after # <<>>
         /\ \A m \in Nat : Reaches(rows, m) => Reaches(after, m)
         /\ k \in Journals /\ SameHost(j, k) /\ k.writer = j.writer
         /\ Continues(after \o k.queue, k)
<1> DEFINE q == j.queue
           batch == SubSeq(q, 1, n)
           rest == SubSeq(q, n + 1, Len(q))
           after == WithRows(rows, batch)
           all == rows \o batch
           k == [j EXCEPT !.queue = SubSeq(@, n + 1, Len(@))]
<1>1. q \in Seq(Records) /\ Len(q) \in Nat /\ DOMAIN q = 1..Len(q)
  BY LenProperties DEF Journals
<1>2. \A i \in 1..Len(q) : q[i] \in Records
  BY <1>1, ElementOfSeq
<1>3. n \in Int /\ 1 <= n /\ n <= Len(q) /\ n + 1 \in Int /\ Len(q) \in Int /\ 1 \in Int
  BY <1>1
<1>4. batch \in Seq(Records) /\ Len(batch) = n
  <2>1. \A i \in 1..n : q[i] \in Records
    BY <1>1, <1>2, <1>3
  <2>2. Len(batch) = IF 1 <= n THEN n - 1 + 1 ELSE 0
    BY <1>3, <2>1, SubSeqProperties
  <2>3. batch \in Seq(Records)
    BY <1>3, <2>1, SubSeqProperties
  <2> QED
    BY <1>3, <2>2, <2>3
<1>5. rest \in Seq(Records)
  <2>1. \A i \in n + 1 .. Len(q) : q[i] \in Records
    BY <1>1, <1>2, <1>3
  <2> QED
    BY <1>3, <2>1, SubSeqProperties
<1>6. batch \o rest = q
  <2>1. batch \o rest = SubSeq(q, 1, Len(q))
    <3>1. 1 \in 1..Len(q) + 1 /\ n \in 1 - 1 .. Len(q) /\ Len(q) \in n .. Len(q)
      BY <1>1, <1>3
    <3> QED
      BY <1>1, <3>1, ConcatAdjacentSubSeq
  <2> QED
    BY <1>1, <2>1, SubSeqFull
<1>7. k = [j EXCEPT !.queue = rest]
  BY DEF Journals
<1>8. Continues(rows \o q, j)
  OBVIOUS
<1>9. j.next \in Nat /\ j.last \in Nat
  BY <1>8 DEF Continues, Goes, Journals
<1> HIDE DEF q, batch, rest, k, after
<1>10. all \in Seq(Records) /\ all # <<>> /\ Len(all) = Len(rows) + n
  <2>1. Len(rows) \in Nat
    BY LenProperties
  <2>2. all \in Seq(Records) /\ Len(all) = Len(rows) + Len(batch)
    BY <1>4, ConcatProperties
  <2>3. all = <<>> => Len(all) = 0
    BY EmptySeq
  <2> QED
    BY <1>3, <1>4, <2>1, <2>2, <2>3
<1>11. rows \o q = all \o rest
  <2>1. (rows \o batch) \o rest = rows \o (batch \o rest)
    BY <1>4, <1>5, ConcatAssociative
  <2> QED
    BY <1>6, <2>1
<1>12. after \in Seq(Records) /\ Thinned(all, after)
  BY <1>4, WithRowsThins DEF after
<1> DEFINE R == rows \o q
           T == after \o rest
<1>13. R = all \o rest
  BY <1>11
<1> HIDE DEF all
<1>14. T \in Seq(Records) /\ R \in Seq(Records) /\ Thinned(R, T)
  BY <1>1, <1>5, <1>10, <1>12, <1>13, ThinnedThenMore, ConcatProperties
<1>15. Whole(R) /\ Goes(R, j) /\ Apart(R, j)
  BY <1>8 DEF Continues, Goes
<1>16. /\ k \in Journals /\ SameHost(j, k) /\ k.writer = j.writer
       /\ k.queue = rest /\ k.next = j.next /\ k.last = j.last
       /\ k.start = j.start /\ k.turn = j.turn /\ k.empty = j.empty
  BY <1>5, <1>7 DEF Journals, SameHost
<1> HIDE DEF R, T
<1>17. /\ Whole(T)
       /\ R # <<>> => T # <<>> /\ T[Len(T)] = R[Len(R)]
       /\ T # <<>> => R # <<>>
       /\ \A m \in Nat : Reaches(R, m) => Reaches(T, m)
       /\ \A m \in Nat : (\A i \in DOMAIN R : R[i].seq < m) =>
                         (\A i \in DOMAIN T : T[i].seq < m)
  BY <1>14, <1>15, ThinnedWhole
<1>18. Continues(T, k)
  <2>1. Reaches(T, k.last)
    BY <1>9, <1>15, <1>16, <1>17 DEF Goes
  <2>2. \A i \in DOMAIN T : T[i].seq < k.next
    BY <1>9, <1>15, <1>16, <1>17 DEF Goes
  <2>3. Goes(T, k)
    BY <1>15, <1>16, <1>17, <2>1, <2>2 DEF Goes
  <2>4. Apart(T, k)
    BY <1>15, <1>16, <1>17 DEF Apart
  <2> QED
    BY <1>8, <1>16, <2>3, <2>4 DEF Continues
<1>19. Whole(all)
  BY <1>5, <1>10, <1>13, <1>15, WholeSoFar
<1>20. /\ Whole(after) /\ after # <<>>
       /\ \A m \in Nat : Reaches(all, m) => Reaches(after, m)
  BY <1>10, <1>12, <1>19, ThinnedWhole
<1>21. ASSUME NEW m \in Nat, Reaches(rows, m) PROVE Reaches(all, m)
  <2>1. /\ DOMAIN rows = 1..Len(rows) /\ Len(rows) \in Nat /\ DOMAIN all = 1..Len(all)
        /\ \A i \in 1..Len(rows) : all[i] = rows[i]
    <3>1. \A i \in 1 .. Len(rows) + Len(batch) :
            all[i] = IF i <= Len(rows) THEN rows[i] ELSE batch[i - Len(rows)]
      BY <1>4, ConcatProperties DEF all
    <3> QED
      BY <1>3, <1>4, <1>10, <3>1, LenProperties
  <2>2. \A i \in DOMAIN rows : i \in DOMAIN all /\ all[i] = rows[i]
    BY <1>3, <1>10, <2>1
  <2> QED
    BY <1>21, <2>2 DEF Reaches
<1>22. T = after \o k.queue
  BY <1>16 DEF T
<1> QED
  BY <1>12, <1>16, <1>18, <1>20, <1>21, <1>22 DEF after, k, batch, q
-----------------------------------------------------------------------------
(* The types of the variables.                                             *)
Panes == [shown : BOOLEAN, journal : Nat]
Tasks == [pane : Nat, session : Nat, phase : {"loading", "ready", "failed"},
          next : Nat, waits : BOOLEAN]
Forks == [pane : Nat, parent : Nat, through : Nat, of : Ids]
Loops == [awaits : {"nothing", "flush", "start", "writers"}, pane : Nat]
Whereabouts ==
  [at : {"sender", "worker", "opening", "answered"},
   process : Processes \cup {"none"}, pane : Nat]

StoreTypes ==
  /\ stored \in [Ids -> Seq(Records)]
  /\ born \in 0..MaxSessions
  /\ journals \in Seq(Journals)

LoopTypes ==
  /\ panes \in [Processes -> Seq(Panes)]
  /\ tasks \in [Processes -> SUBSET Tasks]
  /\ forks \in [Processes -> SUBSET Forks]
  /\ loop \in [Processes -> Loops]
  /\ message \in [Messages -> Whereabouts]
  /\ inherited \in [Ids -> [session : Nat, through : Nat]]

(* What is stored of a session is whole; nothing is of one that is not yet *)
(* born.                                                                   *)
RowsInv == \A s \in Ids : Whole(stored[s]) /\ (s > born => stored[s] = <<>>)

(* A journal that has a writer goes on from what is stored, and no other   *)
(* has one for its session.                                                *)
Writes(j) == j.writer \in {"open", "closed"}

WriterAt(i) ==
  LET j == journals[i] IN
  /\ j.writer # "gone" => j.session \in 1..born
  /\ Writes(j) => Continues(stored[j.session] \o j.queue, j)

OneWriter ==
  \A i, k \in DOMAIN journals :
    Writes(journals[i]) /\ Writes(journals[k])
      /\ journals[i].session = journals[k].session => i = k

WriterInv == (\A i \in DOMAIN journals : WriterAt(i)) /\ OneWriter

(* An open that is under way keeps all others, and writers, from its       *)
(* session; the number it has read is the next one.                        *)
Holds(t, s) == t.session = s /\ t.phase # "failed"

TaskAt(t) ==
  /\ t.session \in 0..born
  /\ t.session = 0 => t.next \in {1}
  /\ t.session # 0 /\ t.phase # "failed" => ~HasWriter(t.session)
  /\ t.session # 0 /\ t.phase = "ready" =>
       /\ t.next > 0 /\ Reaches(stored[t.session], t.next - 1)
       /\ \A i \in DOMAIN stored[t.session] : stored[t.session][i].seq < t.next

OneOpen ==
  \A p, q \in Processes : \A t \in tasks[p], u \in tasks[q] :
    t.session # 0 /\ Holds(t, t.session) /\ Holds(u, t.session) => p = q /\ t = u

TaskInv == (\A p \in Processes : \A t \in tasks[p] : TaskAt(t)) /\ OneOpen

(* The panes of a process that goes on have journals of their own, which   *)
(* are open unless their writer failed; what the loop awaits is one.       *)
LiveAt(p, k) ==
  LET i == panes[p][k].journal IN
  /\ i \in DOMAIN journals
  /\ journals[i].process = p /\ journals[i].writer \in {"open", "failed"}
  /\ \A l \in Live(p) : panes[p][l].journal = i => l = k

PaneAt(p) ==
  /\ loop[p].awaits # "writers" => \A k \in Live(p) : LiveAt(p, k)
  /\ loop[p].awaits \in {"flush", "start"} => loop[p].pane \in Live(p)

PaneInv == \A p \in Processes : PaneAt(p)

(* What a fork inherits is stored, when it is asked for and ever after.    *)
ForkInv ==
  /\ \A p \in Processes : \A f \in forks[p] : Reaches(stored[f.of], f.through)
  /\ \A s \in Ids : inherited[s].through > 0 =>
       /\ inherited[s].session \in Ids
       /\ Reaches(stored[inherited[s].session], inherited[s].through)

(* A message waits for an open of a process that there is.                 *)
MessageInv ==
  \A m \in Messages : message[m].at = "opening" => message[m].process \in Processes

KeptInv ==
  /\ StoreTypes /\ LoopTypes
  /\ RowsInv /\ WriterInv /\ TaskInv /\ PaneInv /\ ForkInv
  /\ MessageInv /\ NoMessageIsForgotten

LEMMA InitKept ==
  ASSUME Init
  PROVE  KeptInv
<1>1. /\ born \in {0, 1} /\ stored = [s \in Ids |-> IF s <= born THEN Earlier ELSE <<>>]
      /\ journals = <<>> /\ panes = [p \in Processes |-> <<>>]
      /\ tasks = [p \in Processes |-> {}] /\ forks = [p \in Processes |-> {}]
      /\ loop = [p \in Processes |-> Free]
      /\ message = [m \in Messages |-> Away]
      /\ inherited = [s \in Ids |-> [session |-> 0, through |-> 0]]
  BY DEF Init
<1>2. Earlier \in Seq(Records) /\ Whole(Earlier)
  <2>1. Record(1, "start", 0) \in Records /\ Record(2, "prompt", 1) \in Records
    BY DEF Record, Records, Kinds
  <2>2. Earlier \in Seq(Records) /\ Len(Earlier) = 2 /\ DOMAIN Earlier = {1, 2}
        /\ Earlier[1] = Record(1, "start", 0) /\ Earlier[2] = Record(2, "prompt", 1)
    BY <2>1 DEF Earlier
  <2>3. /\ Earlier[1].seq = 1 /\ Earlier[1].kind = "start"
        /\ Earlier[2].seq = 2 /\ Earlier[2].kind = "prompt"
    BY <2>2 DEF Record
  <2>4. \A i \in DOMAIN Earlier : i = 1 \/ i = 2
    BY <2>2
  <2> HIDE DEF Earlier
  <2>5. \A i \in DOMAIN Earlier : Earlier[i].seq > 0 /\ Earlier[i].kind \notin {"end", "draft"}
    BY <2>3, <2>4
  <2>6. \A i, k \in DOMAIN Earlier : i < k => Earlier[i].seq < Earlier[k].seq
    BY <2>3, <2>4
  <2> QED
    BY <2>2, <2>3, <2>5, <2>6 DEF Whole
<1>3. StoreTypes
  <2>1. stored \in [Ids -> Seq(Records)]
    <3>1. <<>> \in Seq(Records)
      BY EmptySeq
    <3> QED
      BY <1>1, <1>2, <3>1
  <2>2. journals \in Seq(Journals)
    BY <1>1, EmptySeq
  <2>3. born \in 0..MaxSessions
    BY <1>1, SessionsAssumption
  <2> QED
    BY <2>1, <2>2, <2>3 DEF StoreTypes
<1>4. LoopTypes
  <2>1. <<>> \in Seq(Panes)
    BY EmptySeq
  <2>2. Free \in Loops /\ Away \in Whereabouts
    BY DEF Free, Loops, Away, Whereabouts, None
  <2> QED
    BY <1>1, <2>1, <2>2 DEF LoopTypes
<1>5. RowsInv
  <2>1. Whole(<<>>)
    BY DEF Whole
  <2> QED
    BY <1>1, <1>2, <2>1 DEF RowsInv, Ids
<1>6. WriterInv
  BY <1>1 DEF WriterInv, OneWriter
<1>7. TaskInv
  BY <1>1 DEF TaskInv, OneOpen
<1>8. PaneInv
  <2>1. \A p \in Processes : Live(p) = {}
    BY <1>1 DEF Live
  <2>2. \A p \in Processes : loop[p].awaits = "nothing"
    BY <1>1 DEF Free
  <2> QED
    BY <2>1, <2>2 DEF PaneInv, PaneAt
<1>9. ForkInv
  BY <1>1 DEF ForkInv
<1>10. MessageInv /\ NoMessageIsForgotten
  BY <1>1 DEF MessageInv, NoMessageIsForgotten, Away
<1> QED
  BY <1>3, <1>4, <1>5, <1>6, <1>7, <1>8, <1>9, <1>10 DEF KeptInv

-----------------------------------------------------------------------------
(* What a step makes of the journals that there are: each is as it was, or *)
(* goes on from what is stored, or has no writer any more.                 *)
Follows(i) ==
  LET j == journals[i]
      k == journals'[i] IN
  \/ k = j
  \/ ~Writes(k) /\ (k.writer = "gone" \/ (j.writer # "gone" /\ k.session = j.session))
  \/ /\ Writes(j) /\ k.session = j.session
     /\ Continues(stored[k.session] \o k.queue, k)

Moves ==
  /\ stored' = stored /\ born' = born
  /\ journals' \in Seq(Journals) /\ Len(journals') = Len(journals)
  /\ \A i \in DOMAIN journals : Follows(i)

(* No session has a writer that had none.                                  *)
NoNewWriter == \A s \in Ids : HasWriter(s)' => HasWriter(s)

LEMMA JournalDomain ==
  ASSUME StoreTypes
  PROVE  /\ DOMAIN journals = 1..Len(journals) /\ Len(journals) \in Nat
         /\ \A i \in DOMAIN journals : journals[i] \in Journals
<1>1. journals \in Seq(Journals)
  BY DEF StoreTypes
<1> QED
  BY <1>1, LenProperties, ElementOfSeq

LEMMA MovesKeep ==
  ASSUME StoreTypes, RowsInv, WriterInv, Moves
  PROVE  StoreTypes' /\ RowsInv' /\ WriterInv' /\ NoNewWriter
<1>1. /\ DOMAIN journals = 1..Len(journals) /\ Len(journals) \in Nat
      /\ \A i \in DOMAIN journals : journals[i] \in Journals
  BY JournalDomain
<1>2. DOMAIN journals' = DOMAIN journals
  BY <1>1, LenProperties DEF Moves
<1>3. StoreTypes' /\ RowsInv'
  BY DEF Moves, StoreTypes, RowsInv
<1>4. ASSUME NEW i \in DOMAIN journals
      PROVE  /\ WriterAt(i)'
             /\ Writes(journals'[i]) =>
                  Writes(journals[i]) /\ journals'[i].session = journals[i].session
  <2>1. Follows(i) /\ WriterAt(i) /\ stored' = stored /\ born' = born
    BY <1>4 DEF Moves, WriterInv
  <2>2. CASE journals'[i] = journals[i]
    BY <2>1, <2>2 DEF WriterAt
  <2>3. CASE ~Writes(journals'[i]) /\ (journals'[i].writer = "gone"
               \/ (journals[i].writer # "gone" /\ journals'[i].session = journals[i].session))
    BY <2>1, <2>3 DEF WriterAt
  <2>4. CASE /\ Writes(journals[i]) /\ journals'[i].session = journals[i].session
             /\ Continues(stored[journals'[i].session] \o journals'[i].queue, journals'[i])
    BY <2>1, <2>4 DEF WriterAt, Writes
  <2> QED
    BY <2>1, <2>2, <2>3, <2>4 DEF Follows
<1>5. OneWriter'
  BY <1>2, <1>4 DEF OneWriter, WriterInv
<1>6. NoNewWriter
  BY <1>2, <1>4 DEF NoNewWriter, HasWriter, Writes
<1> QED
  BY <1>2, <1>3, <1>4, <1>5, <1>6 DEF WriterInv

(* Nothing of the store changes.                                           *)
LEMMA StoreStays ==
  ASSUME StoreTypes, RowsInv, WriterInv, UNCHANGED <<stored, born, journals>>
  PROVE  StoreTypes' /\ RowsInv' /\ WriterInv' /\ NoNewWriter
<1>1. Moves
  BY DEF Moves, Follows, StoreTypes
<1> QED
  BY <1>1, MovesKeep

(* One journal goes on.                                                    *)
LEMMA OneMoves ==
  ASSUME StoreTypes, NEW i \in DOMAIN journals, NEW k \in Journals,
         journals' = [journals EXCEPT ![i] = k], stored' = stored, born' = born,
         \/ ~Writes(k) /\ (k.writer = "gone" \/ (journals[i].writer # "gone"
                             /\ k.session = journals[i].session))
         \/ /\ Writes(journals[i]) /\ k.session = journals[i].session
            /\ Continues(stored[k.session] \o k.queue, k)
  PROVE  /\ Moves /\ journals'[i] = k
         /\ \A l \in DOMAIN journals : l # i => journals'[l] = journals[l]
<1>1. /\ DOMAIN journals = 1..Len(journals) /\ journals \in Seq(Journals)
  BY JournalDomain DEF StoreTypes
<1>2. /\ journals' \in Seq(Journals) /\ Len(journals') = Len(journals)
      /\ \A l \in 1..Len(journals) : journals'[l] = IF l = i THEN k ELSE journals[l]
  BY <1>1, ExceptSeq
<1>3. \A l \in DOMAIN journals : Follows(l)
  BY <1>1, <1>2 DEF Follows
<1> QED
  BY <1>1, <1>2, <1>3 DEF Moves

(* A journal that goes on where the session is, as the one in panes is.    *)
LEMMA Ongoing ==
  ASSUME StoreTypes, WriterInv, NEW i \in DOMAIN journals, Writes(journals[i])
  PROVE  /\ journals[i] \in Journals /\ journals[i].session \in 1..born
         /\ journals[i].session \in Ids
         /\ stored[journals[i].session] \in Seq(Records)
         /\ Continues(stored[journals[i].session] \o journals[i].queue, journals[i])
<1>1. journals[i] \in Journals /\ WriterAt(i)
  BY JournalDomain DEF WriterInv
<1>2. journals[i].session \in 1..born
  BY <1>1 DEF WriterAt, Writes
<1> QED
  BY <1>1, <1>2, SessionsAssumption DEF WriterAt, StoreTypes, Ids

-----------------------------------------------------------------------------
(* Opens that go on, and opens that end.                                   *)
LEMMA TasksStay ==
  ASSUME TaskInv, StoreTypes, StoreTypes', LoopTypes,
         stored' = stored, born' \in Nat, born <= born',
         \A p \in Processes : tasks'[p] \in SUBSET tasks[p],
         \A p \in Processes : \A t \in tasks'[p] :
           t.session # 0 /\ t.phase # "failed" =>
             (HasWriter(t.session)' => HasWriter(t.session))
  PROVE  TaskInv'
<1>1. ASSUME NEW p \in Processes, NEW t \in tasks'[p]
      PROVE  TaskAt(t)'
  <2>1. TaskAt(t) /\ t \in tasks[p]
    BY <1>1 DEF TaskInv
  <2>2. t.session \in 0..born'
    BY <2>1 DEF TaskAt, StoreTypes
  <2>3. t.session # 0 /\ t.phase # "failed" => ~HasWriter(t.session)'
    BY <1>1, <2>1 DEF TaskAt
  <2> QED
    BY <2>1, <2>2, <2>3 DEF TaskAt
<1>2. OneOpen'
  BY DEF TaskInv, OneOpen
<1> QED
  BY <1>1, <1>2 DEF TaskInv

(* Panes that stay as they are but for those that are shown.               *)
SamePanes ==
  /\ panes' \in [Processes -> Seq(Panes)]
  /\ \A p \in Processes :
       /\ Live(p)' = Live(p)
       /\ \A k \in Live(p) : panes'[p][k].journal = panes[p][k].journal

LEMMA PaneHidden ==
  ASSUME LoopTypes, NEW p \in Processes, NEW k,
         panes' = [panes EXCEPT ![p][k].shown = FALSE]
  PROVE  SamePanes
<1>1. panes \in [Processes -> Seq(Panes)] /\ panes[p] \in Seq(Panes)
  BY DEF LoopTypes
<1>2. /\ DOMAIN panes[p] = 1..Len(panes[p]) /\ Len(panes[p]) \in Nat
      /\ \A l \in DOMAIN panes[p] : panes[p][l] \in Panes
  BY <1>1, LenProperties, ElementOfSeq
<1> DEFINE hidden == [panes[p] EXCEPT ![k].shown = FALSE]
<1>3. /\ DOMAIN hidden = DOMAIN panes[p]
      /\ \A l \in DOMAIN panes[p] :
           hidden[l] \in Panes /\ hidden[l].journal = panes[p][l].journal
  BY <1>2 DEF Panes
<1>4. panes' = [panes EXCEPT ![p] = hidden]
  OBVIOUS
<1>5. hidden = [l \in 1..Len(panes[p]) |-> hidden[l]]
  BY <1>2
<1> HIDE DEF hidden
<1>6. hidden \in Seq(Panes)
  <2>1. hidden \in [1..Len(panes[p]) -> Panes]
    BY <1>2, <1>3, <1>5
  <2> QED
    BY <1>2, <2>1, SeqDef
<1>7. panes' \in [Processes -> Seq(Panes)]
  BY <1>1, <1>4, <1>6
<1>8. ASSUME NEW q \in Processes
      PROVE  /\ DOMAIN panes'[q] = DOMAIN panes[q]
             /\ \A l \in DOMAIN panes[q] : panes'[q][l].journal = panes[q][l].journal
  BY <1>1, <1>3, <1>4
<1>9. ASSUME NEW q \in Processes
      PROVE  Live(q)' = Live(q)
  BY <1>8 DEF Live
<1> QED
  BY <1>7, <1>8, <1>9 DEF SamePanes, Live

LEMMA PaneAdded ==
  ASSUME LoopTypes, NEW p \in Processes,
         panes' = [panes EXCEPT ![p] = Append(@, Sessionless)]
  PROVE  SamePanes
<1>1. panes \in [Processes -> Seq(Panes)] /\ panes[p] \in Seq(Panes)
  BY DEF LoopTypes
<1>2. Sessionless \in Panes /\ Sessionless.journal = 0
  BY DEF Sessionless, Panes
<1>3. /\ panes'[p] = Append(panes[p], Sessionless)
      /\ \A q \in Processes : q # p => panes'[q] = panes[q]
  BY <1>1
<1>4. /\ panes'[p] \in Seq(Panes) /\ DOMAIN panes[p] = 1..Len(panes[p])
      /\ Len(panes[p]) \in Nat
      /\ DOMAIN panes'[p] = 1..(Len(panes[p]) + 1)
      /\ \A l \in 1..Len(panes[p]) : panes'[p][l] = panes[p][l]
      /\ panes'[p][Len(panes[p]) + 1] = Sessionless
  BY <1>1, <1>2, <1>3, AppendProperties, LenProperties
<1>5. panes' \in [Processes -> Seq(Panes)]
  BY <1>1, <1>4
<1>6. Live(p)' = Live(p)
  <2>1. Live(p)' \subseteq Live(p)
    BY <1>2, <1>4 DEF Live
  <2>2. Live(p) \subseteq Live(p)'
    BY <1>4 DEF Live
  <2> QED
    BY <2>1, <2>2
<1>7. \A k \in Live(p) : panes'[p][k].journal = panes[p][k].journal
  BY <1>4 DEF Live
<1>8. ASSUME NEW q \in Processes, q # p
      PROVE  Live(q)' = Live(q) /\ panes'[q] = panes[q]
  BY <1>3, <1>8 DEF Live
<1> QED
  BY <1>5, <1>6, <1>7, <1>8 DEF SamePanes

(* The panes of a process stay live.                                       *)
LEMMA PaneStays ==
  ASSUME NEW p \in Processes, PaneAt(p), DOMAIN journals \in SUBSET DOMAIN journals',
         loop'[p].awaits # "writers" => loop[p].awaits # "writers",
         \A k \in Live(p)' :
           k \in Live(p) /\ panes'[p][k].journal = panes[p][k].journal,
         \A k \in Live(p)' : loop'[p].awaits # "writers" /\ LiveAt(p, k) =>
           LET i == panes[p][k].journal IN
           journals'[i].process = p /\ journals'[i].writer \in {"open", "failed"},
         loop'[p].awaits \in {"flush", "start"} => loop'[p].pane \in Live(p)'
  PROVE  PaneAt(p)'
<1>1. ASSUME NEW k \in Live(p)', loop'[p].awaits # "writers"
      PROVE  LiveAt(p, k)'
  <2>1. k \in Live(p) /\ panes'[p][k].journal = panes[p][k].journal /\ LiveAt(p, k)
    BY <1>1 DEF PaneAt
  <2>2. panes[p][k].journal \in DOMAIN journals
    BY <2>1 DEF LiveAt
  <2>3. \A l \in Live(p)' : panes'[p][l].journal = panes[p][k].journal => l = k
    BY <2>1 DEF LiveAt
  <2> QED
    BY <1>1, <2>1, <2>2, <2>3 DEF LiveAt
<1> QED
  BY <1>1 DEF PaneAt

(* No journal of a pane ends.                                              *)
NoneEnds ==
  /\ DOMAIN journals \in SUBSET DOMAIN journals'
  /\ \A i \in DOMAIN journals : journals[i].writer \in {"open", "failed"} =>
       /\ journals'[i].process = journals[i].process
       /\ journals'[i].writer \in {"open", "failed"}

LEMMA PanesStay ==
  ASSUME PaneInv, SamePanes, NoneEnds, loop' = loop
  PROVE  PaneInv'
<1>1. ASSUME NEW p \in Processes
      PROVE  PaneAt(p)'
  <2>1. PaneAt(p) /\ Live(p)' = Live(p)
        /\ \A k \in Live(p) : panes'[p][k].journal = panes[p][k].journal
    BY DEF PaneInv, SamePanes
  <2>2. \A k \in Live(p)' : LiveAt(p, k) =>
           LET i == panes[p][k].journal IN
           journals'[i].process = p /\ journals'[i].writer \in {"open", "failed"}
    BY <2>1 DEF LiveAt, NoneEnds
  <2>3. loop[p].awaits \in {"flush", "start"} => loop[p].pane \in Live(p)'
    BY <2>1 DEF PaneAt
  <2> QED
    BY <2>1, <2>2, <2>3, PaneStays DEF NoneEnds
<1> QED
  BY <1>1 DEF PaneInv

LEMMA SameStays ==
  ASSUME LoopTypes, panes' = panes PROVE SamePanes
BY DEF SamePanes, Live, LoopTypes

LEMMA ForksStay ==
  ASSUME ForkInv, stored' = stored, inherited' = inherited,
         \A p \in Processes : forks'[p] \in SUBSET forks[p]
  PROVE  ForkInv'
BY DEF ForkInv

(* Messages that wait, and the opens that they wait for.                   *)
Placed(ms, there) ==
  message' = [m \in Messages |-> IF m \in ms THEN there ELSE message[m]]

LEMMA PlacedIs ==
  ASSUME LoopTypes, NEW ms, NEW there \in Whereabouts, Placed(ms, there)
  PROVE  /\ message' \in [Messages -> Whereabouts]
         /\ \A m \in Messages : m \in ms => message'[m] = there
         /\ \A m \in Messages : m \notin ms => message'[m] = message[m]
BY DEF LoopTypes, Placed

LEMMA MessagesStay ==
  ASSUME MessageInv, NoMessageIsForgotten,
         \A m \in Messages : message'[m].at = "opening" => message'[m] = message[m],
         \A p \in Processes : \A t \in tasks[p] : \E u \in tasks'[p] : u.pane = t.pane
  PROVE  MessageInv' /\ NoMessageIsForgotten'
<1>1. ASSUME NEW m \in Messages, message'[m].at = "opening"
      PROVE  /\ message'[m].process \in Processes
             /\ \E u \in tasks'[message'[m].process] : u.pane = message'[m].pane
  <2>1. message'[m] = message[m] /\ message[m].process \in Processes
    BY <1>1 DEF MessageInv
  <2>2. PICK t \in tasks[message[m].process] : t.pane = message[m].pane
    BY <1>1, <2>1 DEF NoMessageIsForgotten
  <2> QED
    BY <2>1, <2>2
<1> QED
  BY <1>1 DEF MessageInv, NoMessageIsForgotten

-----------------------------------------------------------------------------
(* Steps of the panes that leave the journals alone.                       *)
LEMMA StoreAlone ==
  ASSUME KeptInv, UNCHANGED <<stored, born, journals, inherited>>,
         SamePanes, loop' = loop,
         \A p \in Processes : forks'[p] \in SUBSET forks[p]
  PROVE  /\ StoreTypes' /\ RowsInv' /\ WriterInv' /\ PaneInv' /\ ForkInv'
         /\ \A s : HasWriter(s)' = HasWriter(s)
<1>1. StoreTypes' /\ RowsInv' /\ WriterInv'
  BY StoreStays DEF KeptInv
<1>2. NoneEnds
  BY DEF NoneEnds
<1>3. PaneInv' /\ ForkInv'
  BY <1>2, PanesStay, ForksStay DEF KeptInv
<1>4. \A s : HasWriter(s)' = HasWriter(s)
  BY DEF HasWriter
<1> QED
  BY <1>1, <1>3, <1>4

(* Steps of the journals that leave the panes alone.                       *)
LEMMA JournalsAlone ==
  ASSUME KeptInv, Moves, NoneEnds, UNCHANGED <<panes, tasks, forks, loop, inherited>>,
         message' \in [Messages -> Whereabouts],
         \A m \in Messages : message'[m].at = "opening" => message'[m] = message[m]
  PROVE  KeptInv'
<1>1. StoreTypes' /\ RowsInv' /\ WriterInv' /\ NoNewWriter
  BY MovesKeep DEF KeptInv
<1>2. stored' = stored /\ born' = born
  BY DEF Moves
<1>3. PaneInv'
  BY SameStays, PanesStay DEF KeptInv
<1>4. ForkInv'
  BY <1>2 DEF KeptInv, ForkInv
<1>5. TaskInv'
  <2>1. ASSUME NEW p \in Processes, NEW t \in tasks'[p],
               t.session # 0, t.phase # "failed"
        PROVE  HasWriter(t.session)' => HasWriter(t.session)
    <3>1. t.session \in 0..born
      BY <2>1 DEF KeptInv, TaskInv, TaskAt
    <3>2. t.session \in Ids
      BY <2>1, <3>1, SessionsAssumption DEF KeptInv, StoreTypes, Ids
    <3> QED
      BY <1>1, <3>2 DEF NoNewWriter
  <2>2. born' \in Nat /\ born <= born'
    BY <1>2, SessionsAssumption DEF KeptInv, StoreTypes
  <2> QED
    BY <1>1, <1>2, <2>1, <2>2, TasksStay DEF KeptInv
<1>6. LoopTypes'
  BY DEF KeptInv, LoopTypes
<1>7. MessageInv' /\ NoMessageIsForgotten'
  BY MessagesStay DEF KeptInv
<1> QED
  BY <1>1, <1>3, <1>4, <1>5, <1>6, <1>7 DEF KeptInv
-----------------------------------------------------------------------------
(* One lemma for each action: what is recorded and what is committed.      *)

(* The journal of a pane, in a loop that is ready.                         *)
LEMMA PaneJournal ==
  ASSUME KeptInv, NEW p \in Processes, NEW k \in Live(p), loop[p].awaits # "writers"
  PROVE  /\ panes[p][k].journal \in DOMAIN journals
         /\ journals[panes[p][k].journal] \in Journals
         /\ journals[panes[p][k].journal].process = p
         /\ journals[panes[p][k].journal].session \in 1..born
         /\ journals[panes[p][k].journal].session \in Ids
<1>1. LiveAt(p, k)
  BY DEF KeptInv, PaneInv, PaneAt
<1>2. /\ panes[p][k].journal \in DOMAIN journals
      /\ journals[panes[p][k].journal].process = p
      /\ journals[panes[p][k].journal].writer # "gone"
  BY <1>1 DEF LiveAt
<1>3. journals[panes[p][k].journal] \in Journals
  BY <1>2, JournalDomain DEF KeptInv
<1>4. journals[panes[p][k].journal].session \in 1..born
  BY <1>2 DEF KeptInv, WriterInv, WriterAt
<1> QED
  BY <1>2, <1>3, <1>4, SessionsAssumption DEF KeptInv, StoreTypes, Ids

LEMMA ReadyIs ==
  ASSUME NEW p, Ready(p)
  PROVE  loop[p].awaits = "nothing"
BY DEF Ready, Free

LEMMA AppendsKeeps ==
  ASSUME KeptInv, NEW p \in Processes, NEW k \in Nat,
         NEW kind \in {"prompt", "draft", "final", "api"}, Appends(p, k, kind)
  PROVE  KeptInv'
<1> DEFINE i == panes[p][k].journal
           j == journals[i]
           new == IF kind = "prompt" THEN AppendPrompt(j) ELSE AppendAgent(j, kind)
<1>1. /\ Ready(p) /\ k \in Live(p) /\ j.writer = "open"
      /\ kind # "prompt" => j.turn > 0
      /\ journals' = [journals EXCEPT ![i] = new]
      /\ UNCHANGED <<stored, born, panes, tasks, forks, loop, message, inherited>>
  BY DEF Appends
<1>2. i \in DOMAIN journals
  BY <1>1, ReadyIs, PaneJournal
<1>3. /\ j \in Journals /\ stored[j.session] \in Seq(Records)
      /\ Continues(stored[j.session] \o j.queue, j)
  BY <1>1, <1>2, Ongoing DEF KeptInv, Writes
<1>4. /\ new \in Journals /\ SameHost(j, new) /\ new.writer = "open"
      /\ Continues(stored[j.session] \o new.queue, new)
  <2>1. CASE kind = "prompt"
    BY ZenonT(40), <1>1, <1>3, <2>1, PromptGoes
  <2>2. CASE kind # "prompt"
    <3>1. kind \in {"draft", "final", "api"} /\ j.turn > 0
      BY <1>1, <2>2
    <3> QED
      BY <1>1, <1>3, <2>2, <3>1, AgentGoes
  <2> QED
    BY <2>1, <2>2
<1> HIDE DEF new, i
<1>5. /\ Moves /\ journals'[i] = new
      /\ \A l \in DOMAIN journals : l # i => journals'[l] = journals[l]
  <2>1. Writes(j) /\ new.session = j.session
    BY <1>1, <1>4 DEF Writes, SameHost
  <2> QED
    BY <1>1, <1>2, <1>4, <2>1, OneMoves DEF KeptInv
<1>6. NoneEnds
  <2>1. DOMAIN journals' = DOMAIN journals
    BY <1>1
  <2> QED
    BY <1>4, <1>5, <2>1 DEF NoneEnds, SameHost
<1> QED
  BY <1>1, <1>5, <1>6, JournalsAlone DEF KeptInv, LoopTypes

(* What is stored of one session grows, and nothing else of it.            *)
LEMMA CommitsKeeps ==
  ASSUME KeptInv, NEW j \in DOMAIN journals, Commits(j)
  PROVE  KeptInv'
<1> DEFINE s == journals[j].session
           rows == stored[s]
           q == journals[j].queue
<1>1. /\ Writes(journals[j])
      /\ UNCHANGED <<born, panes, tasks, forks, loop, message, inherited>>
  BY DEF Commits, Writes
<1>2. PICK n \in 1..Len(q) :
        /\ stored' = [stored EXCEPT ![s] = WithRows(rows, SubSeq(q, 1, n))]
        /\ journals' = [journals EXCEPT ![j].queue = SubSeq(q, n + 1, Len(q))]
  BY DEF Commits
<1>3. /\ journals[j] \in Journals /\ s \in 1..born /\ s \in Ids
      /\ rows \in Seq(Records) /\ Continues(rows \o q, journals[j])
  BY <1>1, Ongoing DEF KeptInv
<1> DEFINE after == WithRows(rows, SubSeq(q, 1, n))
           k == [journals[j] EXCEPT !.queue = SubSeq(@, n + 1, Len(@))]
<1>4. /\ after \in Seq(Records) /\ Whole(after)
      /\ \A m \in Nat : Reaches(rows, m) => Reaches(after, m)
      /\ k \in Journals /\ SameHost(journals[j], k) /\ k.writer = journals[j].writer
      /\ Continues(after \o k.queue, k)
  BY <1>3, CommitGoes
<1>5. stored' = [stored EXCEPT ![s] = after]
  BY <1>2
<1>6. journals' = [journals EXCEPT ![j] = k]
  BY <1>2
<1> HIDE DEF after, k
<1>7. stored \in [Ids -> Seq(Records)] /\ journals \in Seq(Journals)
  BY DEF KeptInv, StoreTypes
<1>8. /\ stored' \in [Ids -> Seq(Records)] /\ stored'[s] = after
      /\ \A r \in Ids : r # s => stored'[r] = stored[r]
  BY <1>3, <1>4, <1>5, <1>7
<1>9. /\ DOMAIN journals = 1..Len(journals) /\ Len(journals) \in Nat
      /\ \A i \in DOMAIN journals : journals[i] \in Journals
  BY JournalDomain DEF KeptInv
<1>10. /\ journals' \in Seq(Journals) /\ DOMAIN journals' = DOMAIN journals
       /\ journals'[j] = k
       /\ \A i \in DOMAIN journals : i # j => journals'[i] = journals[i]
  BY <1>4, <1>6, <1>7, <1>9, ExceptSeq
<1>11. StoreTypes'
  BY <1>1, <1>8, <1>10 DEF KeptInv, StoreTypes
<1>12. \A i \in DOMAIN journals :
         /\ journals'[i].process = journals[i].process
         /\ journals'[i].session = journals[i].session
         /\ journals'[i].writer = journals[i].writer
  BY <1>4, <1>10 DEF SameHost
<1>13. RowsInv'
  <2>1. ASSUME NEW r \in Ids PROVE Whole(stored'[r]) /\ (r > born' => stored'[r] = <<>>)
    <3>1. CASE r = s
      <4>1. ~(r > born')
        BY <1>1, <1>3, <3>1, SessionsAssumption DEF KeptInv, StoreTypes
      <4> QED
        BY <1>4, <1>8, <3>1, <4>1
    <3>2. CASE r # s
      BY <1>1, <1>8, <3>2 DEF KeptInv, RowsInv
    <3> QED
      BY <3>1, <3>2
  <2> QED
    BY <2>1 DEF RowsInv
<1>14. OneWriter'
  BY <1>10, <1>12 DEF KeptInv, WriterInv, OneWriter, Writes
<1>15. ASSUME NEW i \in DOMAIN journals' PROVE WriterAt(i)'
  <2>1. i \in DOMAIN journals /\ WriterAt(i)
    BY <1>10, <1>15 DEF KeptInv, WriterInv
  <2>2. CASE i = j
    <3>1. journals'[i] = k /\ k.session = s /\ stored'[s] = after
      BY <1>4, <1>8, <1>10, <2>2 DEF SameHost
    <3> QED
      BY <1>1, <1>3, <1>4, <3>1 DEF WriterAt
  <2>3. CASE i # j
    <3>1. journals'[i] = journals[i]
      BY <1>10, <2>1, <2>3
    <3>2. ASSUME Writes(journals[i])
          PROVE  stored'[journals[i].session] = stored[journals[i].session]
      <4>1. journals[i].session # s
        BY <1>1, <2>1, <2>3, <3>2 DEF KeptInv, WriterInv, OneWriter
      <4>2. journals[i].session \in Ids
        BY <2>1, <3>2, Ongoing DEF KeptInv
      <4> QED
        BY <1>8, <4>1, <4>2
    <3> QED
      BY <1>1, <2>1, <3>1, <3>2 DEF WriterAt
  <2> QED
    BY <2>2, <2>3
<1>16. \A r : HasWriter(r)' = HasWriter(r)
  BY <1>10, <1>12 DEF HasWriter
<1>17. HasWriter(s)
  BY <1>1 DEF HasWriter, Writes
<1>18. TaskInv'
  <2>1. ASSUME NEW p \in Processes, NEW t \in tasks'[p] PROVE TaskAt(t)'
    <3>1. TaskAt(t)
      BY <1>1, <2>1 DEF KeptInv, TaskInv
    <3>2. ASSUME t.session # 0, t.phase # "failed"
          PROVE  stored'[t.session] = stored[t.session]
      <4>1. t.session # s
        BY <1>17, <3>1, <3>2 DEF TaskAt
      <4>2. t.session \in Ids
        BY <3>1, <3>2, SessionsAssumption DEF TaskAt, KeptInv, StoreTypes, Ids
      <4> QED
        BY <1>8, <4>1, <4>2
    <3> QED
      BY <1>1, <1>16, <3>1, <3>2 DEF TaskAt
  <2> QED
    BY <1>1, <2>1 DEF KeptInv, TaskInv, OneOpen
<1>19. PaneInv'
  <2>1. NoneEnds
    BY <1>10, <1>12 DEF NoneEnds
  <2> QED
    BY <1>1, <2>1, SameStays, PanesStay DEF KeptInv
<1>20. ForkInv'
  <2>1. ASSUME NEW r \in Ids, NEW m \in Nat, Reaches(stored[r], m)
        PROVE  Reaches(stored'[r], m)
    BY <1>4, <1>8, <2>1
  <2>2. ASSUME NEW p \in Processes, NEW f \in forks'[p]
        PROVE  Reaches(stored'[f.of], f.through)
    <3>1. f \in Forks /\ Reaches(stored[f.of], f.through)
      BY <1>1, <2>2 DEF KeptInv, LoopTypes, ForkInv
    <3> QED
      BY <2>1, <3>1 DEF Forks
  <2>3. ASSUME NEW r \in Ids, inherited'[r].through > 0
        PROVE  /\ inherited'[r].session \in Ids
               /\ Reaches(stored'[inherited'[r].session], inherited'[r].through)
    <3>1. inherited' = inherited /\ inherited[r].through \in Nat
      BY <1>1 DEF KeptInv, LoopTypes
    <3>2. /\ inherited[r].session \in Ids
          /\ Reaches(stored[inherited[r].session], inherited[r].through)
      BY <2>3, <3>1 DEF KeptInv, ForkInv
    <3> QED
      BY <2>1, <3>1, <3>2
  <2> QED
    BY <2>2, <2>3 DEF ForkInv
<1>21. LoopTypes' /\ MessageInv' /\ NoMessageIsForgotten'
  BY <1>1 DEF KeptInv, LoopTypes, MessageInv, NoMessageIsForgotten
<1> QED
  BY <1>11, <1>13, <1>14, <1>15, <1>18, <1>19, <1>20, <1>21 DEF KeptInv, WriterInv

LEMMA CommitFailsKeeps ==
  ASSUME KeptInv, NEW j \in DOMAIN journals, CommitFails(j)
  PROVE  KeptInv'
<1> DEFINE k == [journals[j] EXCEPT !.queue = <<>>, !.writer = "failed"]
<1>1. /\ Writes(journals[j])
      /\ journals' = [journals EXCEPT ![j] = k]
      /\ UNCHANGED <<stored, born, panes, tasks, forks, loop, message, inherited>>
  BY DEF CommitFails, Writes
<1>2. journals[j] \in Journals
  BY JournalDomain DEF KeptInv
<1>3. /\ k \in Journals /\ k.writer = "failed" /\ k.session = journals[j].session
      /\ k.process = journals[j].process
  <2>1. <<>> \in Seq(Records)
    BY EmptySeq
  <2> QED
    BY <1>2, <2>1 DEF Journals
<1> HIDE DEF k
<1>4. /\ Moves /\ journals'[j] = k
      /\ \A l \in DOMAIN journals : l # j => journals'[l] = journals[l]
  <2>1. ~Writes(k) /\ journals[j].writer # "gone"
    BY <1>1, <1>3 DEF Writes
  <2> QED
    BY <1>1, <1>3, <2>1, OneMoves DEF KeptInv
<1>5. NoneEnds
  <2>1. DOMAIN journals' = DOMAIN journals
    BY <1>1
  <2> QED
    BY <1>3, <1>4, <2>1 DEF NoneEnds
<1> QED
  BY <1>1, <1>4, <1>5, JournalsAlone DEF KeptInv, LoopTypes

LEMMA GoneIs == Gone \in Journals /\ Gone.writer = "gone"
<1> DEFINE none == Opened("none", 0, 0, NoStart)
<1>1. <<>> \in Seq(Records) /\ -1 \in Int
  BY EmptySeq
<1>2. NoStart \in [held : BOOLEAN, parent : Nat, through : Nat]
  BY DEF NoStart
<1>3. none \in Journals
  BY <1>1, <1>2 DEF Opened, Journals
<1> HIDE DEF none
<1>4. [none EXCEPT !.writer = "gone"] \in Journals
      /\ [none EXCEPT !.writer = "gone"].writer = "gone"
  BY <1>3 DEF Journals
<1> QED
  BY <1>4 DEF Gone, none

LEMMA WriterEndsKeeps ==
  ASSUME KeptInv, NEW j \in DOMAIN journals, WriterEnds(j)
  PROVE  KeptInv'
<1>1. /\ journals[j].writer = "closed"
      /\ journals' = [journals EXCEPT ![j] = Gone]
      /\ UNCHANGED <<stored, born, panes, tasks, forks, loop, message, inherited>>
  BY DEF WriterEnds
<1>2. /\ Moves
      /\ \A l \in DOMAIN journals : l # j => journals'[l] = journals[l]
  <2>1. ~Writes(Gone)
    BY GoneIs DEF Writes
  <2> QED
    BY <1>1, <2>1, GoneIs, OneMoves DEF KeptInv
<1>3. NoneEnds
  <2>1. DOMAIN journals' = DOMAIN journals
    BY <1>1
  <2> QED
    BY <1>1, <1>2, <2>1 DEF NoneEnds
<1> QED
  BY <1>1, <1>2, <1>3, JournalsAlone DEF KeptInv, LoopTypes

-----------------------------------------------------------------------------
(* One lemma for each action: opening.                                     *)
LEMMA TaskAdded ==
  ASSUME KeptInv, NEW p \in Processes, NEW t \in Tasks, t.phase = "loading",
         t.session \in 0..born, t.next = 1, t.session # 0 => ~Locked(t.session),
         tasks' = [tasks EXCEPT ![p] = @ \cup {t}],
         UNCHANGED <<stored, born, journals>>
  PROVE  /\ TaskInv' /\ tasks' \in [Processes -> SUBSET Tasks]
         /\ t \in tasks'[p]
         /\ \A q \in Processes : \A u \in tasks[q] : u \in tasks'[q]
<1>1. tasks \in [Processes -> SUBSET Tasks]
  BY DEF KeptInv, LoopTypes
<1>2. /\ tasks'[p] = tasks[p] \cup {t}
      /\ \A q \in Processes : q # p => tasks'[q] = tasks[q]
  BY <1>1
<1>3. \A s : HasWriter(s)' = HasWriter(s)
  BY DEF HasWriter
<1>4. t.session # 0 => ~HasWriter(t.session) /\ ~Loading(t.session)
  BY DEF Locked
<1>5. ASSUME NEW q \in Processes, NEW u \in tasks'[q] PROVE TaskAt(u)'
  <2>1. CASE u = t
    BY <1>3, <1>4, <2>1 DEF TaskAt
  <2>2. CASE u # t
    <3>1. TaskAt(u)
      BY <1>2, <1>5, <2>2 DEF KeptInv, TaskInv
    <3> QED
      BY <1>3, <3>1 DEF TaskAt
  <2> QED
    BY <2>1, <2>2
<1>6. OneOpen'
  <2> SUFFICES ASSUME NEW q \in Processes, NEW r \in Processes,
                      NEW u \in tasks'[q], NEW v \in tasks'[r], u.session # 0,
                      Holds(u, u.session), Holds(v, u.session)
               PROVE  q = r /\ u = v
    BY DEF OneOpen
  <2>1. CASE u \in tasks[q] /\ v \in tasks[r]
    BY <2>1 DEF KeptInv, TaskInv, OneOpen
  <2>2. CASE u \notin tasks[q] /\ v \notin tasks[r]
    BY <1>2, <2>2
  <2>3. CASE u \notin tasks[q] /\ v \in tasks[r]
    <3>1. u = t /\ Loading(t.session)
      BY <1>2, <2>3 DEF Loading, Holds
    <3> QED
      BY <1>4, <3>1
  <2>4. CASE u \in tasks[q] /\ v \notin tasks[r]
    <3>1. v = t /\ t.session = u.session /\ Loading(t.session)
      BY <1>2, <2>4 DEF Loading, Holds
    <3> QED
      BY <1>4, <3>1
  <2> QED
    BY <2>1, <2>2, <2>3, <2>4
<1> QED
  BY <1>1, <1>2, <1>5, <1>6 DEF TaskInv

LEMMA OpenKeeps ==
  ASSUME KeptInv, NEW p \in Processes, NEW k \in Nat, NEW s \in 0..born, Open(p, k, s)
  PROVE  KeptInv'
<1>1. /\ UNCHANGED <<stored, born, journals, forks, loop, message, inherited>>
      /\ tasks' = [tasks EXCEPT ![p] = @ \cup {Task(k, s, k = NewPane(p))}]
      /\ s # 0 => Resumable(s)
      /\ OpensIn(p, k, s)
  BY DEF Open
<1>2. SamePanes
  BY <1>1, PaneAdded, SameStays DEF OpensIn, KeptInv
<1>3. /\ StoreTypes' /\ RowsInv' /\ WriterInv' /\ PaneInv' /\ ForkInv'
  BY <1>1, <1>2, StoreAlone
<1> DEFINE t == Task(k, s, k = NewPane(p))
<1>4. /\ t \in Tasks /\ t.phase = "loading" /\ t.session = s /\ t.next = 1
  <2>1. s \in Nat /\ (k = NewPane(p)) \in BOOLEAN
    BY DEF KeptInv, StoreTypes
  <2> QED
    BY <2>1 DEF Task, Tasks
<1> HIDE DEF t
<1>5. /\ TaskInv' /\ tasks' \in [Processes -> SUBSET Tasks]
      /\ \A q \in Processes : \A u \in tasks[q] : u \in tasks'[q]
  <2>1. t.session # 0 => ~Locked(t.session)
    BY <1>1, <1>4 DEF Resumable
  <2>2. tasks' = [tasks EXCEPT ![p] = @ \cup {t}]
    BY <1>1 DEF t
  <2> QED
    BY <1>1, <1>4, <2>1, <2>2, TaskAdded
<1>6. LoopTypes'
  BY <1>1, <1>2, <1>5 DEF KeptInv, LoopTypes, SamePanes
<1>7. MessageInv' /\ NoMessageIsForgotten'
  BY <1>1, <1>5, MessagesStay DEF KeptInv
<1> QED
  BY <1>3, <1>5, <1>6, <1>7 DEF KeptInv

(* next_sequence, of a whole session, is past all it has by one.           *)
LEMMA NextSequenceIs ==
  ASSUME NEW rows \in Seq(Records), Whole(rows)
  PROVE  /\ NextSequence(rows) \in Nat \ {0}
         /\ Reaches(rows, NextSequence(rows) - 1)
         /\ \A i \in DOMAIN rows : rows[i].seq < NextSequence(rows)
<1> DEFINE seqs == {0} \cup {rows[i].seq : i \in DOMAIN rows}
           last == IF rows = <<>> THEN 0 ELSE rows[Len(rows)].seq
<1>1. /\ Len(rows) \in Nat /\ DOMAIN rows = 1..Len(rows)
      /\ \A i \in DOMAIN rows : rows[i] \in Records
      /\ rows # <<>> => Len(rows) \in DOMAIN rows
  BY LenProperties, ElementOfSeq, EmptySeq
<1>2. \A i \in DOMAIN rows : rows[i].seq \in Nat
  BY <1>1 DEF Records
<1>3. last \in Nat /\ last \in seqs
  BY <1>1, <1>2
<1>4. \A i \in DOMAIN rows : rows[i].seq <= last
  <2> TAKE i \in DOMAIN rows
  <2>1. rows # <<>> /\ (i = Len(rows) \/ i < Len(rows)) /\ Len(rows) \in DOMAIN rows
    BY <1>1
  <2> QED
    BY <1>2, <2>1 DEF Whole
<1>5. \A n \in seqs : n \in Nat /\ n <= last
  BY <1>2, <1>3, <1>4
<1> HIDE DEF seqs
<1>6. Max(seqs) = last
  <2>1. \E n \in seqs : \A m \in seqs : n >= m
    BY <1>3, <1>5
  <2>2. Max(seqs) \in seqs /\ \A m \in seqs : Max(seqs) >= m
    BY <2>1 DEF Max
  <2>3. Max(seqs) \in Nat /\ Max(seqs) <= last
    BY <1>5, <2>2
  <2>4. Max(seqs) >= last
    BY <1>3, <2>2
  <2> HIDE DEF last
  <2> QED
    BY <1>3, <2>3, <2>4
<1>7. NextSequence(rows) = last + 1
  BY <1>6 DEF NextSequence, seqs
<1>8. Reaches(rows, last)
  BY <1>1, <1>2, <1>3 DEF Reaches
<1> HIDE DEF last
<1> QED
  BY <1>2, <1>3, <1>4, <1>7, <1>8

(* An open that is loaded, or cannot be.                                   *)
LEMMA TaskReplaced ==
  ASSUME KeptInv, NEW p \in Processes, NEW t \in tasks[p], NEW u \in Tasks,
         t.phase = "loading", u.session = t.session, u.pane = t.pane, TaskAt(u),
         tasks' = [tasks EXCEPT ![p] = (@ \ {t}) \cup {u}],
         UNCHANGED <<stored, born, journals>>
  PROVE  /\ TaskInv' /\ tasks' \in [Processes -> SUBSET Tasks]
         /\ \A q \in Processes : \A v \in tasks[q] : \E w \in tasks'[q] : w.pane = v.pane
<1>1. tasks \in [Processes -> SUBSET Tasks]
  BY DEF KeptInv, LoopTypes
<1>2. /\ tasks'[p] = (tasks[p] \ {t}) \cup {u}
      /\ \A q \in Processes : q # p => tasks'[q] = tasks[q]
  BY <1>1
<1>3. \A s : HasWriter(s)' = HasWriter(s)
  BY DEF HasWriter
<1>4. ASSUME NEW q \in Processes, NEW v \in tasks'[q] PROVE TaskAt(v)'
  <2>1. TaskAt(v)
    BY <1>2, <1>4 DEF KeptInv, TaskInv
  <2> QED
    BY <1>3, <2>1 DEF TaskAt
<1>5. OneOpen'
  <2> SUFFICES ASSUME NEW q \in Processes, NEW r \in Processes,
                      NEW v \in tasks'[q], NEW w \in tasks'[r], v.session # 0,
                      Holds(v, v.session), Holds(w, v.session)
               PROVE  q = r /\ v = w
    BY DEF OneOpen
  <2>1. OneOpen /\ Holds(t, u.session)
    BY DEF KeptInv, TaskInv, Holds
  <2>2. CASE v \in tasks[q] \ {t} /\ w \in tasks[r] \ {t}
    BY <2>1, <2>2 DEF OneOpen
  <2>3. CASE q = p /\ v = u /\ w \in tasks[r] /\ (r # p \/ w # t)
    BY <2>1, <2>3 DEF OneOpen, Holds
  <2>4. CASE r = p /\ w = u /\ v \in tasks[q] /\ (q # p \/ v # t)
    BY <2>1, <2>4 DEF OneOpen, Holds
  <2>5. CASE q = p /\ v = u /\ r = p /\ w = u
    BY <2>5
  <2>6. CASE v \in tasks[q] /\ w \in tasks[r]
    BY <2>1, <2>6 DEF OneOpen
  <2> QED
    BY <1>2, <2>2, <2>3, <2>4, <2>5, <2>6
<1>6. ASSUME NEW q \in Processes, NEW v \in tasks[q]
      PROVE  \E w \in tasks'[q] : w.pane = v.pane
  BY <1>2, <1>6
<1> QED
  BY <1>1, <1>2, <1>4, <1>5, <1>6 DEF TaskInv

LEMMA LoadsKeeps ==
  ASSUME KeptInv, NEW p \in Processes, NEW t \in tasks[p], Loads(p, t)
  PROVE  KeptInv'
<1> DEFINE next == IF t.session = 0 THEN 1 ELSE NextSequence(stored[t.session])
           ready == [t EXCEPT !.phase = "ready", !.next = next]
           failed == [t EXCEPT !.phase = "failed"]
<1>1. /\ UNCHANGED <<stored, born, journals, panes, forks, loop, message, inherited>>
      /\ t.phase = "loading"
      /\ \/ tasks' = [tasks EXCEPT ![p] = (@ \ {t}) \cup {ready}]
         \/ tasks' = [tasks EXCEPT ![p] = (@ \ {t}) \cup {failed}]
  BY DEF Loads
<1>2. TaskAt(t) /\ t \in Tasks
  BY DEF KeptInv, TaskInv, LoopTypes
<1>3. t.session # 0 => /\ next \in Nat \ {0} /\ Reaches(stored[t.session], next - 1)
                       /\ \A i \in DOMAIN stored[t.session] : stored[t.session][i].seq < next
  <2> SUFFICES ASSUME t.session # 0
               PROVE  /\ next \in Nat \ {0} /\ Reaches(stored[t.session], next - 1)
                      /\ \A i \in DOMAIN stored[t.session] : stored[t.session][i].seq < next
    OBVIOUS
  <2>1. t.session \in Ids
    BY <1>2, SessionsAssumption DEF TaskAt, KeptInv, StoreTypes, Ids
  <2>2. stored[t.session] \in Seq(Records) /\ Whole(stored[t.session])
    BY <2>1 DEF KeptInv, StoreTypes, RowsInv
  <2>3. next = NextSequence(stored[t.session])
    OBVIOUS
  <2> HIDE DEF next
  <2> QED
    BY <2>2, <2>3, NextSequenceIs
<1>4. next \in Nat /\ (t.session = 0 => next = 1)
  BY <1>3
<1> HIDE DEF next
<1>5. /\ ready \in Tasks /\ ready.session = t.session /\ ready.pane = t.pane
      /\ ready.phase = "ready" /\ ready.next = next
      /\ failed \in Tasks /\ failed.session = t.session /\ failed.pane = t.pane
      /\ failed.phase = "failed" /\ failed.next = t.next
  BY <1>2, <1>4 DEF Tasks
<1> HIDE DEF ready, failed
<1>6. TaskAt(ready) /\ TaskAt(failed)
  <2>1. TaskAt(ready)
    BY <1>1, <1>2, <1>3, <1>4, <1>5 DEF TaskAt
  <2>2. TaskAt(failed)
    BY <1>2, <1>5 DEF TaskAt
  <2> QED
    BY <2>1, <2>2
<1>7. /\ TaskInv' /\ tasks' \in [Processes -> SUBSET Tasks]
      /\ \A q \in Processes : \A v \in tasks[q] : \E w \in tasks'[q] : w.pane = v.pane
  <2>1. CASE tasks' = [tasks EXCEPT ![p] = (@ \ {t}) \cup {ready}]
    BY <1>1, <1>5, <1>6, <2>1, TaskReplaced
  <2>2. CASE tasks' = [tasks EXCEPT ![p] = (@ \ {t}) \cup {failed}]
    BY <1>1, <1>5, <1>6, <2>2, TaskReplaced
  <2> QED
    BY <1>1, <2>1, <2>2
<1>8. StoreTypes' /\ RowsInv' /\ WriterInv' /\ PaneInv' /\ ForkInv'
  BY <1>1, SameStays, StoreAlone DEF KeptInv
<1>9. LoopTypes'
  BY <1>1, <1>7 DEF KeptInv, LoopTypes
<1>10. MessageInv' /\ NoMessageIsForgotten'
  BY <1>1, <1>7, MessagesStay DEF KeptInv
<1> QED
  BY <1>7, <1>8, <1>9, <1>10 DEF KeptInv

(* A journal that is closed goes on until it is drained.                   *)
LEMMA ClosedFollows ==
  ASSUME KeptInv, NEW i \in DOMAIN journals, journals[i].writer = "open"
  PROVE  /\ Closed(journals[i]) \in Journals
         /\ SameHost(journals[i], Closed(journals[i]))
         /\ Closed(journals[i]).writer = "closed"
         /\ Continues(stored[journals[i].session] \o Closed(journals[i]).queue,
                      Closed(journals[i]))
<1>1. /\ journals[i] \in Journals /\ stored[journals[i].session] \in Seq(Records)
      /\ Continues(stored[journals[i].session] \o journals[i].queue, journals[i])
  BY Ongoing DEF KeptInv, Writes
<1> QED
  BY <1>1, ClosedGoes

(* A pane's new journal takes the place of the one it has, if any, which   *)
(* is closed.                                                              *)
LEMMA JournalAdded ==
  ASSUME KeptInv, NEW p \in Processes, NEW k \in DOMAIN panes[p], Ready(p),
         NEW new \in Journals, WithJournal(p, k, new), stored' = stored,
         born' \in 0..MaxSessions, born <= born',
         new.process = p, new.session \in 1..born', new.writer = "open",
         ~HasWriter(new.session), Continues(stored[new.session] \o new.queue, new),
         \/ loop' = loop
         \/ loop' = [loop EXCEPT ![p] = [awaits |-> "start", pane |-> k]]
  PROVE  /\ StoreTypes' /\ RowsInv' /\ WriterInv' /\ PaneInv'
         /\ panes' \in [Processes -> Seq(Panes)]
         /\ loop' \in [Processes -> Loops]
         /\ \A s \in Ids : HasWriter(s)' => s = new.session \/ HasWriter(s)
<1> DEFINE old == panes[p][k].journal
           kept == [j \in DOMAIN journals |->
                      IF j = old THEN Closed(journals[j]) ELSE journals[j]]
           n == Len(journals)
<1>1. /\ k \in Live(p) => journals[old].writer = "open"
      /\ panes' = [panes EXCEPT ![p][k].journal = n + 1]
      /\ journals' = Append(kept, new)
  BY DEF WithJournal
<1>2. /\ DOMAIN journals = 1..n /\ n \in Nat
      /\ \A i \in DOMAIN journals : journals[i] \in Journals
  BY JournalDomain DEF KeptInv
<1>3. old \in DOMAIN journals => journals[old].writer = "open"
  BY <1>1, <1>2 DEF Live
<1>4. ASSUME NEW i \in DOMAIN journals
      PROVE  /\ kept[i] \in Journals /\ SameHost(journals[i], kept[i])
             /\ i # old => kept[i] = journals[i]
             /\ i = old => kept[i].writer = "closed"
             /\ Writes(kept[i]) <=> Writes(journals[i])
             /\ kept[i].writer # "gone" <=> journals[i].writer # "gone"
             /\ Writes(kept[i]) =>
                  Continues(stored[kept[i].session] \o kept[i].queue, kept[i])
  <2>1. CASE i = old
    <3>1. /\ kept[i] = Closed(journals[i]) /\ journals[i].writer = "open"
      BY <1>3, <1>4, <2>1
    <3>2. /\ kept[i] \in Journals /\ SameHost(journals[i], kept[i])
          /\ kept[i].writer = "closed"
          /\ Continues(stored[journals[i].session] \o kept[i].queue, kept[i])
      BY <1>4, <3>1, ClosedFollows
    <3> HIDE DEF kept, old
    <3> QED
      BY <2>1, <3>1, <3>2 DEF Writes, SameHost
  <2>2. CASE i # old
    <3>1. kept[i] = journals[i] /\ journals[i] \in Journals
      BY <1>2, <1>4, <2>2
    <3>2. Writes(journals[i]) =>
            Continues(stored[journals[i].session] \o journals[i].queue, journals[i])
      BY <1>4 DEF KeptInv, WriterInv, WriterAt
    <3> HIDE DEF kept, old
    <3> QED
      BY <2>2, <3>1, <3>2 DEF SameHost
  <2> QED
    BY <2>1, <2>2
<1>5. kept \in Seq(Journals) /\ Len(kept) = n
  <2>1. DOMAIN kept = 1..n
    BY <1>2
  <2>2. kept \in [1..n -> Journals]
    BY <1>2, <1>4, <2>1
  <2>3. kept \in Seq(Journals)
    BY <1>2, <2>2, SeqDef
  <2> HIDE DEF kept
  <2> QED
    BY <1>2, <2>1, <2>3, LenProperties
<1> HIDE DEF kept
<1>6. /\ journals' \in Seq(Journals) /\ DOMAIN journals' = 1..(n + 1)
      /\ \A i \in 1..n : journals'[i] = kept[i]
      /\ journals'[n + 1] = new
  BY <1>1, <1>5, AppendProperties, LenProperties
<1>7. stored \in [Ids -> Seq(Records)] /\ new.session \in Ids
  BY SessionsAssumption DEF KeptInv, StoreTypes, Ids
<1>8. StoreTypes' /\ RowsInv'
  <2>1. StoreTypes'
    BY <1>6 DEF KeptInv, StoreTypes
  <2>2. ASSUME NEW s \in Ids, s > born' PROVE s > born
    BY <2>2, SessionsAssumption DEF KeptInv, StoreTypes, Ids
  <2> QED
    BY <2>1, <2>2 DEF KeptInv, RowsInv
<1>9. \A i \in 1..n : Writes(journals'[i]) =>
        Writes(journals[i]) /\ journals'[i].session = journals[i].session
        /\ journals[i].session # new.session
  <2> TAKE i \in 1..n
  <2>1. Writes(journals'[i]) => Writes(journals[i]) /\ journals'[i].session = journals[i].session
    BY <1>2, <1>4, <1>6 DEF SameHost
  <2>2. Writes(journals[i]) => journals[i].session # new.session
    BY <1>2 DEF HasWriter, Writes
  <2> QED
    BY <2>1, <2>2
<1>10. OneWriter'
  <2> SUFFICES ASSUME NEW i \in DOMAIN journals', NEW l \in DOMAIN journals',
                      Writes(journals'[i]), Writes(journals'[l]),
                      journals'[i].session = journals'[l].session
               PROVE  i = l
    BY DEF OneWriter
  <2>1. (i \in 1..n \/ i = n + 1) /\ (l \in 1..n \/ l = n + 1)
    BY <1>2, <1>6
  <2>2. CASE i \in 1..n /\ l \in 1..n
    BY <1>2, <1>9, <2>2 DEF KeptInv, WriterInv, OneWriter
  <2>3. CASE i = n + 1 /\ l \in 1..n
    BY <1>6, <1>9, <2>3
  <2>4. CASE i \in 1..n /\ l = n + 1
    BY <1>6, <1>9, <2>4
  <2> QED
    BY <2>1, <2>2, <2>3, <2>4
<1>11. ASSUME NEW i \in DOMAIN journals' PROVE WriterAt(i)'
  <2>1. i \in 1..n \/ i = n + 1
    BY <1>2, <1>6, <1>11
  <2>2. CASE i \in 1..n
    <3>1. journals'[i] = kept[i] /\ i \in DOMAIN journals
      BY <1>2, <1>6, <2>2
    <3>2. journals'[i].writer # "gone" => journals'[i].session \in 1..born
      BY <1>4, <3>1 DEF KeptInv, WriterInv, WriterAt, SameHost
    <3>3. \A s \in 1..born : s \in 1..born'
      BY DEF KeptInv, StoreTypes
    <3>4. Writes(journals'[i]) =>
            Continues(stored[journals'[i].session] \o journals'[i].queue, journals'[i])
      BY <1>4, <3>1
    <3> QED
      BY <3>2, <3>3, <3>4 DEF WriterAt
  <2>3. CASE i = n + 1
    BY <1>6, <2>3 DEF WriterAt
  <2> QED
    BY <2>1, <2>2, <2>3
<1>12. \A s \in Ids : HasWriter(s)' => s = new.session \/ HasWriter(s)
  <2> TAKE s \in Ids
  <2> HAVE HasWriter(s)'
  <2>1. PICK i \in DOMAIN journals' : journals'[i].session = s /\ Writes(journals'[i])
    BY DEF HasWriter, Writes
  <2>2. i \in 1..n \/ i = n + 1
    BY <1>2, <1>6, <2>1
  <2>3. CASE i \in 1..n
    <3>1. i \in DOMAIN journals /\ Writes(journals[i]) /\ journals[i].session = s
      BY <1>2, <1>9, <2>1, <2>3
    <3> QED
      BY <3>1 DEF HasWriter, Writes
  <2> QED
    BY <1>6, <2>1, <2>2, <2>3
<1>13. /\ panes \in [Processes -> Seq(Panes)] /\ panes[p] \in Seq(Panes)
       /\ DOMAIN panes[p] = 1..Len(panes[p]) /\ Len(panes[p]) \in Nat
       /\ \A l \in DOMAIN panes[p] : panes[p][l] \in Panes
  <2>1. panes \in [Processes -> Seq(Panes)] /\ panes[p] \in Seq(Panes)
    BY DEF KeptInv, LoopTypes
  <2> QED
    BY <2>1, LenProperties, ElementOfSeq
<1> DEFINE pane == [panes[p][k] EXCEPT !.journal = n + 1]
<1>14. pane \in Panes /\ pane.journal = n + 1
  BY SMTT(30), <1>2, <1>13 DEF Panes
<1>15. panes' = [panes EXCEPT ![p] = [panes[p] EXCEPT ![k] = pane]]
  BY <1>1
<1> HIDE DEF pane
<1>16. /\ panes'[p] \in Seq(Panes) /\ DOMAIN panes'[p] = DOMAIN panes[p]
       /\ panes'[p][k] = pane
       /\ \A l \in DOMAIN panes[p] : l # k => panes'[p][l] = panes[p][l]
  <2>1. panes'[p] = [panes[p] EXCEPT ![k] = pane]
    BY <1>13, <1>15
  <2> QED
    BY <1>13, <1>14, <2>1, ExceptSeq
<1>17. /\ panes' \in [Processes -> Seq(Panes)]
       /\ \A q \in Processes : q # p => panes'[q] = panes[q]
  BY <1>13, <1>15, <1>16
<1>18. Live(p)' = Live(p) \cup {k}
  <2>1. Live(p)' \subseteq Live(p) \cup {k}
    BY <1>16 DEF Live
  <2>2. Live(p) \cup {k} \subseteq Live(p)'
    BY <1>2, <1>14, <1>16 DEF Live
  <2> QED
    BY <2>1, <2>2
<1>19. /\ loop' \in [Processes -> Loops]
       /\ loop'[p].awaits \in {"nothing", "start"}
       /\ loop'[p].awaits = "start" => loop'[p].pane = k
       /\ \A q \in Processes : q # p => loop'[q] = loop[q]
  <2>1. loop \in [Processes -> Loops] /\ loop[p].awaits = "nothing"
    BY ReadyIs DEF KeptInv, LoopTypes
  <2>2. [awaits |-> "start", pane |-> k] \in Loops
    BY <1>13 DEF Loops
  <2> QED
    BY <2>1, <2>2
<1>20. ASSUME NEW l \in Live(p), l # k
       PROVE  /\ panes'[p][l].journal = panes[p][l].journal
              /\ panes[p][l].journal \in 1..n /\ panes[p][l].journal # old
              /\ LiveAt(p, l)
  <2>1. LiveAt(p, l)
    BY ReadyIs DEF KeptInv, PaneInv, PaneAt
  <2>2. l \in DOMAIN panes[p] /\ panes'[p][l] = panes[p][l]
    BY <1>16, <1>20 DEF Live
  <2>3. panes[p][l].journal # old
    <3>1. ASSUME panes[p][l].journal = old PROVE FALSE
      <4>1. old # 0 /\ k \in Live(p)
        BY <3>1, <2>2 DEF Live
      <4> QED
        BY <1>20, <2>1, <3>1, <4>1 DEF LiveAt
    <3> QED
      BY <3>1
  <2> QED
    BY <1>2, <2>1, <2>2, <2>3 DEF LiveAt
<1>21. PaneAt(p)'
  <2>1. ASSUME NEW l \in Live(p)' PROVE LiveAt(p, l)'
    <3>1. CASE l = k
      <4>1. panes'[p][l].journal = n + 1 /\ n + 1 \in DOMAIN journals'
        BY <1>2, <1>6, <1>14, <1>16, <3>1
      <4>2. \A m \in Live(p)' : panes'[p][m].journal = n + 1 => m = k
        BY <1>2, <1>18, <1>20
      <4> QED
        BY <1>6, <3>1, <4>1, <4>2 DEF LiveAt
    <3>2. CASE l # k
      <4>1. l \in Live(p)
        BY <1>18, <2>1, <3>2
      <4> DEFINE i == panes[p][l].journal
      <4>2. /\ panes'[p][l].journal = i /\ i \in 1..n /\ i # old /\ LiveAt(p, l)
        BY <1>20, <3>2, <4>1
      <4>3. journals'[i] = journals[i] /\ i \in DOMAIN journals'
        BY <1>2, <1>4, <1>6, <4>2
      <4>4. \A m \in Live(p)' : panes'[p][m].journal = i => m = l
        <5> TAKE m \in Live(p)'
        <5> HAVE panes'[p][m].journal = i
        <5>1. m # k
          BY <1>2, <1>14, <1>16, <4>2
        <5>2. m \in Live(p) /\ panes[p][m].journal = i
          BY <1>18, <1>20, <5>1
        <5> QED
          BY <4>2, <5>2 DEF LiveAt
      <4>5. journals[i].process = p /\ journals[i].writer \in {"open", "failed"}
        BY <4>2 DEF LiveAt
      <4> HIDE DEF i
      <4> QED
        BY <4>2, <4>3, <4>4, <4>5 DEF LiveAt
    <3> QED
      BY <3>1, <3>2
  <2> QED
    BY <1>18, <1>19, <2>1 DEF PaneAt
<1>22. ASSUME NEW q \in Processes, q # p PROVE PaneAt(q)'
  <2>1. /\ PaneAt(q) /\ panes'[q] = panes[q] /\ loop'[q] = loop[q]
    BY <1>17, <1>19, <1>22 DEF KeptInv, PaneInv
  <2>2. Live(q)' = Live(q)
    BY <2>1 DEF Live
  <2>3. DOMAIN journals \in SUBSET DOMAIN journals'
    BY <1>2, <1>6
  <2>4. ASSUME NEW l \in Live(q), loop[q].awaits # "writers"
        PROVE  LET i == panes[q][l].journal IN
               journals'[i].process = q /\ journals'[i].writer \in {"open", "failed"}
    <3> DEFINE i == panes[q][l].journal
    <3>1. i \in DOMAIN journals /\ journals[i].process = q
          /\ journals[i].writer \in {"open", "failed"}
      BY <2>1, <2>4 DEF PaneAt, LiveAt
    <3>2. i # old
      <4>1. ASSUME i = old PROVE FALSE
        <5>1. k \in Live(p)
          BY <1>2, <3>1, <4>1 DEF Live
        <5>2. journals[old].process = p
          BY <5>1, ReadyIs, PaneJournal
        <5> QED
          BY <1>22, <3>1, <4>1, <5>2
      <4> QED
        BY <4>1
    <3> HIDE DEF i
    <3>3. journals'[i] = journals[i]
      BY <1>2, <1>4, <1>6, <3>1, <3>2
    <3> QED
      BY <3>1, <3>3 DEF i
  <2> QED
    BY <2>1, <2>2, <2>3, <2>4, PaneStays DEF PaneAt
<1>23. PaneInv'
  BY <1>21, <1>22 DEF PaneInv
<1> QED
  BY <1>8, <1>10, <1>11, <1>12, <1>17, <1>19, <1>23 DEF WriterInv

(* The messages that wait for an open leave with it.                       *)
LEMMA WaitingMoved ==
  ASSUME KeptInv, NEW p \in Processes, NEW t \in tasks[p],
         tasks' = [tasks EXCEPT ![p] = @ \ {t}],
         NEW place \in {"worker", "answered"}, NEW q \in Processes \cup {"none"},
         NEW k \in Nat, Moved(Waiting(p, t.pane), place, q, k)
  PROVE  /\ message' \in [Messages -> Whereabouts]
         /\ MessageInv' /\ NoMessageIsForgotten'
<1>1. /\ message' \in [Messages -> Whereabouts]
      /\ \A m \in Messages : m \in Waiting(p, t.pane) => message'[m].at = place
      /\ \A m \in Messages : m \notin Waiting(p, t.pane) => message'[m] = message[m]
  <2> DEFINE there == [at |-> place, process |-> q, pane |-> k]
  <2>1. LoopTypes /\ there \in Whereabouts /\ there.at = place
    BY DEF KeptInv, Whereabouts
  <2>2. Placed(Waiting(p, t.pane), there)
    BY DEF Moved, Placed
  <2> HIDE DEF there
  <2> QED
    BY <2>1, <2>2, PlacedIs
<1>2. /\ tasks'[p] = tasks[p] \ {t}
      /\ \A r \in Processes : r # p => tasks'[r] = tasks[r]
  BY DEF KeptInv, LoopTypes
<1>3. ASSUME NEW m \in Messages, message'[m].at = "opening"
      PROVE  /\ message'[m].process \in Processes
             /\ \E u \in tasks'[message'[m].process] : u.pane = message'[m].pane
  <2>1. m \notin Waiting(p, t.pane) /\ message'[m] = message[m]
    BY <1>1, <1>3
  <2>2. /\ message[m].at = "opening" /\ message[m].process \in Processes
        /\ message[m] \in Whereabouts
    BY <1>3, <2>1 DEF KeptInv, MessageInv, LoopTypes
  <2>3. PICK u \in tasks[message[m].process] : u.pane = message[m].pane
    BY <2>2 DEF KeptInv, NoMessageIsForgotten
  <2>4. message[m] = [at |-> "opening", process |-> message[m].process,
                      pane |-> message[m].pane]
    BY <2>2 DEF Whereabouts
  <2>5. ~(message[m].process = p /\ u = t)
    <3>1. ASSUME message[m].process = p, u = t PROVE FALSE
      <4>1. message[m] = [at |-> "opening", process |-> p, pane |-> t.pane]
        BY <2>3, <2>4, <3>1
      <4> QED
        BY <2>1, <4>1 DEF Waiting
    <3> QED
      BY <3>1
  <2>6. u \in tasks'[message[m].process]
    BY <1>2, <2>2, <2>3, <2>5
  <2> QED
    BY <2>1, <2>2, <2>3, <2>6
<1> QED
  BY <1>1, <1>3 DEF MessageInv, NoMessageIsForgotten

(* The session that an open is for, stored or new, has no writer.          *)
LEMMA OpenedFollows ==
  ASSUME KeptInv, NEW p \in Processes, NEW t \in tasks[p], t.phase = "ready",
         t.session = 0 => born < MaxSessions, NEW s,
         s = IF t.session = 0 THEN born + 1 ELSE t.session
  PROVE  LET new == Opened(p, s, t.next, StartOf(0, 0)) IN
         /\ s \in Ids /\ (s > born => t.session = 0) /\ ~HasWriter(s)
         /\ new \in Journals /\ new.process = p /\ new.session = s
         /\ new.writer = "open" /\ Continues(stored[s] \o new.queue, new)
<1>1. t \in Tasks /\ TaskAt(t) /\ born \in 0..MaxSessions /\ MaxSessions \in Nat
  BY SessionsAssumption DEF KeptInv, LoopTypes, TaskInv, StoreTypes
<1>2. s \in Ids /\ s \in Nat /\ (s > born => t.session = 0)
  BY <1>1 DEF TaskAt, Ids
<1>3. stored[s] \in Seq(Records) /\ Whole(stored[s])
  BY <1>2 DEF KeptInv, StoreTypes, RowsInv
<1>4. ~HasWriter(s)
  <2>1. CASE t.session = 0
    <3>1. \A i \in DOMAIN journals : Writes(journals[i]) => journals[i].session \in 1..born
      BY DEF KeptInv, WriterInv, WriterAt, Writes
    <3> QED
      BY <1>1, <2>1, <3>1 DEF HasWriter, Writes
  <2>2. CASE t.session # 0
    BY <1>1, <2>2 DEF TaskAt
  <2> QED
    BY <2>1, <2>2
<1>5. /\ t.next \in Nat \ {0} /\ Reaches(stored[s], t.next - 1)
      /\ \A i \in DOMAIN stored[s] : stored[s][i].seq < t.next
  <2>1. CASE t.session = 0
    <3>1. stored[s] = <<>> /\ t.next = 1
      BY <1>1, <1>2, <2>1 DEF KeptInv, RowsInv, TaskAt
    <3> QED
      BY <3>1 DEF Reaches
  <2>2. CASE t.session # 0
    BY <1>1, <2>2 DEF TaskAt, Tasks
  <2> QED
    BY <2>1, <2>2
<1>6. ASSUME NEW r \in Nat, NEW rows \in Seq(Records), NEW next \in Nat \ {0},
             Whole(rows), Reaches(rows, next - 1),
             \A i \in DOMAIN rows : rows[i].seq < next
      PROVE  LET new == Opened(p, r, next, StartOf(0, 0)) IN
             /\ new \in Journals /\ new.process = p /\ new.session = r
             /\ new.writer = "open" /\ Continues(rows \o new.queue, new)
  <2>1. 0 \in Nat
    OBVIOUS
  <2> QED
    BY <1>6, <2>1, OpenedGoes
<1> QED
  BY <1>2, <1>3, <1>4, <1>5, <1>6

LEMMA OpenFinishedKeeps ==
  ASSUME KeptInv, NEW p \in Processes, NEW t \in tasks[p], OpenFinished(p, t)
  PROVE  KeptInv'
<1>1. /\ Ready(p) /\ t.phase # "loading"
      /\ tasks' = [tasks EXCEPT ![p] = @ \ {t}]
      /\ UNCHANGED <<stored, forks, loop, inherited>>
  BY DEF OpenFinished
<1>2. /\ tasks' \in [Processes -> SUBSET Tasks]
      /\ tasks'[p] = tasks[p] \ {t}
      /\ \A q \in Processes : tasks'[q] \in SUBSET tasks[q]
  BY <1>1 DEF KeptInv, LoopTypes
<1>3. ForkInv'
  BY <1>1, ForksStay DEF KeptInv
<1>4. t \in Tasks /\ t.pane \in Nat
  BY DEF KeptInv, LoopTypes, Tasks
<1>5. CASE t.phase = "ready" /\ Shown(p, t.pane)
  <2> DEFINE s == IF t.session = 0 THEN born + 1 ELSE t.session
             new == Opened(p, s, t.next, StartOf(0, 0))
  <2>1. /\ t.session = 0 => born < MaxSessions
        /\ born' = IF t.session = 0 THEN born + 1 ELSE born
        /\ WithJournal(p, t.pane, new)
        /\ Moved(Waiting(p, t.pane), "worker", p, t.pane)
    BY <1>5 DEF OpenFinished
  <2>2. /\ s \in Ids /\ (s > born => t.session = 0) /\ ~HasWriter(s)
        /\ new \in Journals /\ new.process = p /\ new.session = s
        /\ new.writer = "open" /\ Continues(stored[s] \o new.queue, new)
    BY <1>5, <2>1, OpenedFollows
  <2>3. born' \in 0..MaxSessions /\ born <= born' /\ s \in 1..born' /\ born' \in Nat
    BY <2>1, <2>2, SessionsAssumption DEF KeptInv, StoreTypes, TaskInv, TaskAt, Ids
  <2>4. t.session = 0 => s > born
    BY DEF KeptInv, StoreTypes
  <2> HIDE DEF new, s
  <2>5. /\ StoreTypes' /\ RowsInv' /\ WriterInv' /\ PaneInv'
        /\ panes' \in [Processes -> Seq(Panes)]
        /\ loop' \in [Processes -> Loops]
        /\ \A r \in Ids : HasWriter(r)' => r = s \/ HasWriter(r)
    <3>1. t.pane \in DOMAIN panes[p]
      BY <1>5 DEF Shown
    <3> QED
      BY <1>1, <2>1, <2>2, <2>3, <3>1, JournalAdded
  <2>6. ASSUME NEW q \in Processes, NEW u \in tasks'[q],
               u.session # 0, u.phase # "failed"
        PROVE  HasWriter(u.session)' => HasWriter(u.session)
    <3>1. u \in tasks[q] /\ TaskAt(u) /\ (q = p => u # t)
      BY <1>2, <2>6 DEF KeptInv, TaskInv
    <3>2. u.session \in Ids /\ u.session \in 1..born
      BY <2>6, <3>1, SessionsAssumption DEF TaskAt, KeptInv, StoreTypes, Ids
    <3>3. u.session # s
      <4>1. CASE t.session = 0
        BY <2>4, <3>2, <4>1 DEF KeptInv, StoreTypes
      <4>2. CASE t.session # 0
        <5>1. s = t.session
          BY <4>2 DEF s
        <5> QED
          BY <1>5, <2>6, <3>1, <4>2, <5>1 DEF KeptInv, TaskInv, OneOpen, Holds
      <4> QED
        BY <4>1, <4>2
    <3> QED
      BY <2>5, <3>2, <3>3
  <2>7. TaskInv'
    BY <1>1, <1>2, <2>3, <2>5, <2>6, TasksStay DEF KeptInv
  <2>8. /\ message' \in [Messages -> Whereabouts]
        /\ MessageInv' /\ NoMessageIsForgotten'
    BY <1>1, <1>4, <2>1, WaitingMoved
  <2>9. LoopTypes'
    BY <1>1, <1>2, <2>5, <2>8 DEF KeptInv, LoopTypes
  <2> QED
    BY <1>3, <2>5, <2>7, <2>8, <2>9 DEF KeptInv
<1>6. CASE ~(t.phase = "ready" /\ Shown(p, t.pane))
  <2>1. /\ panes' = IF t.waits /\ t.phase = "failed"
                    THEN [panes EXCEPT ![p][t.pane].shown = FALSE] ELSE panes
        /\ Moved(Waiting(p, t.pane), "answered", "none", 0)
        /\ UNCHANGED <<born, journals>>
    BY <1>6 DEF OpenFinished, Answered, AnsweredBy, None
  <2>2. SamePanes
    BY <2>1, PaneHidden, SameStays DEF KeptInv
  <2>3. /\ StoreTypes' /\ RowsInv' /\ WriterInv' /\ PaneInv' /\ ForkInv'
        /\ \A s : HasWriter(s)' = HasWriter(s)
    BY <1>1, <2>1, <2>2, StoreAlone
  <2>4. TaskInv'
    <3>1. born' \in Nat /\ born <= born'
      BY <2>1 DEF KeptInv, StoreTypes
    <3> QED
      BY <1>1, <1>2, <2>3, <3>1, TasksStay DEF KeptInv
  <2>5. /\ message' \in [Messages -> Whereabouts]
        /\ MessageInv' /\ NoMessageIsForgotten'
    BY <1>1, <2>1, WaitingMoved
  <2>6. LoopTypes'
    BY <1>1, <1>2, <2>2, <2>5 DEF KeptInv, LoopTypes, SamePanes
  <2> QED
    BY <2>3, <2>4, <2>5, <2>6 DEF KeptInv
<1> QED
  BY <1>5, <1>6

LEMMA ClosePaneKeeps ==
  ASSUME KeptInv, NEW p \in Processes, NEW k \in Nat, ClosePane(p, k)
  PROVE  KeptInv'
<1>1. /\ panes' = [panes EXCEPT ![p][k].shown = FALSE]
      /\ UNCHANGED <<stored, born, journals, tasks, forks, loop, message, inherited>>
  BY DEF ClosePane
<1>2. SamePanes
  BY <1>1, PaneHidden DEF KeptInv
<1>3. /\ StoreTypes' /\ RowsInv' /\ WriterInv' /\ PaneInv' /\ ForkInv'
      /\ \A s : HasWriter(s)' = HasWriter(s)
  BY <1>1, <1>2, StoreAlone
<1>4. TaskInv'
  <2>1. born' \in Nat /\ born <= born'
    BY <1>1 DEF KeptInv, StoreTypes
  <2> QED
    BY <1>1, <1>3, <2>1, TasksStay DEF KeptInv
<1>5. LoopTypes' /\ MessageInv' /\ NoMessageIsForgotten'
  BY <1>1, <1>2 DEF KeptInv, LoopTypes, SamePanes, MessageInv, NoMessageIsForgotten
<1> QED
  BY <1>3, <1>4, <1>5 DEF KeptInv

LEMMA StreamEndsKeeps ==
  ASSUME KeptInv, NEW p \in Processes, NEW k \in Nat, StreamEnds(p, k)
  PROVE  KeptInv'
<1> DEFINE i == panes[p][k].journal
           new == Closed(journals[i])
<1>1. /\ Ready(p) /\ k \in Live(p) /\ journals[i].writer = "open"
      /\ journals' = [journals EXCEPT ![i] = new]
      /\ panes' = [panes EXCEPT ![p][k].journal = 0]
      /\ UNCHANGED <<stored, born, tasks, forks, loop, message, inherited>>
  BY DEF StreamEnds
<1>2. i \in DOMAIN journals /\ journals[i].process = p /\ LiveAt(p, k)
  BY <1>1, ReadyIs, PaneJournal DEF KeptInv, PaneInv, PaneAt
<1>3. /\ new \in Journals /\ SameHost(journals[i], new) /\ new.writer = "closed"
      /\ Continues(stored[journals[i].session] \o new.queue, new)
  BY <1>1, <1>2, ClosedFollows
<1> HIDE DEF new, i
<1>4. /\ Moves /\ journals'[i] = new
      /\ \A l \in DOMAIN journals : l # i => journals'[l] = journals[l]
  <2>1. Writes(journals[i]) /\ new.session = journals[i].session
    BY <1>1, <1>3 DEF Writes, SameHost
  <2> QED
    BY <1>1, <1>2, <1>3, <2>1, OneMoves DEF KeptInv
<1>5. StoreTypes' /\ RowsInv' /\ WriterInv' /\ NoNewWriter
  BY <1>4, MovesKeep DEF KeptInv
<1>6. /\ panes \in [Processes -> Seq(Panes)] /\ panes[p] \in Seq(Panes)
      /\ DOMAIN panes[p] = 1..Len(panes[p]) /\ Len(panes[p]) \in Nat
      /\ \A l \in DOMAIN panes[p] : panes[p][l] \in Panes
  <2>1. panes \in [Processes -> Seq(Panes)] /\ panes[p] \in Seq(Panes)
    BY DEF KeptInv, LoopTypes
  <2> QED
    BY <2>1, LenProperties, ElementOfSeq
<1> DEFINE pane == [panes[p][k] EXCEPT !.journal = 0]
<1>7. k \in DOMAIN panes[p] /\ pane \in Panes /\ pane.journal = 0
  <2>1. k \in DOMAIN panes[p]
    BY <1>1 DEF Live
  <2> QED
    BY <1>6, <2>1 DEF Panes
<1>8. panes' = [panes EXCEPT ![p] = [panes[p] EXCEPT ![k] = pane]]
  BY <1>1
<1> HIDE DEF pane
<1>9. /\ panes'[p] \in Seq(Panes) /\ DOMAIN panes'[p] = DOMAIN panes[p]
      /\ panes'[p][k] = pane
      /\ \A l \in DOMAIN panes[p] : l # k => panes'[p][l] = panes[p][l]
  <2>1. panes'[p] = [panes[p] EXCEPT ![k] = pane]
    BY <1>6, <1>8
  <2> QED
    BY <1>6, <1>7, <2>1, ExceptSeq
<1>10. /\ panes' \in [Processes -> Seq(Panes)]
       /\ \A q \in Processes : q # p => panes'[q] = panes[q]
  BY <1>6, <1>8, <1>9
<1>11. DOMAIN journals \in SUBSET DOMAIN journals'
  BY <1>1
<1>12. ASSUME NEW q \in Processes PROVE PaneAt(q)'
  <2>1. PaneAt(q) /\ loop'[q] = loop[q]
    BY <1>1 DEF KeptInv, PaneInv
  <2>2. /\ \A l \in Live(q)' : l \in Live(q) /\ panes'[q][l].journal = panes[q][l].journal
        /\ \A l \in Live(q)' : q = p => l # k
    <3>1. CASE q = p
      BY <1>7, <1>9, <3>1 DEF Live
    <3>2. CASE q # p
      BY <1>10, <3>2 DEF Live
    <3> QED
      BY <3>1, <3>2
  <2>3. ASSUME NEW l \in Live(q)', LiveAt(q, l)
        PROVE  LET n == panes[q][l].journal IN
               journals'[n].process = q /\ journals'[n].writer \in {"open", "failed"}
    <3> DEFINE n == panes[q][l].journal
    <3>1. /\ n \in DOMAIN journals /\ journals[n].process = q
          /\ journals[n].writer \in {"open", "failed"}
      BY <2>3 DEF LiveAt
    <3>2. n # i
      <4>1. CASE q = p
        BY <1>2, <2>2, <2>3, <4>1 DEF LiveAt, i
      <4>2. CASE q # p
        BY <1>2, <3>1, <4>2
      <4> QED
        BY <4>1, <4>2
    <3> HIDE DEF n
    <3>3. journals'[n] = journals[n]
      BY <1>4, <3>1, <3>2
    <3> QED
      BY <3>1, <3>3 DEF n
  <2>4. loop'[q].awaits \in {"flush", "start"} => loop'[q].pane \in Live(q)'
    <3>1. CASE q = p
      BY <1>1, <2>1, <3>1, ReadyIs
    <3>2. CASE q # p
      BY <1>10, <2>1, <3>2 DEF PaneAt, Live
    <3> QED
      BY <3>1, <3>2
  <2> QED
    BY <1>11, <2>1, <2>2, <2>3, <2>4, PaneStays
<1>13. TaskInv'
  <2>1. born' \in Nat /\ born <= born'
    BY <1>1 DEF KeptInv, StoreTypes
  <2>2. ASSUME NEW q \in Processes, NEW u \in tasks'[q], u.session # 0, u.phase # "failed"
        PROVE  HasWriter(u.session)' => HasWriter(u.session)
    <3>1. TaskAt(u)
      BY <1>1, <2>2 DEF KeptInv, TaskInv
    <3>2. u.session \in Ids
      BY <2>2, <3>1, SessionsAssumption DEF TaskAt, KeptInv, StoreTypes, Ids
    <3> QED
      BY <1>5, <3>2 DEF NoNewWriter
  <2> QED
    BY <1>1, <1>5, <2>1, <2>2, TasksStay DEF KeptInv
<1>14. ForkInv' /\ LoopTypes' /\ MessageInv' /\ NoMessageIsForgotten'
  BY <1>1, <1>10 DEF KeptInv, ForkInv, LoopTypes, MessageInv, NoMessageIsForgotten
<1> QED
  BY <1>5, <1>12, <1>13, <1>14 DEF KeptInv, PaneInv

-----------------------------------------------------------------------------
(* One lemma for each action: forks.                                       *)

(* No open changes, and no session has a writer that had none.             *)
LEMMA SameTasksStay ==
  ASSUME KeptInv, StoreTypes', stored' = stored, tasks' = tasks,
         born' \in Nat, born <= born',
         \A s \in 1..born : HasWriter(s)' => HasWriter(s)
  PROVE  TaskInv'
<1>1. ASSUME NEW p \in Processes, NEW t \in tasks'[p], t.session # 0, t.phase # "failed"
      PROVE  HasWriter(t.session)' => HasWriter(t.session)
  <2>1. TaskAt(t)
    BY <1>1 DEF KeptInv, TaskInv
  <2>2. t.session \in 1..born
    BY <1>1, <2>1 DEF TaskAt, KeptInv, StoreTypes
  <2> QED
    BY <2>2
<1> QED
  BY <1>1, TasksStay DEF KeptInv

(* What the event loop of a process awaits; the journals are left alone.   *)
LEMMA LoopMoves ==
  ASSUME KeptInv, UNCHANGED <<stored, born, journals, tasks, message, inherited>>,
         SamePanes, NEW p \in Processes, NEW l \in Loops,
         loop' = [loop EXCEPT ![p] = l], loop[p].awaits # "writers",
         l.awaits \in {"flush", "start"} => l.pane \in Live(p)
  PROVE  /\ StoreTypes' /\ RowsInv' /\ WriterInv' /\ TaskInv' /\ PaneInv'
         /\ MessageInv' /\ NoMessageIsForgotten'
         /\ forks' \in [Processes -> SUBSET Forks] => LoopTypes'
<1>1. StoreTypes' /\ RowsInv' /\ WriterInv'
  BY StoreStays DEF KeptInv
<1>2. TaskInv'
  <2>1. \A s \in 1..born : HasWriter(s)' => HasWriter(s)
    BY DEF HasWriter
  <2>2. born' \in Nat /\ born <= born'
    BY DEF KeptInv, StoreTypes
  <2> QED
    BY <1>1, <2>1, <2>2, SameTasksStay
<1>3. /\ loop' \in [Processes -> Loops] /\ loop'[p] = l
      /\ \A q \in Processes : q # p => loop'[q] = loop[q]
  BY DEF KeptInv, LoopTypes
<1>4. ASSUME NEW q \in Processes PROVE PaneAt(q)'
  <2>1. /\ PaneAt(q) /\ Live(q)' = Live(q)
        /\ \A k \in Live(q) : panes'[q][k].journal = panes[q][k].journal
    BY DEF KeptInv, PaneInv, SamePanes
  <2>2. ASSUME NEW k \in Live(q)', LiveAt(q, k)
        PROVE  LET i == panes[q][k].journal IN
               journals'[i].process = q /\ journals'[i].writer \in {"open", "failed"}
    BY <2>2 DEF LiveAt
  <2>3. loop'[q].awaits # "writers" => loop[q].awaits # "writers"
    BY <1>3
  <2>4. loop'[q].awaits \in {"flush", "start"} => loop'[q].pane \in Live(q)'
    <3>1. CASE q = p
      BY <1>3, <2>1, <3>1
    <3>2. CASE q # p
      BY <1>3, <2>1, <3>2 DEF PaneAt
    <3> QED
      BY <3>1, <3>2
  <2> QED
    BY <2>1, <2>2, <2>3, <2>4, PaneStays
<1>5. MessageInv' /\ NoMessageIsForgotten'
  BY DEF KeptInv, MessageInv, NoMessageIsForgotten
<1>6. forks' \in [Processes -> SUBSET Forks] => LoopTypes'
  BY <1>3 DEF KeptInv, LoopTypes, SamePanes
<1> QED
  BY <1>1, <1>2, <1>3, <1>4, <1>5, <1>6 DEF PaneInv

LEMMA FreeIs == Free \in Loops /\ Free.awaits = "nothing"
BY DEF Free, Loops

LEMMA RequestForkKeeps ==
  ASSUME KeptInv, NEW p \in Processes, NEW k \in Nat, RequestFork(p, k)
  PROVE  KeptInv'
<1> DEFINE l == [awaits |-> "flush", pane |-> k]
<1>1. /\ Ready(p) /\ k \in Live(p)
      /\ panes' = [panes EXCEPT ![p] = Append(@, Sessionless)]
      /\ loop' = [loop EXCEPT ![p] = l]
      /\ UNCHANGED <<stored, born, journals, tasks, forks, message, inherited>>
  BY DEF RequestFork, MayOpen
<1>2. l \in Loops /\ l.pane = k
  BY DEF Loops
<1> HIDE DEF l
<1>3. SamePanes /\ loop[p].awaits # "writers"
  BY <1>1, PaneAdded, ReadyIs DEF KeptInv
<1>4. /\ StoreTypes' /\ RowsInv' /\ WriterInv' /\ TaskInv' /\ PaneInv'
      /\ MessageInv' /\ NoMessageIsForgotten' /\ LoopTypes'
  <2>1. forks' \in [Processes -> SUBSET Forks]
    BY <1>1 DEF KeptInv, LoopTypes
  <2> QED
    BY <1>1, <1>2, <1>3, <2>1, LoopMoves
<1>5. ForkInv'
  BY <1>1, ForksStay DEF KeptInv
<1> QED
  BY <1>4, <1>5 DEF KeptInv

(* A fork begins at the last record of its parent, which is stored.        *)
LEMMA ForkSentKeeps ==
  ASSUME KeptInv, NEW p \in Processes, ForkSent(p)
  PROVE  KeptInv'
<1> DEFINE k == loop[p].pane
           i == panes[p][k].journal
           j == journals[i]
           f == [pane |-> Len(panes[p]), parent |-> k, through |-> j.last, of |-> j.session]
<1>1. /\ loop[p].awaits = "flush" /\ j.writer = "open" /\ j.queue = <<>>
      /\ forks' = [forks EXCEPT ![p] = @ \cup {f}]
      /\ loop' = [loop EXCEPT ![p] = Free]
      /\ UNCHANGED <<stored, born, journals, panes, tasks, message, inherited>>
  BY DEF ForkSent, Flushed, Awaited
<1>2. k \in Live(p) /\ loop[p].awaits # "writers"
  BY <1>1 DEF KeptInv, PaneInv, PaneAt
<1>3. i \in DOMAIN journals
  BY <1>2, PaneJournal
<1>4. /\ j \in Journals /\ j.session \in Ids /\ stored[j.session] \in Seq(Records)
      /\ Continues(stored[j.session] \o j.queue, j)
  BY ZenonT(30), <1>1, <1>3, Ongoing DEF KeptInv, Writes
<1>5. Reaches(stored[j.session], j.last) /\ j.last \in Nat
  <2>1. stored[j.session] \o j.queue = stored[j.session]
    BY <1>1, <1>4, ConcatEmptySeq
  <2>2. j.last \in Int
    BY <1>4 DEF Journals
  <2> HIDE DEF j
  <2> QED
    BY <1>4, <2>1, <2>2 DEF Continues, Goes
<1>6. f \in Forks /\ f.of = j.session /\ f.through = j.last
  <2>1. panes[p] \in Seq(Panes) /\ loop[p] \in Loops
    BY DEF KeptInv, LoopTypes
  <2>2. Len(panes[p]) \in Nat /\ k \in Nat
    BY <2>1, LenProperties DEF Loops
  <2> HIDE DEF j, k
  <2> QED
    BY <1>4, <1>5, <2>2 DEF Forks
<1> HIDE DEF f
<1>7. /\ forks' \in [Processes -> SUBSET Forks]
      /\ forks'[p] = forks[p] \cup {f}
      /\ \A q \in Processes : q # p => forks'[q] = forks[q]
  BY <1>1, <1>6 DEF KeptInv, LoopTypes
<1>8. /\ StoreTypes' /\ RowsInv' /\ WriterInv' /\ TaskInv' /\ PaneInv'
      /\ MessageInv' /\ NoMessageIsForgotten' /\ LoopTypes'
  <2>1. SamePanes
    BY <1>1, SameStays DEF KeptInv
  <2> HIDE DEF k
  <2> QED
    BY <1>1, <1>2, <1>7, <2>1, FreeIs, LoopMoves
<1>9. ForkInv'
  <2>1. ASSUME NEW q \in Processes, NEW g \in forks'[q]
        PROVE  Reaches(stored[g.of], g.through)
    <3>1. CASE g \in forks[q]
      BY SMTT(30), <3>1 DEF KeptInv, ForkInv
    <3>2. CASE g = f
      BY <1>5, <1>6, <3>2
    <3> QED
      BY <1>7, <2>1, <3>1, <3>2
  <2> QED
    BY <1>1, <2>1 DEF KeptInv, ForkInv
<1> QED
  BY <1>8, <1>9 DEF KeptInv

LEMMA ForkReadyKeeps ==
  ASSUME KeptInv, NEW p \in Processes, ForkReady(p) \/ FlushFails(p)
  PROVE  KeptInv'
<1>1. /\ loop[p].awaits \in {"flush", "start"}
      /\ loop' = [loop EXCEPT ![p] = Free]
      /\ UNCHANGED <<stored, born, journals, panes, tasks, forks, message, inherited>>
  BY DEF ForkReady, FlushFails
<1>2. SamePanes /\ forks' \in [Processes -> SUBSET Forks]
  BY <1>1, SameStays DEF KeptInv, LoopTypes
<1>3. /\ StoreTypes' /\ RowsInv' /\ WriterInv' /\ TaskInv' /\ PaneInv'
      /\ MessageInv' /\ NoMessageIsForgotten' /\ LoopTypes'
  BY <1>1, <1>2, FreeIs, LoopMoves
<1>4. ForkInv'
  BY <1>1, ForksStay DEF KeptInv
<1> QED
  BY <1>3, <1>4 DEF KeptInv

(* A fork's pane that is given up.                                         *)
LEMMA ForkGivenUp ==
  ASSUME KeptInv, NEW p \in Processes, NEW k, Abandoned(p, k),
         forks' \in [Processes -> SUBSET Forks],
         \A q \in Processes : forks'[q] \in SUBSET forks[q],
         UNCHANGED <<stored, born, journals, tasks, loop, message, inherited>>
  PROVE  KeptInv'
<1>1. SamePanes
  BY PaneHidden DEF Abandoned, KeptInv
<1>2. /\ StoreTypes' /\ RowsInv' /\ WriterInv' /\ PaneInv' /\ ForkInv'
      /\ \A s : HasWriter(s)' = HasWriter(s)
  BY <1>1, StoreAlone
<1>3. TaskInv'
  <2>1. born' \in Nat /\ born <= born'
    BY DEF KeptInv, StoreTypes
  <2> QED
    BY <1>2, <2>1, SameTasksStay
<1>4. LoopTypes' /\ MessageInv' /\ NoMessageIsForgotten'
  BY <1>1 DEF KeptInv, LoopTypes, SamePanes, MessageInv, NoMessageIsForgotten
<1> QED
  BY <1>2, <1>3, <1>4 DEF KeptInv

LEMMA ForkFailedKeeps ==
  ASSUME KeptInv, NEW p \in Processes, NEW f \in forks[p], ForkFailed(p, f)
  PROVE  KeptInv'
<1>1. /\ forks' = [forks EXCEPT ![p] = @ \ {f}]
      /\ Abandoned(p, f.pane)
      /\ UNCHANGED <<stored, born, journals, tasks, loop, message, inherited>>
  BY DEF ForkFailed
<1>2. /\ forks' \in [Processes -> SUBSET Forks]
      /\ \A q \in Processes : forks'[q] \in SUBSET forks[q]
  BY <1>1 DEF KeptInv, LoopTypes
<1> QED
  BY <1>1, <1>2, ForkGivenUp

LEMMA ForkOpenedKeeps ==
  ASSUME KeptInv, NEW p \in Processes, NEW f \in forks[p], ForkOpened(p, f)
  PROVE  KeptInv'
<1>1. /\ Ready(p)
      /\ forks' = [forks EXCEPT ![p] = @ \ {f}]
      /\ UNCHANGED <<stored, tasks, message>>
  BY DEF ForkOpened
<1>2. /\ forks' \in [Processes -> SUBSET Forks]
      /\ \A q \in Processes : forks'[q] \in SUBSET forks[q]
  BY <1>1 DEF KeptInv, LoopTypes
<1>3. f \in Forks /\ f.pane \in Nat /\ f.of \in Ids /\ f.through \in Nat
      /\ Reaches(stored[f.of], f.through)
  BY DEF KeptInv, LoopTypes, Forks, ForkInv
<1>4. CASE ~(f.parent \in Live(p) /\ Shown(p, f.pane))
  <2>1. Abandoned(p, f.pane) /\ UNCHANGED <<born, journals, loop, inherited>>
    BY <1>4 DEF ForkOpened
  <2> QED
    BY <1>1, <1>2, <2>1, ForkGivenUp
<1>5. CASE f.parent \in Live(p) /\ Shown(p, f.pane)
  <2> DEFINE s == born + 1
             parent == SessionOf(p, f.parent)
             new == StartedIfNeeded(Opened(p, s, 1, StartOf(parent, f.through)))
  <2>1. /\ born < MaxSessions /\ born' = s
        /\ WithJournal(p, f.pane, new)
        /\ inherited' = [inherited EXCEPT
             ![s] = [session |-> f.of, through |-> f.through]]
        /\ loop' = [loop EXCEPT ![p] = [awaits |-> "start", pane |-> f.pane]]
    BY <1>5 DEF ForkOpened
  <2>2. parent \in 1..born
    BY <1>1, <1>5, ReadyIs, PaneJournal DEF SessionOf
  <2>3. /\ born \in Nat /\ MaxSessions \in Nat /\ s \in Ids /\ s \in Nat /\ s > born
        /\ parent \in Nat \ {0}
    BY <2>1, <2>2, SessionsAssumption DEF KeptInv, StoreTypes, Ids
  <2>4. /\ new \in Journals /\ new.process = p /\ new.session = s
        /\ new.writer = "open" /\ Continues(<<>> \o new.queue, new)
    <3> HIDE DEF s, parent
    <3> QED
      BY <1>3, <2>3, ForkGoes
  <2>5. stored[s] = <<>> /\ ~HasWriter(s)
    <3>1. \A i \in DOMAIN journals : Writes(journals[i]) => journals[i].session \in 1..born
      BY DEF KeptInv, WriterInv, WriterAt, Writes
    <3>2. ~HasWriter(s)
      BY <2>3, <3>1 DEF HasWriter, Writes
    <3> QED
      BY <2>3, <3>2 DEF KeptInv, RowsInv
  <2> HIDE DEF new, parent
  <2>6. /\ StoreTypes' /\ RowsInv' /\ WriterInv' /\ PaneInv'
        /\ panes' \in [Processes -> Seq(Panes)]
        /\ loop' \in [Processes -> Loops]
        /\ \A r \in Ids : HasWriter(r)' => r = s \/ HasWriter(r)
    <3>1. f.pane \in DOMAIN panes[p]
      BY <1>5 DEF Shown
    <3>2. /\ born' \in 0..MaxSessions /\ born <= born' /\ s \in 1..born'
      BY <2>1, <2>3
    <3>3. Continues(stored[new.session] \o new.queue, new)
      BY <2>4, <2>5
    <3> HIDE DEF s
    <3> QED
      BY <1>1, <2>1, <2>4, <2>5, <3>1, <3>2, <3>3, JournalAdded
  <2>7. TaskInv'
    <3>1. born' \in Nat /\ born <= born'
      BY <2>1, <2>3
    <3>2. \A r \in 1..born : HasWriter(r)' => HasWriter(r)
      BY <2>3, <2>6 DEF Ids
    <3> QED
      BY <1>1, <2>6, <3>1, <3>2, SameTasksStay
  <2>8. /\ inherited' \in [Ids -> [session : Nat, through : Nat]]
        /\ inherited'[s] = [session |-> f.of, through |-> f.through]
        /\ \A r \in Ids : r # s => inherited'[r] = inherited[r]
    <3>1. inherited \in [Ids -> [session : Nat, through : Nat]] /\ f.of \in Nat
      BY <1>3 DEF KeptInv, LoopTypes, Ids
    <3>2. [session |-> f.of, through |-> f.through] \in [session : Nat, through : Nat]
      BY <1>3, <3>1
    <3> HIDE DEF s
    <3> QED
      BY <2>1, <2>3, <3>1, <3>2
  <2> HIDE DEF s
  <2>9. ForkInv'
    <3>1. ASSUME NEW q \in Processes, NEW g \in forks'[q]
          PROVE  Reaches(stored'[g.of], g.through)
      BY <1>1, <1>2, <3>1 DEF KeptInv, ForkInv
    <3>2. ASSUME NEW r \in Ids, inherited'[r].through > 0
          PROVE  /\ inherited'[r].session \in Ids
                 /\ Reaches(stored'[inherited'[r].session], inherited'[r].through)
      <4>1. CASE r = s
        BY <1>1, <1>3, <2>8, <4>1
      <4>2. CASE r # s
        BY <1>1, <2>8, <3>2, <4>2 DEF KeptInv, ForkInv
      <4> QED
        BY <4>1, <4>2
    <3> QED
      BY <3>1, <3>2 DEF ForkInv
  <2>10. LoopTypes' /\ MessageInv' /\ NoMessageIsForgotten'
    BY <1>1, <1>2, <2>6, <2>8 DEF KeptInv, LoopTypes, MessageInv, NoMessageIsForgotten
  <2> QED
    BY <2>6, <2>7, <2>9, <2>10 DEF KeptInv
<1> QED
  BY <1>4, <1>5

-----------------------------------------------------------------------------
(* One lemma for each action: messages, and the ends of processes.         *)

(* Min, of what there is to choose from.                                   *)
LEMMA MinIs ==
  ASSUME NEW S \in SUBSET Nat, S # {}
  PROVE  Min(S) \in S
<1>1. \E x \in S : \A y \in S : ~(<<y, x>> \in OpToRel(<, Nat))
  BY WFMin, NatLessThanWellFounded, Zenon
<1>2. PICK x \in S : \A y \in S : ~(<<y, x>> \in OpToRel(<, Nat))
  BY <1>1, Zenon
<1>3. \A y \in S : x <= y
  <2> TAKE y \in S
  <2>1. x \in Nat /\ y \in Nat
    OBVIOUS
  <2>2. y < x => <<y, x>> \in OpToRel(<, Nat)
    <3>1. <<y, x>> \in Nat \X Nat /\ <<y, x>>[1] = y /\ <<y, x>>[2] = x
      BY <2>1
    <3> QED
      BY <3>1, Zenon DEF OpToRel
  <2>3. ~(y < x)
    BY <1>2, <2>2, Zenon
  <2> QED
    BY <2>1, <2>3
<1> QED
  BY <1>3 DEF Min

(* Steps that only place a message and, it may be, open for it.            *)
LEMMA AnsweredKeeps ==
  ASSUME KeptInv, NEW ms, NEW there \in Whereabouts, Placed(ms, there),
         there.at # "opening",
         UNCHANGED <<stored, born, journals, panes, tasks, forks, loop, inherited>>
  PROVE  KeptInv'
<1>1. /\ message' \in [Messages -> Whereabouts]
      /\ \A m \in Messages : message'[m].at = "opening" => message'[m] = message[m]
  BY PlacedIs DEF KeptInv
<1>2. Moves /\ NoneEnds
  BY DEF Moves, Follows, NoneEnds, KeptInv, StoreTypes
<1> QED
  BY <1>1, <1>2, JournalsAlone

LEMMA RejectedKeeps ==
  ASSUME KeptInv, NEW p \in Processes, NEW m \in Messages, Rejected(p, m)
  PROVE  KeptInv'
<1> DEFINE there == [at |-> "answered", process |-> "none", pane |-> 0]
<1>1. /\ Placed({m}, there)
      /\ UNCHANGED <<stored, born, journals, panes, tasks, forks, loop, inherited>>
  BY DEF Rejected, Answered, Moved, None, Placed
<1>2. there \in Whereabouts /\ there.at # "opening"
  BY DEF Whereabouts
<1> HIDE DEF there
<1> QED
  BY <1>1, <1>2, AnsweredKeeps

LEMMA DeliveredKeeps ==
  ASSUME KeptInv, NEW p \in Processes, NEW m \in Messages, Delivered(p, m)
  PROVE  KeptInv'
<1> DEFINE there == [at |-> "answered", process |-> "none", pane |-> 0]
           i == JournalOf(p, message[m].pane)
           j == journals[i]
           new == AppendLocal(j, "message")
<1>1. /\ Ready(p) /\ Placed({m}, there)
      /\ IF i = 0 THEN UNCHANGED journals
         ELSE j.writer = "open" /\ journals' = [journals EXCEPT ![i] = new]
      /\ UNCHANGED <<stored, born, panes, tasks, forks, loop, inherited>>
  BY DEF Delivered, Answered, Moved, None, Placed
<1>2. there \in Whereabouts /\ there.at # "opening"
  BY DEF Whereabouts
<1> HIDE DEF there
<1>3. CASE i = 0
  BY <1>1, <1>2, <1>3, AnsweredKeeps
<1>4. CASE i # 0
  <2>1. /\ j.writer = "open" /\ journals' = [journals EXCEPT ![i] = new]
    BY <1>1, <1>4
  <2>2. i \in DOMAIN journals
    <3>1. message[m].pane \in Live(p) /\ i = panes[p][message[m].pane].journal
      BY <1>4 DEF JournalOf, Live
    <3> QED
      BY <1>1, <3>1, ReadyIs, PaneJournal
  <2>3. /\ j \in Journals /\ stored[j.session] \in Seq(Records)
        /\ Continues(stored[j.session] \o j.queue, j)
    BY <2>1, <2>2, Ongoing DEF KeptInv, Writes
  <2>4. /\ new \in Journals /\ SameHost(j, new) /\ new.writer = "open"
        /\ Continues(stored[j.session] \o new.queue, new)
    BY <2>1, <2>3, LocalGoes DEF Continues
  <2> HIDE DEF new, i
  <2>5. /\ Moves /\ journals'[i] = new
        /\ \A l \in DOMAIN journals : l # i => journals'[l] = journals[l]
    <3>1. Writes(j) /\ new.session = j.session
      BY <2>1, <2>4 DEF Writes, SameHost
    <3> QED
      BY <1>1, <2>1, <2>2, <2>4, <3>1, OneMoves DEF KeptInv
  <2>6. NoneEnds
    <3>1. DOMAIN journals' = DOMAIN journals
      BY <2>1
    <3> QED
      BY <2>4, <2>5, <3>1 DEF NoneEnds, SameHost
  <2>7. /\ message' \in [Messages -> Whereabouts]
        /\ \A n \in Messages : message'[n].at = "opening" => message'[n] = message[n]
    BY <1>1, <1>2, PlacedIs DEF KeptInv
  <2> QED
    BY <1>1, <2>5, <2>6, <2>7, JournalsAlone
<1> QED
  BY <1>3, <1>4

(* A message that waits for an open, which is under way.                   *)
LEMMA WaitsKeeps ==
  ASSUME KeptInv, NEW p \in Processes, NEW m \in Messages, NEW k \in Nat,
         Placed({m}, [at |-> "opening", process |-> p, pane |-> k]),
         \E t \in tasks'[p] : t.pane = k,
         \A q \in Processes : \A t \in tasks[q] : \E u \in tasks'[q] : u.pane = t.pane
  PROVE  /\ message' \in [Messages -> Whereabouts]
         /\ MessageInv' /\ NoMessageIsForgotten'
<1> DEFINE there == [at |-> "opening", process |-> p, pane |-> k]
<1>1. there \in Whereabouts /\ there.process = p /\ there.pane = k
  BY DEF Whereabouts
<1> HIDE DEF there
<1>2. /\ message' \in [Messages -> Whereabouts] /\ message'[m] = there
      /\ \A n \in Messages : n # m => message'[n] = message[n]
  <2>1. Placed({m}, there)
    BY DEF there
  <2> QED
    BY <1>1, <2>1, PlacedIs DEF KeptInv
<1>3. ASSUME NEW n \in Messages, message'[n].at = "opening"
      PROVE  /\ message'[n].process \in Processes
             /\ \E u \in tasks'[message'[n].process] : u.pane = message'[n].pane
  <2>1. CASE n = m
    BY <1>1, <1>2, <2>1
  <2>2. CASE n # m
    <3>1. /\ message'[n] = message[n] /\ message[n].process \in Processes
          /\ \E t \in tasks[message[n].process] : t.pane = message[n].pane
      BY <1>2, <1>3, <2>2 DEF KeptInv, MessageInv, NoMessageIsForgotten
    <3> QED
      BY <3>1
  <2> QED
    BY <2>1, <2>2
<1> QED
  BY <1>2, <1>3 DEF MessageInv, NoMessageIsForgotten

LEMMA ArrivesKeeps ==
  ASSUME KeptInv, NEW p \in Processes, NEW m \in Messages, NEW s \in 1..born,
         Arrives(p, m, s)
  PROVE  KeptInv'
<1> DEFINE runtimes == {k \in Live(p) : SessionOf(p, k) = s}
           waiting == {t.pane : t \in Resuming(p, s)}
<1>1. /\ message[m] = Away
      /\ UNCHANGED <<stored, born, journals, forks, loop, inherited>>
  BY DEF Arrives
<1>2. panes[p] \in Seq(Panes) /\ DOMAIN panes[p] = 1..Len(panes[p]) /\ Len(panes[p]) \in Nat
  <2>1. panes[p] \in Seq(Panes)
    BY DEF KeptInv, LoopTypes
  <2> QED
    BY <2>1, LenProperties
<1>3. CASE runtimes # {}
  <2> DEFINE there == [at |-> "worker", process |-> p, pane |-> Min(runtimes)]
  <2>1. Placed({m}, there) /\ UNCHANGED <<panes, tasks>>
    BY <1>3 DEF Arrives, Moved, Placed
  <2>2. Min(runtimes) \in Nat
    <3>1. runtimes \in SUBSET Nat
      BY <1>2 DEF Live
    <3> HIDE DEF runtimes
    <3> QED
      BY <1>3, <3>1, MinIs
  <2> HIDE DEF runtimes
  <2>3. there \in Whereabouts /\ there.at # "opening"
    BY <2>2 DEF Whereabouts
  <2> HIDE DEF there
  <2> QED
    BY <1>1, <2>1, <2>3, AnsweredKeeps
<1>4. CASE runtimes = {} /\ Resuming(p, s) # {}
  <2> DEFINE k == Min(waiting)
  <2>1. /\ Placed({m}, [at |-> "opening", process |-> p, pane |-> k])
        /\ UNCHANGED <<panes, tasks>>
    BY <1>4 DEF Arrives, Moved, Placed
  <2>2. k \in waiting /\ k \in Nat
    <3>1. waiting \in SUBSET Nat /\ waiting # {}
      BY <1>4 DEF Resuming, KeptInv, LoopTypes, Tasks
    <3> HIDE DEF waiting
    <3> QED
      BY <3>1, MinIs
  <2>3. \E t \in tasks'[p] : t.pane = k
    <3>1. PICK t \in Resuming(p, s) : t.pane = k
      BY <2>2
    <3> HIDE DEF k
    <3> QED
      BY <2>1, <3>1 DEF Resuming
  <2> HIDE DEF k
  <2>4. \A q \in Processes : \A t \in tasks[q] : \E u \in tasks'[q] : u.pane = t.pane
    BY <2>1
  <2>5. /\ message' \in [Messages -> Whereabouts]
        /\ MessageInv' /\ NoMessageIsForgotten'
    BY <2>1, <2>2, <2>3, <2>4, WaitsKeeps
  <2>6. SamePanes
    BY <2>1, SameStays DEF KeptInv
  <2>7. /\ StoreTypes' /\ RowsInv' /\ WriterInv' /\ PaneInv' /\ ForkInv'
        /\ \A r : HasWriter(r)' = HasWriter(r)
    BY <1>1, <2>6, StoreAlone
  <2>8. TaskInv'
    <3>1. born' \in Nat /\ born <= born'
      BY <1>1 DEF KeptInv, StoreTypes
    <3> QED
      BY <1>1, <2>1, <2>7, <3>1, SameTasksStay
  <2>9. LoopTypes'
    BY <1>1, <2>1, <2>5 DEF KeptInv, LoopTypes
  <2> QED
    BY <2>5, <2>7, <2>8, <2>9 DEF KeptInv
<1>5. CASE runtimes = {} /\ Resuming(p, s) = {} /\ Resumable(s) /\ MayOpen(p)
  <2> DEFINE k == NewPane(p)
             t == Task(k, s, TRUE)
  <2>1. /\ OpensIn(p, k, s)
        /\ tasks' = [tasks EXCEPT ![p] = @ \cup {t}]
        /\ Placed({m}, [at |-> "opening", process |-> p, pane |-> k])
    BY <1>5 DEF Arrives, Moved, Placed
  <2>2. k \in Nat
    BY <1>2 DEF NewPane
  <2>3. SamePanes
    BY <2>1, PaneAdded DEF OpensIn, KeptInv
  <2> HIDE DEF k
  <2>4. /\ t \in Tasks /\ t.phase = "loading" /\ t.session = s /\ t.next = 1
        /\ t.pane = k /\ s \in 0..born
    <3>1. s \in Nat /\ s \in 0..born
      BY DEF KeptInv, StoreTypes
    <3> QED
      BY <2>2, <3>1 DEF Task, Tasks
  <2> HIDE DEF t
  <2>5. /\ TaskInv' /\ tasks' \in [Processes -> SUBSET Tasks] /\ t \in tasks'[p]
        /\ \A q \in Processes : \A u \in tasks[q] : u \in tasks'[q]
    <3>1. ~Locked(t.session)
      BY <1>5, <2>4 DEF Resumable
    <3> QED
      BY <1>1, <2>1, <2>4, <3>1, TaskAdded
  <2>6. /\ message' \in [Messages -> Whereabouts]
        /\ MessageInv' /\ NoMessageIsForgotten'
    BY <2>1, <2>2, <2>4, <2>5, WaitsKeeps
  <2>7. /\ StoreTypes' /\ RowsInv' /\ WriterInv' /\ PaneInv' /\ ForkInv'
    BY <1>1, <2>3, StoreAlone
  <2>8. LoopTypes'
    BY <1>1, <2>3, <2>5, <2>6 DEF KeptInv, LoopTypes, SamePanes
  <2> QED
    BY <2>5, <2>6, <2>7, <2>8 DEF KeptInv
<1>6. CASE runtimes = {} /\ Resuming(p, s) = {} /\ ~(Resumable(s) /\ MayOpen(p))
  <2> DEFINE there == [at |-> "answered", process |-> "none", pane |-> 0]
  <2>1. Placed({m}, there) /\ UNCHANGED <<panes, tasks>>
    BY <1>6 DEF Arrives, Answered, Moved, None, Placed
  <2>2. there \in Whereabouts /\ there.at # "opening"
    BY DEF Whereabouts
  <2> HIDE DEF there
  <2> QED
    BY <1>1, <2>1, <2>2, AnsweredKeeps
<1> QED
  BY <1>3, <1>4, <1>5, <1>6

(* The journals that one process has are closed, or those of another are   *)
(* as they were.                                                           *)
Elsewhere(p) ==
  /\ DOMAIN journals' = DOMAIN journals
  /\ \A i \in DOMAIN journals :
       journals[i].process # p => journals'[i] = journals[i]

(* A process that ends, or is about to: it awaits nothing but writers, or  *)
(* has no panes.                                                           *)
LEMMA PanesElsewhere ==
  ASSUME KeptInv, NEW p \in Processes, Elsewhere(p), NEW l \in Loops,
         loop' = [loop EXCEPT ![p] = l], l.awaits \notin {"flush", "start"},
         \/ l.awaits = "writers" /\ panes' = panes
         \/ panes' = [panes EXCEPT ![p] = <<>>]
  PROVE  /\ PaneInv' /\ loop' \in [Processes -> Loops]
         /\ panes' \in [Processes -> Seq(Panes)]
<1>1. /\ loop' \in [Processes -> Loops] /\ loop'[p] = l
      /\ \A q \in Processes : q # p => loop'[q] = loop[q]
  BY DEF KeptInv, LoopTypes
<1>2. /\ panes' \in [Processes -> Seq(Panes)]
      /\ l.awaits = "writers" \/ panes'[p] = <<>>
      /\ \A q \in Processes : q # p => panes'[q] = panes[q]
  <2>1. <<>> \in Seq(Panes)
    BY EmptySeq
  <2> QED
    BY <2>1 DEF KeptInv, LoopTypes
<1>3. PaneAt(p)'
  BY <1>1, <1>2 DEF PaneAt, Live
<1>4. ASSUME NEW q \in Processes, q # p PROVE PaneAt(q)'
  <2>1. PaneAt(q) /\ loop'[q] = loop[q] /\ panes'[q] = panes[q]
    BY <1>1, <1>2, <1>4 DEF KeptInv, PaneInv
  <2>2. Live(q)' = Live(q)
    BY <2>1 DEF Live
  <2>3. ASSUME NEW k \in Live(q)', LiveAt(q, k)
        PROVE  LET i == panes[q][k].journal IN
               journals'[i].process = q /\ journals'[i].writer \in {"open", "failed"}
    BY <1>4, <2>3 DEF LiveAt, Elsewhere
  <2>4. DOMAIN journals \in SUBSET DOMAIN journals'
    BY DEF Elsewhere
  <2> QED
    BY <2>1, <2>2, <2>3, <2>4, PaneStays DEF PaneAt
<1> QED
  BY <1>1, <1>2, <1>3, <1>4 DEF PaneInv

(* The opens of a process are dropped, and its messages told.              *)
LEMMA DroppedIs ==
  ASSUME KeptInv, NEW p \in Processes, Dropped(p), tasks' = [tasks EXCEPT ![p] = {}]
  PROVE  /\ message' \in [Messages -> Whereabouts]
         /\ MessageInv' /\ NoMessageIsForgotten'
         /\ tasks' \in [Processes -> SUBSET Tasks]
         /\ \A q \in Processes : tasks'[q] \in SUBSET tasks[q]
<1> DEFINE there == [at |-> "answered", process |-> "none", pane |-> 0]
           ms == {m \in Messages : message[m].process = p}
<1>1. Placed(ms, there)
  BY DEF Dropped, Answered, Moved, None, Placed
<1>2. there \in Whereabouts /\ there.at = "answered"
  BY DEF Whereabouts
<1>3. \A m \in Messages : m \notin ms => message[m].process # p
  OBVIOUS
<1> HIDE DEF there, ms
<1>4. /\ message' \in [Messages -> Whereabouts]
      /\ \A m \in Messages : m \in ms => message'[m] = there
      /\ \A m \in Messages : m \notin ms => message'[m] = message[m]
  BY <1>1, <1>2, PlacedIs DEF KeptInv
<1>5. /\ tasks' \in [Processes -> SUBSET Tasks] /\ tasks'[p] = {}
      /\ \A q \in Processes : q # p => tasks'[q] = tasks[q]
  BY DEF KeptInv, LoopTypes
<1>6. ASSUME NEW m \in Messages, message'[m].at = "opening"
      PROVE  /\ message'[m].process \in Processes
             /\ \E u \in tasks'[message'[m].process] : u.pane = message'[m].pane
  <2>1. message'[m] = message[m] /\ message[m].process # p
    BY <1>2, <1>3, <1>4, <1>6
  <2>2. /\ message[m].process \in Processes
        /\ \E t \in tasks[message[m].process] : t.pane = message[m].pane
    BY <1>6, <2>1 DEF KeptInv, MessageInv, NoMessageIsForgotten
  <2> QED
    BY <1>5, <2>1, <2>2
<1> QED
  BY <1>4, <1>5, <1>6 DEF MessageInv, NoMessageIsForgotten

(* What an end leaves of the store and the opens.                          *)
LEMMA EndsKeep ==
  ASSUME KeptInv, Moves, tasks' \in [Processes -> SUBSET Tasks],
         \A q \in Processes : tasks'[q] \in SUBSET tasks[q],
         inherited' = inherited, forks' \in [Processes -> SUBSET Forks],
         \A q \in Processes : forks'[q] \in SUBSET forks[q],
         PaneInv', loop' \in [Processes -> Loops], panes' \in [Processes -> Seq(Panes)],
         message' \in [Messages -> Whereabouts], MessageInv', NoMessageIsForgotten'
  PROVE  KeptInv'
<1>1. StoreTypes' /\ RowsInv' /\ WriterInv' /\ NoNewWriter
  BY MovesKeep DEF KeptInv
<1>2. stored' = stored /\ born' = born
  BY DEF Moves
<1>3. TaskInv'
  <2>1. ASSUME NEW q \in Processes, NEW t \in tasks'[q], t.session # 0, t.phase # "failed"
        PROVE  HasWriter(t.session)' => HasWriter(t.session)
    <3>1. TaskAt(t)
      BY <2>1 DEF KeptInv, TaskInv
    <3>2. t.session \in Ids
      BY <2>1, <3>1, SessionsAssumption DEF TaskAt, KeptInv, StoreTypes, Ids
    <3> QED
      BY <1>1, <3>2 DEF NoNewWriter
  <2>2. born' \in Nat /\ born <= born'
    BY <1>2 DEF KeptInv, StoreTypes
  <2> QED
    BY <1>1, <1>2, <2>1, <2>2, TasksStay DEF KeptInv
<1>4. ForkInv' /\ LoopTypes'
  BY <1>2, ForksStay DEF KeptInv, LoopTypes
<1> QED
  BY <1>1, <1>3, <1>4 DEF KeptInv

(* Shutdown closes the journals that are open.                             *)
LEMMA QuitKeeps ==
  ASSUME KeptInv, NEW p \in Processes, Quit(p)
  PROVE  KeptInv'
<1> DEFINE l == [awaits |-> "writers", pane |-> 0]
           ends(i) == journals[i].process = p /\ journals[i].writer = "open"
<1>1. /\ tasks' = [tasks EXCEPT ![p] = {}] /\ forks' = [forks EXCEPT ![p] = {}]
      /\ journals' = [i \in DOMAIN journals |->
           IF ends(i) THEN Closed(journals[i]) ELSE journals[i]]
      /\ loop' = [loop EXCEPT ![p] = l]
      /\ Dropped(p)
      /\ UNCHANGED <<stored, born, panes, inherited>>
  BY DEF Quit
<1>2. l \in Loops /\ l.awaits = "writers"
  BY DEF Loops
<1> HIDE DEF l
<1>3. /\ DOMAIN journals = 1..Len(journals) /\ Len(journals) \in Nat
      /\ \A i \in DOMAIN journals : journals[i] \in Journals
  BY JournalDomain DEF KeptInv
<1>4. ASSUME NEW i \in DOMAIN journals
      PROVE  journals'[i] \in Journals /\ Follows(i)
  <2>1. CASE ends(i)
    <3>1. journals'[i] = Closed(journals[i]) /\ journals[i].writer = "open"
      BY <1>1, <1>4, <2>1
    <3>2. /\ journals'[i] \in Journals /\ journals'[i].session = journals[i].session
          /\ Continues(stored[journals[i].session] \o journals'[i].queue, journals'[i])
      BY <1>4, <3>1, ClosedFollows DEF SameHost
    <3> QED
      BY <3>1, <3>2 DEF Follows, Writes
  <2>2. CASE ~ends(i)
    BY <1>1, <1>3, <1>4, <2>2 DEF Follows
  <2> QED
    BY <2>1, <2>2
<1>5. Elsewhere(p)
  BY <1>1 DEF Elsewhere
<1>6. Moves
  <2>1. DOMAIN journals' = 1..Len(journals)
    BY <1>1, <1>3
  <2>2. journals' = [i \in 1..Len(journals) |-> journals'[i]]
    BY <1>1, <1>3
  <2>3. journals' \in Seq(Journals)
    <3>1. journals' \in [1..Len(journals) -> Journals]
      BY <1>3, <1>4, <2>1, <2>2
    <3> QED
      BY <1>3, <3>1, SeqDef
  <2>4. Len(journals') = Len(journals)
    BY <1>3, <2>1, <2>3, LenProperties
  <2> QED
    BY <1>1, <1>4, <2>3, <2>4 DEF Moves
<1>7. /\ PaneInv' /\ loop' \in [Processes -> Loops]
      /\ panes' \in [Processes -> Seq(Panes)]
  <2>1. l.awaits \notin {"flush", "start"}
    BY <1>2
  <2> QED
    BY <1>1, <1>2, <1>5, <2>1, PanesElsewhere
<1>8. /\ message' \in [Messages -> Whereabouts]
      /\ MessageInv' /\ NoMessageIsForgotten'
      /\ tasks' \in [Processes -> SUBSET Tasks]
      /\ \A q \in Processes : tasks'[q] \in SUBSET tasks[q]
  BY <1>1, DroppedIs
<1>9. /\ forks' \in [Processes -> SUBSET Forks]
      /\ \A q \in Processes : forks'[q] \in SUBSET forks[q]
  BY <1>1 DEF KeptInv, LoopTypes
<1> QED
  BY <1>1, <1>6, <1>7, <1>8, <1>9, EndsKeep

(* The journals of a process that is no more have no writers.              *)
LEMMA LostIs ==
  ASSUME KeptInv, NEW p \in Processes, Lost(p), stored' = stored, born' = born
  PROVE  Moves /\ Elsewhere(p)
<1>1. journals' = [i \in DOMAIN journals |->
        IF journals[i].process = p THEN Gone ELSE journals[i]]
  BY DEF Lost
<1>2. /\ DOMAIN journals = 1..Len(journals) /\ Len(journals) \in Nat
      /\ \A i \in DOMAIN journals : journals[i] \in Journals
  BY JournalDomain DEF KeptInv
<1>3. Gone \in Journals /\ ~Writes(Gone) /\ Gone.writer = "gone"
  BY GoneIs DEF Writes
<1> HIDE DEF Gone
<1>4. /\ DOMAIN journals' = DOMAIN journals
      /\ \A i \in DOMAIN journals :
           journals'[i] \in Journals /\ (journals'[i] = Gone \/ journals'[i] = journals[i])
  BY <1>1, <1>2, <1>3
<1>5. \A i \in DOMAIN journals : Follows(i)
  BY <1>3, <1>4 DEF Follows
<1>6. journals' \in Seq(Journals) /\ Len(journals') = Len(journals)
  <2>1. journals' = [i \in 1..Len(journals) |-> journals'[i]]
    BY <1>1, <1>2
  <2>2. journals' \in [1..Len(journals) -> Journals]
    BY <1>2, <1>4, <2>1
  <2>3. journals' \in Seq(Journals)
    BY <1>2, <2>2, SeqDef
  <2> QED
    BY <1>2, <1>4, <2>3, LenProperties
<1>7. Elsewhere(p)
  BY <1>1 DEF Elsewhere
<1> QED
  BY <1>5, <1>6, <1>7 DEF Moves

LEMMA ExitsKeeps ==
  ASSUME KeptInv, NEW p \in Processes, Exits(p)
  PROVE  KeptInv'
<1>1. /\ Lost(p) /\ loop[p].awaits = "writers"
      /\ panes' = [panes EXCEPT ![p] = <<>>] /\ loop' = [loop EXCEPT ![p] = Free]
      /\ UNCHANGED <<stored, born, tasks, forks, message, inherited>>
  BY DEF Exits
<1>2. Moves /\ Elsewhere(p)
  BY <1>1, LostIs
<1>3. /\ PaneInv' /\ loop' \in [Processes -> Loops]
      /\ panes' \in [Processes -> Seq(Panes)]
  <2>1. Free \in Loops /\ Free.awaits \notin {"flush", "start"}
    BY FreeIs
  <2> QED
    BY <1>1, <1>2, <2>1, PanesElsewhere
<1>4. /\ message' \in [Messages -> Whereabouts]
      /\ MessageInv' /\ NoMessageIsForgotten'
      /\ tasks' \in [Processes -> SUBSET Tasks]
      /\ forks' \in [Processes -> SUBSET Forks]
  BY <1>1 DEF KeptInv, LoopTypes, MessageInv, NoMessageIsForgotten
<1> QED
  BY <1>1, <1>2, <1>3, <1>4, EndsKeep

LEMMA CrashKeeps ==
  ASSUME KeptInv, NEW p \in Processes, Crash(p)
  PROVE  KeptInv'
<1>1. /\ Lost(p) /\ Dropped(p)
      /\ panes' = [panes EXCEPT ![p] = <<>>] /\ loop' = [loop EXCEPT ![p] = Free]
      /\ tasks' = [tasks EXCEPT ![p] = {}] /\ forks' = [forks EXCEPT ![p] = {}]
      /\ UNCHANGED <<stored, born, inherited>>
  BY DEF Crash
<1>2. Moves /\ Elsewhere(p)
  BY <1>1, LostIs
<1>3. /\ PaneInv' /\ loop' \in [Processes -> Loops]
      /\ panes' \in [Processes -> Seq(Panes)]
  <2>1. Free \in Loops /\ Free.awaits \notin {"flush", "start"}
    BY FreeIs
  <2> QED
    BY <1>1, <1>2, <2>1, PanesElsewhere
<1>4. /\ message' \in [Messages -> Whereabouts]
      /\ MessageInv' /\ NoMessageIsForgotten'
      /\ tasks' \in [Processes -> SUBSET Tasks]
      /\ \A q \in Processes : tasks'[q] \in SUBSET tasks[q]
  BY <1>1, DroppedIs
<1>5. /\ forks' \in [Processes -> SUBSET Forks]
      /\ \A q \in Processes : forks'[q] \in SUBSET forks[q]
  BY <1>1 DEF KeptInv, LoopTypes
<1> QED
  BY <1>1, <1>2, <1>3, <1>4, <1>5, EndsKeep

-----------------------------------------------------------------------------
(* The invariant is kept by every step.                                    *)
LEMMA NextKeeps ==
  ASSUME KeptInv, [Next]_vars
  PROVE  KeptInv'
<1>1. CASE UNCHANGED vars
  BY <1>1 DEF vars, KeptInv, StoreTypes, LoopTypes, RowsInv, WriterInv, WriterAt,
    OneWriter, TaskInv, TaskAt, OneOpen, HasWriter, PaneInv, PaneAt, LiveAt, Live,
    ForkInv, MessageInv, NoMessageIsForgotten
<1>2. ASSUME NEW p \in Processes, NEW k \in 1..NewPane(p), PaneStep(p, k)
      PROVE  KeptInv'
  <2>1. k \in Nat
    OBVIOUS
  <2>2. ASSUME NEW s \in 0..born, Open(p, k, s) PROVE KeptInv'
    BY <2>1, <2>2, OpenKeeps
  <2>3. ASSUME NEW kind \in {"prompt", "draft", "final", "api"}, Appends(p, k, kind)
        PROVE  KeptInv'
    BY <2>1, <2>3, AppendsKeeps
  <2>4. ASSUME ClosePane(p, k) PROVE KeptInv'
    BY <2>1, <2>4, ClosePaneKeeps
  <2>5. ASSUME StreamEnds(p, k) PROVE KeptInv'
    BY <2>1, <2>5, StreamEndsKeeps
  <2>6. ASSUME RequestFork(p, k) PROVE KeptInv'
    BY <2>1, <2>6, RequestForkKeeps
  <2> QED
    BY <1>2, <2>2, <2>3, <2>4, <2>5, <2>6 DEF PaneStep
<1>3. ASSUME NEW p \in Processes, NEW t \in tasks[p], Loads(p, t) \/ OpenFinished(p, t)
      PROVE  KeptInv'
  BY <1>3, LoadsKeeps, OpenFinishedKeeps
<1>4. ASSUME NEW p \in Processes, NEW f \in forks[p], ForkOpened(p, f) \/ ForkFailed(p, f)
      PROVE  KeptInv'
  BY <1>4, ForkOpenedKeeps, ForkFailedKeeps
<1>5. ASSUME NEW p \in Processes, NEW m \in Messages, Delivered(p, m) \/ Rejected(p, m)
      PROVE  KeptInv'
  BY <1>5, DeliveredKeeps, RejectedKeeps
<1>6. ASSUME NEW p \in Processes, NEW m \in Messages, NEW s \in 1..born, Arrives(p, m, s)
      PROVE  KeptInv'
  BY <1>6, ArrivesKeeps
<1>7. ASSUME NEW p \in Processes, ForkSent(p) \/ ForkReady(p) \/ FlushFails(p)
      PROVE  KeptInv'
  BY <1>7, ForkSentKeeps, ForkReadyKeeps
<1>8. ASSUME NEW p \in Processes, Quit(p) \/ Exits(p) \/ Crash(p)
      PROVE  KeptInv'
  BY <1>8, QuitKeeps, ExitsKeeps, CrashKeeps
<1>9. ASSUME NEW j \in DOMAIN journals, Commits(j) \/ CommitFails(j) \/ WriterEnds(j)
      PROVE  KeptInv'
  BY <1>9, CommitsKeeps, CommitFailsKeeps, WriterEndsKeeps
<1> QED
  BY <1>1, <1>2, <1>3, <1>4, <1>5, <1>6, <1>7, <1>8, <1>9 DEF Next

(* What the store, the journals, the opens, the panes, the forks and the   *)
(* messages have to do with each other, always                             *)
(* (panes.rs, opens.rs, live_messages.rs, journal.rs).                     *)
THEOREM SessionInvariant == Spec => []KeptInv
<1>1. Init => KeptInv
  BY InitKept
<1>2. KeptInv /\ [Next]_vars => KeptInv'
  BY NextKeeps
<1> QED
  BY <1>1, <1>2, PTL DEF Spec

(* A session's records rise from its start, whoever records it: its lock   *)
(* lets one writer go on from all that is stored, and the next one begins  *)
(* past what that one had (session.rs:525-528; panes.rs:449-466).          *)
THEOREM RecordsRise == Spec => []SequencesRise
<1>1. ASSUME KeptInv PROVE SequencesRise
  <2> SUFFICES ASSUME NEW s \in Ids, stored[s] # <<>>
               PROVE  /\ stored[s][1].kind = "start"
                      /\ \A i \in 2..Len(stored[s]) :
                           stored[s][i - 1].seq < stored[s][i].seq
    BY DEF SequencesRise
  <2>1. Whole(stored[s]) /\ stored[s] \in Seq(Records)
    BY <1>1 DEF KeptInv, RowsInv, StoreTypes
  <2>2. DOMAIN stored[s] = 1..Len(stored[s]) /\ Len(stored[s]) \in Nat
    BY <2>1, LenProperties
  <2>3. ASSUME NEW i \in 2..Len(stored[s]) PROVE stored[s][i - 1].seq < stored[s][i].seq
    <3>1. i \in DOMAIN stored[s] /\ i - 1 \in DOMAIN stored[s] /\ i - 1 < i
      BY <2>2
    <3> QED
      BY <2>1, <3>1 DEF Whole
  <2> QED
    BY <2>1, <2>3 DEF Whole
<1> QED
  BY <1>1, SessionInvariant, PTL

(* A fork inherits what is stored: its parent's journal had nothing queued *)
(* when the fork was asked for, and commits drop only drafts that later    *)
(* records replace (opens.rs:382-386).                                     *)
THEOREM ForksInheritWhatIsStored == Spec => []AncestryIsDurable
<1>1. ASSUME KeptInv PROVE AncestryIsDurable
  <2>1. ASSUME NEW s \in Ids, inherited[s].through > 0
        PROVE  \E i \in DOMAIN stored[inherited[s].session] :
                 stored[inherited[s].session][i].seq >= inherited[s].through
    <3>1. Reaches(stored[inherited[s].session], inherited[s].through)
      BY <1>1, <2>1 DEF KeptInv, ForkInv
    <3>2. inherited[s].through # 0
      BY <1>1, <2>1 DEF KeptInv, LoopTypes
    <3> QED
      BY <3>1, <3>2 DEF Reaches
  <2> QED
    BY <2>1 DEF AncestryIsDurable
<1> QED
  BY <1>1, SessionInvariant, PTL

(* A start that is no fork's is stored with what it was held back for, and *)
(* that is never the end of the session (journal.rs:3-6).                  *)
THEOREM NothingUntouchedIsStored == Spec => []UntouchedLeavesNothing
<1>1. ASSUME KeptInv PROVE UntouchedLeavesNothing
  <2>1. ASSUME NEW s \in Ids, NEW i \in 2..Len(stored[s]), Bare(stored[s][i - 1])
        PROVE  stored[s][i].kind # "end"
    <3>1. Whole(stored[s]) /\ stored[s] \in Seq(Records)
      BY <1>1 DEF KeptInv, RowsInv, StoreTypes
    <3>2. i \in DOMAIN stored[s] /\ i > 1
      BY <3>1, LenProperties
    <3> QED
      BY <2>1, <3>1, <3>2 DEF Whole
  <2> QED
    BY <2>1 DEF UntouchedLeavesNothing, Bare
<1> QED
  BY <1>1, SessionInvariant, PTL

(* A message waits only for an open that is under way: whatever ends the   *)
(* open takes its messages along (opens.rs:192-193, 214-227).              *)
THEOREM WaitingMessagesAreOpened == Spec => []NoMessageIsForgotten
<1>1. KeptInv => NoMessageIsForgotten
  BY DEF KeptInv
<1> QED
  BY <1>1, SessionInvariant, PTL

==============================================================================
