----------------------------- MODULE MemoryProofs -----------------------------
(***************************************************************************)
(* Ids and keys of the local memory store keep their meaning, and a push   *)
(* uploads the corpus of one moment, for every limit, every older table    *)
(* and any number of calls, operations, pages and attempts.                *)
(***************************************************************************)
EXTENDS MemoryTransfer, FiniteSetTheorems, WellFoundedInduction, TLAPS

(* What every transaction makes of a row: nothing that a key shows, or its *)
(* next version.                                                           *)
Continues(new, old) ==
  \/ new = old
  \/ /\ new.version = old.version /\ new.content = old.content
     /\ old.scans + old.uses < new.scans + new.uses
  \/ new.version = old.version + 1

(* The table rows may follow the current one: its rows continue, and what  *)
(* is new starts at version 1 under an id that was never given.            *)
Follows(rows) ==
  \A id \in DOMAIN rows :
    \/ id \in DOMAIN memories /\ Continues(rows[id], memories[id])
    \/ rows[id].version = 1 /\ (\A k \in DOMAIN authored : k[1] < id)

(* No key is ahead of its row.                                             *)
NoKeyAhead ==
  \A k \in DOMAIN authored :
    k[1] \in DOMAIN memories => k[2] <= memories[k[1]].version

(* Until the allocator is there, the keys are those of the rows.           *)
KeysBeforeAllocator ==
  next_id = 0 => \A k \in DOMAIN authored : k[1] \in DOMAIN memories

TableInv ==
  /\ IsTable(memories) /\ next_id \in 0 .. MaxInt
  /\ DOMAIN authored \subseteq Keys
  /\ IdsStayRetired /\ KeyNamesOneContent
  /\ NoKeyAhead /\ KeysBeforeAllocator

(* What a call was told stays so: either its key names nothing any more,   *)
(* or the old content is the one first written under it.                   *)
Agrees(d) ==
  /\ d.key \in DOMAIN authored
  /\ \/ d.previous = Unread /\ ~Names(d.key, memories)
     \/ d.previous = authored[d.key]

(* ReadProtects, and why: what was read was counted as used.               *)
Used(key) == Names(key, memories) /\ memories[key[1]].uses > 0

Gone(key) ==
  key[1] \in removed \/ <<key[1], key[2] + 1>> \in DOMAIN authored

Held(d) == d.previous # Unread => Used(d.key) \/ Gone(d.key)

DraftInv ==
  /\ draft \in [Calls -> Drafts \cup {Nobody}]
  /\ \A c \in Calls : draft[c] # Nobody => Agrees(draft[c]) /\ Held(draft[c])

StoreInv == TableInv /\ DraftInv
-----------------------------------------------------------------------------
(* Keys that were given stay given, a stale one stays stale, and a row is  *)
(* new or what has become of the row of its id.                            *)
Advances ==
  /\ \A k \in DOMAIN authored :
       /\ k \in DOMAIN authored' /\ authored'[k] = authored[k]
       /\ Names(k, memories') => Names(k, memories)
  /\ \A id \in DOMAIN memories' :
       \/ id \in DOMAIN memories /\ Continues(memories'[id], memories[id])
       \/ \A k \in DOMAIN authored : k[1] < id

(* A table that follows keeps the keys' meaning.                           *)
LEMMA CommitKeepsKeys ==
  ASSUME TableInv, NEW rows, NEW n \in Ids, IsTable(rows), Follows(rows),
         \A k \in DOMAIN authored : k[1] < n,
         \A id \in DOMAIN rows : id < n,
         Commit(rows, n)
  PROVE  TableInv' /\ Advances
<1> DEFINE current == {KeyOf(rows, id) : id \in DOMAIN rows}
<1>1. /\ memories' = rows /\ next_id' = n
      /\ authored' = [k \in DOMAIN authored \cup current |->
                        IF k \in DOMAIN authored THEN authored[k]
                                                 ELSE rows[k[1]].content]
  BY DEF Commit, Recorded
<1>2. DOMAIN authored' = DOMAIN authored \cup current
  BY <1>1
<1>3. MaxInt \in Nat \ {0} /\ \A k \in DOMAIN authored : k[1] \in Int
  BY LimitsAssumption DEF TableInv, Keys, Ids
<1>4. \A id \in DOMAIN rows :
        /\ id \in Ids /\ rows[id].version \in Ids
        /\ KeyOf(rows, id) = <<id, rows[id].version>>
        /\ KeyOf(rows, id) \in Keys /\ KeyOf(rows, id)[1] = id
  BY DEF IsTable, Rows, KeyOf, Keys
<1>5. next_id' \in 0 .. MaxInt /\ next_id' # 0
  BY <1>1, <1>3 DEF Ids
<1>6. DOMAIN authored' \subseteq Keys
  BY <1>2, <1>4 DEF TableInv
<1>7. IdsStayRetired'
  BY <1>1, <1>2, <1>4 DEF IdsStayRetired
<1>8. KeyNamesOneContent'
  <2> SUFFICES ASSUME NEW id \in DOMAIN rows
               PROVE  authored'[KeyOf(rows, id)] = rows[id].content
    BY <1>1, <1>2 DEF KeyNamesOneContent, KeyOf
  <2> DEFINE k == KeyOf(rows, id)
  <2>1. CASE k \notin DOMAIN authored
    BY <2>1, <1>1, <1>4
  <2>2. CASE k \in DOMAIN authored
    <3>1. authored'[k] = authored[k]
      BY <2>2, <1>1
    <3>2. k = <<id, rows[id].version>> /\ k[1] = id /\ k[2] = rows[id].version
      BY DEF KeyOf
    <3>3. id \in DOMAIN memories /\ Continues(rows[id], memories[id])
      BY <1>3, <2>2, <3>2 DEF Follows
    <3>4. rows[id].version <= memories[id].version
      BY <2>2, <3>2, <3>3 DEF TableInv, NoKeyAhead
    <3>5. memories[id].version \in Ids
      BY <3>3 DEF TableInv, IsTable, Rows
    <3>6. rows[id].version = memories[id].version
             /\ rows[id].content = memories[id].content
      BY <3>3, <3>4, <3>5, <1>3 DEF Continues, Ids
    <3>7. authored[k] = memories[id].content
      BY <3>2, <3>3, <3>6 DEF TableInv, KeyNamesOneContent, KeyOf
    <3> QED
      BY <3>1, <3>6, <3>7
  <2> QED
    BY <2>1, <2>2
<1>9. NoKeyAhead'
  <2> SUFFICES ASSUME NEW k \in DOMAIN authored', k[1] \in DOMAIN rows
               PROVE  k[2] <= rows[k[1]].version
    BY <1>1 DEF NoKeyAhead
  <2>1. rows[k[1]].version \in Ids
    BY <1>4
  <2>2. CASE k \in current
    BY <2>1, <2>2, <1>3, <1>4 DEF Ids
  <2>3. CASE k \in DOMAIN authored
    <3>1. k[1] \in DOMAIN memories /\ Continues(rows[k[1]], memories[k[1]])
      BY <1>3, <2>3 DEF Follows
    <3>2. k[2] <= memories[k[1]].version
      BY <2>3, <3>1 DEF TableInv, NoKeyAhead
    <3>3. memories[k[1]].version \in Ids /\ k[2] \in Ids
      BY <3>1, <2>3 DEF TableInv, IsTable, Rows, Keys
    <3> QED
      BY <2>1, <3>1, <3>2, <3>3, <1>3 DEF Continues, Ids
  <2> QED
    BY <1>2, <2>2, <2>3
<1>10. Advances
  <2>3. \A id \in DOMAIN rows :
          \/ id \in DOMAIN memories /\ Continues(rows[id], memories[id])
          \/ \A k \in DOMAIN authored : k[1] < id
    BY DEF Follows
  <2> SUFFICES ASSUME NEW k \in DOMAIN authored
               PROVE  /\ authored'[k] = authored[k]
                      /\ Names(k, rows) => Names(k, memories)
    BY <1>1, <1>2, <2>3 DEF Advances
  <2>1. authored'[k] = authored[k]
    BY <1>1
  <2>2. ASSUME Names(k, rows) PROVE Names(k, memories)
    <3>1. k[1] \in DOMAIN memories /\ Continues(rows[k[1]], memories[k[1]])
      BY <1>3, <2>2 DEF Names, Follows
    <3>2. k[2] <= memories[k[1]].version
      BY <3>1 DEF TableInv, NoKeyAhead
    <3>3. memories[k[1]].version \in Ids
      BY <3>1 DEF TableInv, IsTable, Rows
    <3> QED
      BY <2>2, <3>1, <3>2, <3>3, <1>3 DEF Names, Continues, Ids
  <2> QED
    BY <2>1, <2>2
<1> QED
  BY <1>1, <1>5, <1>6, <1>7, <1>8, <1>9, <1>10
     DEF TableInv, KeysBeforeAllocator

(* The next id of the code is above every id that was ever given.          *)
LEMMA NextIsNew ==
  ASSUME TableInv, NEW n \in Ids, IsNext(n, next_id, memories)
  PROVE  /\ \A id \in DOMAIN memories : id < n
         /\ \A k \in DOMAIN authored : k[1] < n
<1>1. \A id \in DOMAIN memories : id < n
  BY DEF IsNext
<1>2. ASSUME NEW k \in DOMAIN authored PROVE k[1] < n
  <2>1. CASE next_id = 0
    BY <1>1, <2>1 DEF TableInv, KeysBeforeAllocator
  <2>2. CASE next_id # 0
    <3>1. k[1] < next_id /\ next_id <= n
      BY <2>2 DEF TableInv, IdsStayRetired, IsNext
    <3>2. k[1] \in Int /\ next_id \in Int /\ n \in Int
      BY LimitsAssumption DEF TableInv, Keys, Ids
    <3> QED
      BY <3>1, <3>2
  <2> QED
    BY <2>1, <2>2
<1> QED
  BY <1>1, <1>2
-----------------------------------------------------------------------------
(* What pruning, counting and removing leave of the table.                 *)
Keeps(rows) ==
  /\ IsTable(rows)
  /\ \A id \in DOMAIN rows :
       /\ id \in DOMAIN memories
       /\ \/ rows[id] = memories[id]
          \/ /\ rows[id].version = memories[id].version
             /\ rows[id].content = memories[id].content
             /\ memories[id].scans + memories[id].uses < rows[id].scans + rows[id].uses

(* Whatever was read stays in the table.                                   *)
Spares(rows) ==
  \A id \in DOMAIN memories : memories[id].uses > 0 =>
    /\ id \in DOMAIN rows /\ rows[id].version = memories[id].version
    /\ rows[id].uses > 0

LEMMA MemoriesKeep ==
  ASSUME TableInv PROVE Keeps(memories) /\ Spares(memories)
BY DEF TableInv, Keeps, Spares

LEMMA PrunedKeeps ==
  ASSUME TableInv, NEW t \in Times
  PROVE  Keeps(Pruned(memories, t)) /\ Spares(Pruned(memories, t))
<1> DEFINE rows == Pruned(memories, t)
<1>1. /\ DOMAIN rows = {id \in DOMAIN memories : ~Expired(memories[id], t)}
      /\ rows = [id \in DOMAIN rows |-> memories[id]]
  BY DEF Pruned, Restrict
<1>2. Keeps(rows)
  BY <1>1 DEF Keeps, TableInv, IsTable
<1>3. \A id \in DOMAIN memories :
        memories[id].uses > 0 => ~Expired(memories[id], t)
  BY DEF Expired
<1>4. Spares(rows)
  BY <1>1, <1>3 DEF Spares
<1> QED
  BY <1>2, <1>4

(* To count once more what pruning has left.                               *)
LEMMA KeepsMore ==
  ASSUME NEW rows, Keeps(rows), IsTable(memories), NEW new,
         DOMAIN new = DOMAIN rows, new = [id \in DOMAIN new |-> new[id]],
         \A id \in DOMAIN rows :
           /\ new[id] \in Rows
           /\ new[id].version = rows[id].version /\ new[id].content = rows[id].content
           /\ \/ new[id] = rows[id]
              \/ rows[id].scans + rows[id].uses < new[id].scans + new[id].uses
  PROVE  Keeps(new)
<1>1. IsTable(new)
  BY DEF Keeps, IsTable
<1>2. ASSUME NEW id \in DOMAIN new
      PROVE  \/ new[id] = memories[id]
             \/ /\ new[id].version = memories[id].version
                /\ new[id].content = memories[id].content
                /\ memories[id].scans + memories[id].uses < new[id].scans + new[id].uses
  <2>1. id \in DOMAIN memories /\ rows[id] \in Rows /\ memories[id] \in Rows /\ new[id] \in Rows
    BY DEF Keeps, IsTable
  <2>2. /\ rows[id].scans + rows[id].uses \in Int
        /\ memories[id].scans + memories[id].uses \in Int
        /\ new[id].scans + new[id].uses \in Int
    BY <2>1 DEF Rows
  <2>3. \/ rows[id] = memories[id]
        \/ /\ rows[id].version = memories[id].version
           /\ rows[id].content = memories[id].content
           /\ memories[id].scans + memories[id].uses < rows[id].scans + rows[id].uses
    BY DEF Keeps
  <2> QED
    BY <2>2, <2>3
<1> QED
  BY <1>1, <1>2 DEF Keeps

LEMMA ScannedKeeps ==
  ASSUME TableInv, NEW rows, Keeps(rows), Spares(rows), NEW candidates
  PROVE  Keeps(Scanned(rows, candidates)) /\ Spares(Scanned(rows, candidates))
<1> DEFINE new == Scanned(rows, candidates)
<1>1. DOMAIN new = DOMAIN rows /\ new = [id \in DOMAIN new |-> new[id]]
  BY DEF Scanned
<1>2. ASSUME NEW id \in DOMAIN rows
      PROVE  /\ new[id] \in Rows
             /\ new[id].version = rows[id].version
             /\ new[id].content = rows[id].content
             /\ new[id].uses = rows[id].uses
             /\ \/ new[id] = rows[id]
                \/ rows[id].scans + rows[id].uses < new[id].scans + new[id].uses
  <2>1. rows[id] \in Rows
    BY DEF Keeps, IsTable
  <2>2. new[id] = [rows[id] EXCEPT !.scans = @ + 1] \/ new[id] = rows[id]
    BY DEF Scanned
  <2> QED
    BY <2>1, <2>2 DEF Rows
<1>3. Keeps(new)
  BY <1>1, <1>2, KeepsMore DEF TableInv
<1>4. Spares(new)
  BY <1>1, <1>2 DEF Spares
<1> QED
  BY <1>3, <1>4

LEMMA AfterReadKeeps ==
  ASSUME TableInv, NEW rows, Keeps(rows), Spares(rows), NEW key \in Keys
  PROVE  Keeps(AfterRead(rows, key)) /\ Spares(AfterRead(rows, key))
<1> DEFINE new == AfterRead(rows, key)
<1>1. CASE ~Names(key, rows)
  BY <1>1 DEF AfterRead
<1>2. CASE Names(key, rows)
  <2>1. DOMAIN new = DOMAIN rows /\ new = [id \in DOMAIN new |-> new[id]]
    BY <1>2 DEF AfterRead, WasRead, With, Names
  <2>2. ASSUME NEW id \in DOMAIN rows
        PROVE  /\ new[id] \in Rows
               /\ new[id].version = rows[id].version
               /\ new[id].content = rows[id].content
               /\ rows[id].uses > 0 => new[id].uses > 0
               /\ \/ new[id] = rows[id]
                  \/ rows[id].scans + rows[id].uses < new[id].scans + new[id].uses
    <3>1. rows[id] \in Rows
      BY DEF Keeps, IsTable
    <3>2. CASE id # key[1]
      BY <1>2, <3>1, <3>2 DEF AfterRead, WasRead, With
    <3>3. CASE id = key[1]
      <4> DEFINE used == [rows[id] EXCEPT !.uses = @ + 1]
      <4>1. new[id] = [used EXCEPT !.until = 0]
        BY <1>2, <3>3, Zenon DEF AfterRead, WasRead, With
      <4>2. /\ used \in Rows /\ used.uses > 0
            /\ used.version = rows[id].version
            /\ used.content = rows[id].content
            /\ rows[id].scans + rows[id].uses < used.scans + used.uses
        BY <3>1 DEF Rows
      <4> HIDE DEF used
      <4> QED
        BY <4>1, <4>2 DEF Rows
    <3> QED
      BY <3>2, <3>3
  <2>3. Keeps(new)
    BY <2>1, <2>2, KeepsMore DEF TableInv
  <2>4. Spares(new)
    BY <2>1, <2>2 DEF Spares
  <2> QED
    BY <2>3, <2>4
<1> QED
  BY <1>1, <1>2

LEMMA WithoutKeeps ==
  ASSUME TableInv, NEW i
  PROVE  Keeps(Without(memories, i))
<1> DEFINE new == Without(memories, i)
<1>1. /\ DOMAIN new = DOMAIN memories \ {i}
      /\ new = [id \in DOMAIN new |-> memories[id]]
  BY DEF Without, Restrict
<1> QED
  BY <1>1 DEF Keeps, TableInv, IsTable

(* A record that was just written.                                         *)
LEMMA FreshIsRow ==
  ASSUME NEW content \in Contents, NEW version \in Ids, NEW t \in Times
  PROVE  /\ Fresh(content, version, t) \in Rows
         /\ Fresh(content, version, t).version = version
<1>1. t + Probation \in Nat
  BY LimitsAssumption, StoreAssumption
<1> QED
  BY <1>1 DEF Fresh, Rows
-----------------------------------------------------------------------------
(* A transaction that prunes, counts or removes.                           *)
LEMMA UpdateKeepsKeys ==
  ASSUME TableInv, NEW rows, Keeps(rows), Update(rows)
  PROVE  TableInv' /\ Advances /\ memories' = rows
<1>1. PICK n \in Ids : IsNext(n, next_id, memories) /\ Commit(rows, n)
  BY DEF Update
<1>2. Follows(rows)
  BY DEF Keeps, Follows, Continues
<1>3. /\ \A id \in DOMAIN rows : id < n
      /\ \A k \in DOMAIN authored : k[1] < n
  BY <1>1, NextIsNew DEF Keeps
<1>4. TableInv' /\ Advances
  BY <1>1, <1>2, <1>3, CommitKeepsKeys DEF Keeps
<1> QED
  BY <1>1, <1>4 DEF Commit

(* A transaction that writes a record under a new id.                      *)
LEMMA InsertKeepsKeys ==
  ASSUME TableInv, NEW rows, Keeps(rows), Spares(rows),
         NEW id \in Ids, id < MaxInt,
         \A i \in DOMAIN memories : i < id,
         \A k \in DOMAIN authored : k[1] < id,
         NEW content \in Contents, NEW t \in Times,
         Commit(With(rows, id, Fresh(content, 1, t)), id + 1)
  PROVE  TableInv' /\ Advances /\ Spares(memories')
<1> DEFINE row == Fresh(content, 1, t)
           new == With(rows, id, row)
<1>1. row \in Rows /\ row.version = 1
  BY FreshIsRow, LimitsAssumption DEF Ids
<1>2. \A i \in DOMAIN memories : i # id
  BY LimitsAssumption DEF TableInv, IsTable, Ids
<1>3. /\ new = [i \in DOMAIN new |-> new[i]]
      /\ DOMAIN new = DOMAIN rows \cup {id} /\ new[id] = row
      /\ \A i \in DOMAIN rows : new[i] = rows[i]
  BY <1>2 DEF With, Keeps
<1> HIDE DEF row, new
<1>4. IsTable(new)
  BY <1>1, <1>3 DEF Keeps, IsTable
<1>5. \A k \in DOMAIN authored : k[1] # id /\ k[1] < id + 1
  BY LimitsAssumption DEF TableInv, Keys, Ids
<1>6. Follows(new)
  BY <1>1, <1>3, <1>5 DEF Keeps, Follows, Continues
<1>7. \A i \in DOMAIN new : i < id + 1
  BY <1>3, LimitsAssumption DEF TableInv, Keeps, IsTable, Ids
<1>8. id + 1 \in Ids
  BY LimitsAssumption DEF Ids
<1>9. Commit(new, id + 1)
  BY DEF new, row
<1>10. TableInv' /\ Advances
  BY <1>4, <1>5, <1>6, <1>7, <1>8, <1>9, CommitKeepsKeys
<1>11. Spares(new)
  BY <1>3 DEF Spares
<1> QED
  BY <1>9, <1>10, <1>11 DEF Commit

(* A transaction that replaces the record a key names.                     *)
LEMMA ReplaceKeepsKeys ==
  ASSUME TableInv, NEW rows, Keeps(rows), Spares(rows),
         NEW key \in Keys, NEW content \in Contents, NEW t \in Times,
         CanReplace(rows, key, content),
         Update(Replaced(rows, key, content, t))
  PROVE  /\ TableInv' /\ Advances
         /\ <<key[1], key[2] + 1>> \in DOMAIN authored'
         /\ \A k \in Keys : Used(k) => Used(k)' \/ k = key
<1>1. PICK n \in Ids : /\ IsNext(n, next_id, memories)
                       /\ Commit(Replaced(rows, key, content, t), n)
  BY DEF Update
<1> DEFINE row == Fresh(content, key[2] + 1, t)
           new == Replaced(rows, key, content, t)
<1>2. key[2] \in Ids /\ key[2] + 1 \in Ids
  BY LimitsAssumption DEF Keys, CanReplace, Ids
<1>3. row \in Rows /\ row.version = key[2] + 1
  BY <1>2, FreshIsRow
<1>4. key[1] \in DOMAIN rows /\ rows[key[1]].version = key[2]
  BY DEF CanReplace, Names
<1>5. /\ new = [i \in DOMAIN new |-> new[i]]
      /\ DOMAIN new = DOMAIN rows /\ new[key[1]] = row
      /\ \A i \in DOMAIN rows : i # key[1] => new[i] = rows[i]
  BY <1>4 DEF Replaced, With
<1>6. Commit(new, n)
  BY <1>1
<1> HIDE DEF row, new
<1>7. IsTable(new)
  BY <1>3, <1>5 DEF Keeps, IsTable
<1>8. Follows(new)
  BY <1>3, <1>4, <1>5 DEF Keeps, Follows, Continues
<1>9. /\ \A id \in DOMAIN new : id < n
      /\ \A k \in DOMAIN authored : k[1] < n
  BY <1>1, <1>5, NextIsNew DEF Keeps
<1>10. TableInv' /\ Advances
  BY <1>6, <1>7, <1>8, <1>9, CommitKeepsKeys
<1>11. KeyOf(new, key[1]) = <<key[1], key[2] + 1>>
  BY <1>3, <1>5 DEF KeyOf
<1>12. KeyOf(memories', key[1]) \in DOMAIN authored'
  BY <1>4, <1>5, <1>6, <1>10 DEF TableInv, KeyNamesOneContent, Commit
<1>13. \A k \in Keys : Used(k) => Used(k)' \/ k = key
  <2> SUFFICES ASSUME NEW k \in Keys, Used(k), k # key PROVE Used(k)'
    OBVIOUS
  <2>1. /\ k[1] \in DOMAIN rows /\ rows[k[1]].version = k[2]
        /\ rows[k[1]].uses > 0
    BY DEF Used, Names, Spares
  <2>2. k[1] # key[1]
    BY <2>1, <1>4 DEF Keys
  <2>3. /\ k[1] \in DOMAIN new /\ new[k[1]].version = k[2]
        /\ new[k[1]].uses > 0
    BY <2>1, <2>2, <1>5
  <2> QED
    BY <2>3, <1>6 DEF Used, Names, Commit
<1> QED
  BY <1>6, <1>10, <1>11, <1>12, <1>13 DEF Commit
-----------------------------------------------------------------------------
(* What was read is still there or gone for one of the two reasons.        *)
HeldStay ==
  \A k \in Keys : Used(k) \/ Gone(k) => Used(k)' \/ Gone(k)'

LEMMA SparedStayHeld ==
  ASSUME TableInv, Advances, Spares(memories'), removed \subseteq removed'
  PROVE  HeldStay
<1> SUFFICES ASSUME NEW k \in Keys, Used(k) \/ Gone(k)
             PROVE  Used(k)' \/ Gone(k)'
  BY DEF HeldStay
<1>1. Gone(k) => Gone(k)'
  BY DEF Gone, Advances
<1>2. Used(k) => Used(k)'
  BY DEF Used, Names, Spares
<1> QED
  BY <1>1, <1>2

(* A call that goes on, or does not, while the table changes.              *)
LEMMA DraftStays ==
  ASSUME StoreInv, Advances, HeldStay,
         NEW c \in Calls, draft[c] # Nobody, draft'[c] = draft[c]
  PROVE  (Agrees(draft[c]) /\ Held(draft[c]))'
<1> DEFINE d == draft[c]
<1>1. d.key \in DOMAIN authored /\ d.key \in Keys
  BY DEF StoreInv, DraftInv, Agrees, TableInv
<1>2. Agrees(d) /\ Held(d)
  BY DEF StoreInv, DraftInv
<1>3. Agrees(draft[c])'
  BY <1>1, <1>2 DEF Agrees, Advances
<1>4. Held(draft[c])'
  BY <1>1, <1>2 DEF Held, HeldStay
<1> QED
  BY <1>3, <1>4

LEMMA DraftsStay ==
  ASSUME StoreInv, Advances, HeldStay, draft' = draft
  PROVE  DraftInv'
BY DraftStays DEF StoreInv, DraftInv

(* Operations that prune and count, and leave the drafts alone.            *)
LEMMA CountingKeepsInv ==
  ASSUME StoreInv, NEW rows, Keeps(rows), Spares(rows), Update(rows),
         draft' = draft, removed' = removed
  PROVE  StoreInv' /\ Advances
<1>1. TableInv' /\ Advances /\ memories' = rows
  BY UpdateKeepsKeys DEF StoreInv
<1>2. HeldStay
  BY <1>1, SparedStayHeld DEF StoreInv
<1> QED
  BY <1>1, <1>2, DraftsStay DEF StoreInv

LEMMA PutReadsKeepsInv ==
  ASSUME StoreInv, NEW c \in Calls, NEW key \in Given, NEW content \in Contents,
         NEW t \in Times, PutReads(c, key, content, t)
  PROVE  StoreInv' /\ Advances
<1> DEFINE rows == Pruned(memories, t)
           new == AfterRead(rows, key)
<1> PICK d : d = [key |-> key, content |-> content,
                  previous |-> IF Names(key, rows) THEN rows[key[1]].content
                                                   ELSE Unread]
  OBVIOUS
<1>1. key \in Keys /\ key \in DOMAIN authored
  BY DEF StoreInv, TableInv, Given
<1>2. Keeps(rows) /\ Spares(rows)
  BY PrunedKeeps DEF StoreInv
<1>3. Keeps(new) /\ Spares(new)
  BY <1>1, <1>2, AfterReadKeeps DEF StoreInv
<1>4. Update(new) /\ draft' = [draft EXCEPT ![c] = d] /\ removed' = removed
  BY DEF PutReads
<1>5. TableInv' /\ Advances /\ memories' = new
  BY <1>3, <1>4, UpdateKeepsKeys DEF StoreInv
<1>6. HeldStay
  BY <1>3, <1>4, <1>5, SparedStayHeld DEF StoreInv
<1>7. d \in Drafts
  BY <1>1, <1>2 DEF Drafts, Names, Keeps, IsTable, Rows
<1>8. Agrees(d)'
  <2>1. d.key = key /\ key \in DOMAIN authored' /\ authored'[key] = authored[key]
    BY <1>1, <1>5 DEF Advances
  <2>2. CASE Names(key, rows)
    <3>1. /\ key[1] \in DOMAIN memories /\ memories[key[1]].version = key[2]
          /\ memories[key[1]].content = rows[key[1]].content
      BY <2>2, <1>2 DEF Names, Keeps
    <3>2. KeyOf(memories, key[1]) = key
      BY <3>1, <1>1 DEF KeyOf, Keys
    <3>3. d.previous = authored[key]
      BY <2>2, <3>1, <3>2 DEF StoreInv, TableInv, KeyNamesOneContent
    <3> QED
      BY <2>1, <3>3 DEF Agrees
  <2>3. CASE ~Names(key, rows)
    BY <2>1, <2>3, <1>5 DEF Agrees, AfterRead
  <2> QED
    BY <2>2, <2>3
<1>9. Held(d)'
  <2>1. CASE Names(key, rows)
    <3>1. /\ DOMAIN new = DOMAIN rows
          /\ new[key[1]] = [rows[key[1]] EXCEPT !.uses = @ + 1, !.until = 0]
      BY <2>1 DEF AfterRead, WasRead, With, Names
    <3>2. rows[key[1]] \in Rows
      BY <2>1, <1>2 DEF Names, Keeps, IsTable
    <3> DEFINE used == [rows[key[1]] EXCEPT !.uses = @ + 1]
    <3>3. used \in Rows /\ used.uses > 0
             /\ used.version = rows[key[1]].version
      BY <3>2 DEF Rows
    <3>4. new[key[1]] = [used EXCEPT !.until = 0]
      BY <3>1, Zenon
    <3> HIDE DEF used
    <3>5. new[key[1]].uses > 0 /\ new[key[1]].version = rows[key[1]].version
      BY <3>3, <3>4 DEF Rows
    <3> QED
      BY <2>1, <3>1, <3>5, <1>5 DEF Held, Used, Names
  <2>2. CASE ~Names(key, rows)
    BY <2>2 DEF Held
  <2> QED
    BY <2>1, <2>2
<1>10. ASSUME NEW e \in Calls, draft'[e] # Nobody
       PROVE  (Agrees(draft[e]) /\ Held(draft[e]))'
  <2>1. CASE e = c
    <3>1. draft'[e] = d
      BY <2>1, <1>4 DEF StoreInv, DraftInv
    <3> QED
      BY <3>1, <1>8, <1>9 DEF Agrees, Held
  <2>2. CASE e # c
    <3>1. draft'[e] = draft[e]
      BY <2>2, <1>4 DEF StoreInv, DraftInv
    <3> QED
      BY <3>1, <1>5, <1>6, <1>10, DraftStays
  <2> QED
    BY <2>1, <2>2
<1>11. draft' \in [Calls -> Drafts \cup {Nobody}]
  BY <1>4, <1>7 DEF StoreInv, DraftInv
<1> QED
  BY <1>5, <1>10, <1>11 DEF StoreInv, DraftInv

(* The drafts of the other calls, when one call ends.                      *)
LEMMA DraftEnds ==
  ASSUME StoreInv, Advances, HeldStay, NEW c \in Calls,
         draft' = [draft EXCEPT ![c] = Nobody]
  PROVE  DraftInv'
<1>1. ASSUME NEW e \in Calls, draft'[e] # Nobody
      PROVE  (Agrees(draft[e]) /\ Held(draft[e]))'
  <2>1. e # c /\ draft'[e] = draft[e]
    BY <1>1 DEF StoreInv, DraftInv
  <2> QED
    BY <1>1, <2>1, DraftStays
<1>2. draft' \in [Calls -> Drafts \cup {Nobody}]
  BY DEF StoreInv, DraftInv
<1> QED
  BY <1>1, <1>2 DEF DraftInv

LEMMA PutReplacesKeepsInv ==
  ASSUME StoreInv, NEW c \in Calls, NEW t \in Times, PutReplaces(c, t)
  PROVE  StoreInv' /\ Advances
<1> DEFINE d == draft[c]
           rows == Pruned(memories, t)
<1>1. d \in Drafts
  BY DEF PutReplaces, StoreInv, DraftInv
<1>2. draft' = [draft EXCEPT ![c] = Nobody] /\ removed' = removed
  BY DEF PutReplaces
<1>3. TableInv' /\ Advances /\ HeldStay
  <2>1. CASE CanReplace(rows, d.key, d.content)
    <3>1. Keeps(rows) /\ Spares(rows)
      BY PrunedKeeps DEF StoreInv
    <3>2. Update(Replaced(rows, d.key, d.content, t))
      BY <2>1 DEF PutReplaces
    <3>3. d.key \in Keys /\ d.content \in Contents
      BY <1>1 DEF Drafts
    <3>4. PICK key \in Keys : key = d.key
      BY <3>3
    <3>5. /\ TableInv' /\ Advances
          /\ <<key[1], key[2] + 1>> \in DOMAIN authored'
          /\ \A k \in Keys : Used(k) => Used(k)' \/ k = key
      BY <2>1, <3>1, <3>2, <3>3, <3>4, ReplaceKeepsKeys DEF StoreInv
    <3>6. \A k \in Keys : Gone(k) => Gone(k)'
      BY <1>2, <3>5 DEF Gone, Advances
    <3>7. Gone(key)'
      BY <3>5 DEF Gone
    <3> QED
      BY <3>5, <3>6, <3>7 DEF HeldStay
  <2>2. CASE ~CanReplace(rows, d.key, d.content)
    <3>1. Update(memories)
      BY <2>2 DEF PutReplaces, Refuse
    <3>2. Keeps(memories) /\ Spares(memories)
      BY MemoriesKeep DEF StoreInv
    <3>3. TableInv' /\ Advances /\ memories' = memories
      BY <3>1, <3>2, UpdateKeepsKeys DEF StoreInv
    <3>4. HeldStay
      BY <1>2, <3>2, <3>3, SparedStayHeld DEF StoreInv
    <3> QED
      BY <3>3, <3>4
  <2> QED
    BY <2>1, <2>2
<1> QED
  BY <1>2, <1>3, DraftEnds DEF StoreInv

LEMMA DeleteKeepsInv ==
  ASSUME StoreInv, NEW key \in Given, Delete(key)
  PROVE  StoreInv' /\ Advances
<1>1. draft' = draft
  BY DEF Delete, callVars
<1>2. CASE Names(key, memories)
  <2> DEFINE rows == Without(memories, key[1])
  <2>1. Update(rows) /\ removed' = removed \cup {key[1]}
    BY <1>2 DEF Delete
  <2>2. Keeps(rows)
    BY WithoutKeeps DEF StoreInv
  <2>3. TableInv' /\ Advances /\ memories' = rows
    BY <2>1, <2>2, UpdateKeepsKeys DEF StoreInv
  <2>4. /\ DOMAIN rows = DOMAIN memories \ {key[1]}
        /\ \A id \in DOMAIN rows : rows[id] = memories[id]
    BY DEF Without, Restrict
  <2>5. \A k \in Keys : Used(k) => Used(k)' \/ Gone(k)'
    <3> SUFFICES ASSUME NEW k \in Keys, Used(k) PROVE Used(k)' \/ Gone(k)'
      OBVIOUS
    <3>1. CASE k[1] = key[1]
      BY <2>1, <3>1 DEF Gone
    <3>2. CASE k[1] # key[1]
      <4> HIDE DEF rows
      <4> QED
        BY <2>3, <2>4, <3>2 DEF Used, Names
    <3> QED
      BY <3>1, <3>2
  <2>6. \A k \in Keys : Gone(k) => Gone(k)'
    BY <2>1, <2>3 DEF Gone, Advances
  <2> QED
    BY <1>1, <2>3, <2>5, <2>6, DraftsStay DEF HeldStay, StoreInv
<1>3. CASE ~Names(key, memories)
  BY <1>1, <1>3, MemoriesKeep, CountingKeepsInv DEF Delete, Refuse, StoreInv
<1> QED
  BY <1>2, <1>3

LEMMA PutNewKeepsInv ==
  ASSUME StoreInv, NEW content \in Contents, NEW t \in Times,
         PutNew(content, t)
  PROVE  StoreInv' /\ Advances
<1> DEFINE rows == Pruned(memories, t)
<1>1. draft' = draft /\ removed' = removed
  BY DEF PutNew
<1>2. PICK n \in Ids :
        /\ IsNext(n, next_id, memories)
        /\ IF CanInsert(rows, n, content)
           THEN Commit(With(rows, n, Fresh(content, 1, t)), n + 1)
           ELSE Commit(memories, n)
  BY DEF PutNew
<1>3. CASE CanInsert(rows, n, content)
  <2>1. Keeps(rows) /\ Spares(rows)
    BY PrunedKeeps DEF StoreInv
  <2>2. /\ \A id \in DOMAIN memories : id < n
        /\ \A k \in DOMAIN authored : k[1] < n
    BY <1>2, NextIsNew DEF StoreInv
  <2>3. n < MaxInt
    BY <1>3 DEF CanInsert
  <2>4. TableInv' /\ Advances /\ Spares(memories')
    BY <1>2, <1>3, <2>1, <2>2, <2>3, InsertKeepsKeys DEF StoreInv
  <2> QED
    BY <1>1, <2>4, SparedStayHeld, DraftsStay DEF StoreInv
<1>4. CASE ~CanInsert(rows, n, content)
  <2>1. Update(memories)
    BY <1>2, <1>4 DEF Update
  <2> QED
    BY <1>1, <2>1, MemoriesKeep, CountingKeepsInv DEF StoreInv
<1> QED
  BY <1>3, <1>4

LEMMA OlderInsertKeepsInv ==
  ASSUME StoreInv, NEW content \in Contents, NEW t \in Times,
         OlderInsert(content, t)
  PROVE  StoreInv' /\ Advances
<1>1. draft' = draft /\ removed' = removed
  BY DEF OlderInsert, callVars
<1>2. PICK id \in Ids :
        /\ IsNext(id, 0, memories) /\ id >= next_id
        /\ CanInsert(memories, id, content)
        /\ Commit(With(memories, id, Fresh(content, 1, t)), id + 1)
  BY DEF OlderInsert
<1>3. \A i \in DOMAIN memories : i < id
  BY <1>2 DEF IsNext
<1>4. ASSUME NEW k \in DOMAIN authored PROVE k[1] < id
  <2>1. k[1] < next_id
    BY DEF OlderInsert, StoreInv, TableInv, IdsStayRetired
  <2>2. k[1] \in Int /\ next_id \in Int /\ id \in Int
    BY LimitsAssumption DEF StoreInv, TableInv, Keys, Ids
  <2> QED
    BY <1>2, <2>1, <2>2
<1>5. id < MaxInt
  BY <1>2 DEF CanInsert
<1>6. TableInv' /\ Advances /\ Spares(memories')
  BY <1>2, <1>3, <1>4, <1>5, MemoriesKeep, InsertKeepsKeys DEF StoreInv
<1> QED
  BY <1>1, <1>6, SparedStayHeld, DraftsStay DEF StoreInv
-----------------------------------------------------------------------------
LEMMA InitEstablishesInv ==
  Init => StoreInv
<1> SUFFICES ASSUME Init PROVE StoreInv
  OBVIOUS
<1>1. IsTable(memories)
  BY StoreAssumption DEF Init
<1>2. /\ DOMAIN authored = {KeyOf(memories, id) : id \in DOMAIN memories}
      /\ \A k \in DOMAIN authored : authored[k] = memories[k[1]].content
  BY DEF Init, Recorded
<1>3. \A id \in DOMAIN memories :
        /\ id \in Ids /\ memories[id].version \in Ids
        /\ KeyOf(memories, id) = <<id, memories[id].version>>
        /\ KeyOf(memories, id) \in Keys
  BY <1>1 DEF IsTable, Rows, KeyOf, Keys
<1>4. next_id = 0 /\ 0 \in 0 .. MaxInt
  BY LimitsAssumption DEF Init
<1>5. \A k \in DOMAIN authored :
        /\ k \in Keys /\ k[1] \in DOMAIN memories
        /\ k[2] = memories[k[1]].version
  BY <1>2, <1>3
<1>6. KeyNamesOneContent
  BY <1>2, <1>3 DEF KeyNamesOneContent
<1>7. NoKeyAhead
  BY <1>3, <1>5, LimitsAssumption DEF NoKeyAhead, Ids
<1>8. TableInv
  BY <1>1, <1>4, <1>5, <1>6, <1>7 DEF TableInv, IdsStayRetired, KeysBeforeAllocator
<1>9. DraftInv
  BY DEF Init, DraftInv
<1> QED
  BY <1>8, <1>9 DEF StoreInv

LEMMA StutterKeepsInv ==
  ASSUME StoreInv, UNCHANGED <<storeVars, callVars, removed>> PROVE StoreInv' /\ Advances
<1>1. TableInv'
  BY DEF storeVars, StoreInv, TableInv, IdsStayRetired, KeyNamesOneContent,
         NoKeyAhead, KeysBeforeAllocator
<1>4. Advances
  BY DEF storeVars, Advances, Names, Continues
<1>2. HeldStay
  BY DEF storeVars, HeldStay, Used, Gone, Names
<1>3. draft' = draft
  BY DEF callVars
<1> QED
  BY <1>1, <1>2, <1>3, <1>4, DraftsStay DEF StoreInv

LEMMA NextKeepsInv ==
  ASSUME StoreInv, [Next]_vars PROVE StoreInv' /\ Advances
<1>1. ASSUME NEW t \in Times, Scan(t) PROVE StoreInv' /\ Advances
  <2>1. PICK candidates : Update(Scanned(Pruned(memories, t), candidates))
    BY <1>1 DEF Scan
  <2> DEFINE rows == Scanned(Pruned(memories, t), candidates)
  <2>2. Keeps(rows) /\ Spares(rows)
    BY PrunedKeeps, ScannedKeeps DEF StoreInv
  <2>3. draft' = draft /\ removed' = removed
    BY <1>1 DEF Scan
  <2> QED
    BY <2>1, <2>2, <2>3, CountingKeepsInv
<1>2. ASSUME NEW t \in Times, List(t) PROVE StoreInv' /\ Advances
  BY <1>2, PrunedKeeps, CountingKeepsInv DEF List, callVars, StoreInv
<1>3. ASSUME NEW t \in Times, NEW key \in Given, Read(key, t) PROVE StoreInv' /\ Advances
  <2>1. key \in Keys
    BY DEF Given, StoreInv, TableInv
  <2> DEFINE rows == AfterRead(Pruned(memories, t), key)
  <2>2. Keeps(rows) /\ Spares(rows)
    BY <2>1, PrunedKeeps, AfterReadKeeps DEF StoreInv
  <2>3. Update(rows) /\ draft' = draft /\ removed' = removed
    BY <1>3 DEF Read, callVars
  <2> QED
    BY <2>2, <2>3, CountingKeepsInv
<1>4. ASSUME NEW t \in Times, NEW content \in Contents,
             PutNew(content, t) \/ OlderInsert(content, t)
      PROVE  StoreInv' /\ Advances
  BY <1>4, PutNewKeepsInv, OlderInsertKeepsInv
<1>5. ASSUME NEW t \in Times, NEW c \in Calls, NEW key \in Given,
             NEW content \in Contents, PutReads(c, key, content, t)
      PROVE  StoreInv' /\ Advances
  BY <1>5, PutReadsKeepsInv
<1>6. ASSUME NEW t \in Times, NEW c \in Calls, PutReplaces(c, t)
      PROVE  StoreInv' /\ Advances
  BY <1>6, PutReplacesKeepsInv
<1>7. ASSUME NEW key \in Given, Delete(key) PROVE StoreInv' /\ Advances
  BY <1>7, DeleteKeepsInv
<1>8. CASE UNCHANGED vars
  BY <1>8, StutterKeepsInv DEF vars
<1> QED
  BY <1>1, <1>2, <1>3, <1>4, <1>5, <1>6, <1>7, <1>8 DEF Next

(* The inductive invariant of the store and of the calls that replace.     *)
THEOREM StoreInvAlways ==
  Spec => []StoreInv
BY InitEstablishesInv, NextKeepsInv, PTL DEF Spec

(* The allocator of local.rs never gives out an id that ever named a       *)
(* record: not one deleted or expired, nor one an older build inserted.    *)
THEOREM IdsAreRetired ==
  Spec => []IdsStayRetired
<1>1. StoreInv => IdsStayRetired
  BY DEF StoreInv, TableInv
<1> QED
  BY <1>1, StoreInvAlways, PTL

(* A key names for ever the content that was first written under it.       *)
THEOREM KeysNameOneContent ==
  Spec => []KeyNamesOneContent
<1>1. StoreInv => KeyNamesOneContent
  BY DEF StoreInv, TableInv
<1> QED
  BY <1>1, StoreInvAlways, PTL

(* What a caller remembers of a record, its id or its key, never names     *)
(* another record or content later (local.rs, tool.rs).                    *)
THEOREM KeysAreKept ==
  Spec => []KeysKeepTheirMeaning
<1>1. IdsStayRetired /\ KeyNamesOneContent => KeysKeepTheirMeaning
  BY DEF KeysKeepTheirMeaning
<1> QED
  BY <1>1, IdsAreRetired, KeysNameOneContent, PTL

(* The record that the tool's put read is not pruned before it is replaced, *)
(* whatever the other calls do between the two transactions.               *)
THEOREM ReadsProtect ==
  Spec => []ReadProtects
<1>1. StoreInv => ReadProtects
  BY DEF StoreInv, DraftInv, Held, Used, Gone, ReadProtects
<1> QED
  BY <1>1, StoreInvAlways, PTL

(* The old content that the tool's put reports is the one it overwrote,    *)
(* though it read it in an earlier transaction.                            *)
THEOREM PreviousIsOverwritten ==
  Spec => PreviousWasOverwritten
<1>1. ASSUME StoreInv, NEW c \in Calls, Overwrites(c)
      PROVE  memories[draft[c].key[1]].content = draft[c].previous
  <2> DEFINE key == draft[c].key
  <2>1. draft[c] # Nobody /\ Names(key, memories)
    BY <1>1 DEF Overwrites
  <2>2. key \in Keys /\ draft[c].previous = authored[key]
    BY <1>1, <2>1 DEF StoreInv, DraftInv, Agrees, TableInv
  <2>3. KeyOf(memories, key[1]) = key /\ key[1] \in DOMAIN memories
    BY <2>1, <2>2 DEF KeyOf, Names, Keys
  <2> QED
    BY <1>1, <2>2, <2>3 DEF StoreInv, TableInv, KeyNamesOneContent
<1>2. StoreInv /\ [Next]_vars =>
        [\A c \in Calls : Overwrites(c) =>
           memories[draft[c].key[1]].content = draft[c].previous]_vars
  BY <1>1
<1> QED
  BY <1>2, StoreInvAlways, PTL DEF Spec, PreviousWasOverwritten
-----------------------------------------------------------------------------
(* Transfers.  The ids of a table are bounded, hence finite.               *)
LEMMA TablesAreFinite ==
  ASSUME NEW rows, IsTable(rows), NEW ids, ids \subseteq DOMAIN rows
  PROVE  IsFiniteSet(ids)
<1>1. IsFiniteSet(1 .. MaxInt)
  BY LimitsAssumption, FS_Interval
<1>2. ids \subseteq 1 .. MaxInt
  BY DEF IsTable, Ids
<1> QED
  BY <1>1, <1>2, FS_Subset

LEMMA EmptyIsTable == IsTable(<< >>) /\ DOMAIN << >> = {}
<1>1. DOMAIN << >> = {}
  OBVIOUS
<1>2. << >> = [id \in {} |-> id]
  OBVIOUS
<1> QED
  BY <1>1, <1>2 DEF IsTable

(* What a merge leaves: the rows that were there, and the accepted ones    *)
(* under new ids.                                                          *)
LEMMA MergedIs ==
  ASSUME NEW rows, IsTable(rows), NEW export, IsTable(export), NEW n \in Ids,
         \A id \in DOMAIN rows : id < n, CanMerge(rows, n, export), NEW t \in Times
  PROVE  LET new == Merged(rows, n, export, t)
             next == n + Cardinality(Accepted(rows, export)) IN
         /\ IsTable(new) /\ next \in Ids /\ n <= next
         /\ DOMAIN rows \subseteq DOMAIN new
         /\ \A id \in DOMAIN rows : new[id] = rows[id]
         /\ \A id \in DOMAIN new \ DOMAIN rows : new[id].version = 1 /\ n <= id
         /\ \A id \in DOMAIN new : id < next
<1> DEFINE new == Accepted(rows, export)
           before(k) == {j \in new : j < k}
           Id(k) == n + Cardinality(before(k))
           table == Merged(rows, n, export, t)
<1>1. /\ new \subseteq DOMAIN export /\ IsFiniteSet(new) /\ Cardinality(new) \in Nat
      /\ DOMAIN export \subseteq Ids /\ \A k \in new : export[k].content \in Contents
  <2>1. new \subseteq DOMAIN export
    BY DEF Accepted
  <2>2. IsFiniteSet(new)
    BY <2>1, TablesAreFinite
  <2>3. DOMAIN export \subseteq Ids /\ \A k \in DOMAIN export : export[k] \in Rows
    BY DEF IsTable
  <2> QED
    BY <2>1, <2>2, <2>3, FS_CardinalityType DEF Rows
<1>2. n + Cardinality(new) \in Ids /\ n <= n + Cardinality(new)
  <2>1. DOMAIN Restrict(export, new) = new
    BY DEF Restrict
  <2>2. n + Cardinality(new) <= MaxInt
    BY <2>1, Zenon DEF CanMerge
  <2> QED
    BY <1>1, <2>2, LimitsAssumption DEF Ids
<1>3. ASSUME NEW k \in new
      PROVE  Id(k) \in Ids /\ n <= Id(k) /\ Id(k) < n + Cardinality(new)
  <2>1. IsFiniteSet(before(k)) /\ before(k) \cup {k} \subseteq new /\ k \notin before(k)
    <3>1. before(k) \subseteq new /\ k \in Int
      BY <1>1, LimitsAssumption DEF Ids
    <3> QED
      BY <1>1, <3>1, FS_Subset
  <2>2. /\ Cardinality(before(k)) \in Nat
        /\ Cardinality(before(k) \cup {k}) = Cardinality(before(k)) + 1
    BY <2>1, FS_CardinalityType, FS_AddElement
  <2>3. Cardinality(before(k) \cup {k}) <= Cardinality(new)
    BY <1>1, <2>1, FS_Subset
  <2> QED
    BY <1>1, <1>2, <2>2, <2>3, LimitsAssumption DEF Ids
<1>4. DOMAIN table = DOMAIN rows \cup {Id(k) : k \in new}
  BY DEF Merged
<1>5. \A id \in DOMAIN rows : table[id] = rows[id]
  BY DEF Merged
<1>6. table = [id \in DOMAIN table |-> table[id]]
  BY DEF Merged
<1>7. ASSUME NEW id \in DOMAIN table \ DOMAIN rows
      PROVE  /\ table[id] \in Rows /\ table[id].version = 1
             /\ id \in Ids /\ n <= id /\ id < n + Cardinality(new)
  <2> DEFINE k == CHOOSE k \in new : Id(k) = id
  <2>1. k \in new /\ Id(k) = id
    BY <1>4
  <2>2. table[id] = Fresh(export[k].content, 1, t)
    BY DEF Merged
  <2>3. 1 \in Ids
    BY LimitsAssumption DEF Ids
  <2> HIDE DEF k, table
  <2> QED
    BY <1>1, <1>3, <2>1, <2>2, <2>3, FreshIsRow
<1> HIDE DEF table, new, Id, before
<1>8. IsTable(table)
  BY <1>5, <1>6, <1>7 DEF IsTable
<1>9. \A id \in DOMAIN table : id < n + Cardinality(new)
  <2>1. \A id \in DOMAIN rows : id \in Ids
    BY DEF IsTable
  <2> QED
    BY <1>2, <1>7, <2>1, LimitsAssumption DEF Ids
<1>10. DOMAIN rows \subseteq DOMAIN table
  BY <1>4
<1> QED
  BY <1>2, <1>5, <1>7, <1>8, <1>9, <1>10 DEF table, new

LEMMA PullMergesKeepsInv ==
  ASSUME StoreInv, IsTable(pages), NEW t \in Times, PullMerges(t)
  PROVE  StoreInv' /\ Advances
<1> DEFINE rows == Pruned(memories, t)
<1>1. draft' = draft /\ removed' = removed
  BY DEF PullMerges, LocalVars, callVars
<1>2. CASE UNCHANGED storeVars
  <2>1. TableInv'
    BY <1>2 DEF storeVars, StoreInv, TableInv, IdsStayRetired, KeyNamesOneContent,
                NoKeyAhead, KeysBeforeAllocator
  <2>2. Advances
    BY <1>2 DEF storeVars, Advances, Names, Continues
  <2>3. HeldStay
    BY <1>1, <1>2 DEF storeVars, HeldStay, Used, Gone, Names
  <2> QED
    BY <1>1, <2>1, <2>2, <2>3, DraftsStay DEF StoreInv
<1>3. ASSUME NEW n \in Ids, IsNext(n, next_id, memories), Commit(memories, n)
      PROVE  StoreInv' /\ Advances
  BY <1>1, <1>3, MemoriesKeep, CountingKeepsInv DEF StoreInv, Update
<1>4. ASSUME NEW n \in Ids, IsNext(n, next_id, memories), CanMerge(rows, n, pages),
             Commit(Merged(rows, n, pages, t), n + Cardinality(Accepted(rows, pages)))
      PROVE  StoreInv' /\ Advances
  <2> DEFINE new == Merged(rows, n, pages, t)
             next == n + Cardinality(Accepted(rows, pages))
  <2>1. Keeps(rows) /\ Spares(rows)
    BY PrunedKeeps DEF StoreInv
  <2>2. /\ \A id \in DOMAIN memories : id < n
        /\ \A k \in DOMAIN authored : k[1] < n
    BY <1>4, NextIsNew DEF StoreInv
  <2>3. /\ IsTable(new) /\ next \in Ids /\ n <= next
        /\ DOMAIN rows \subseteq DOMAIN new
        /\ \A id \in DOMAIN rows : new[id] = rows[id]
        /\ \A id \in DOMAIN new \ DOMAIN rows : new[id].version = 1 /\ n <= id
        /\ \A id \in DOMAIN new : id < next
    <3>1. IsTable(rows) /\ \A id \in DOMAIN rows : id < n
      BY <2>1, <2>2 DEF Keeps
    <3> QED
      BY <1>4, <3>1, MergedIs
  <2> HIDE DEF rows, new, next
  <2>4. \A k \in DOMAIN authored : k[1] \in Int
    BY LimitsAssumption DEF StoreInv, TableInv, Keys, Ids
  <2>5. \A id \in DOMAIN new : id \in Int
    BY <2>3, LimitsAssumption DEF IsTable, Ids
  <2>6. n \in Int /\ next \in Int
    BY <2>3, LimitsAssumption DEF Ids
  <2>7. \A id \in DOMAIN new \ DOMAIN rows : \A k \in DOMAIN authored : k[1] < id
    BY <2>2, <2>3, <2>4, <2>5, <2>6
  <2>8. Follows(new)
    <3>1. \A id \in DOMAIN rows : id \in DOMAIN memories /\ Continues(rows[id], memories[id])
      BY <2>1 DEF Keeps, Continues
    <3> QED
      BY <2>3, <2>7, <3>1 DEF Follows
  <2>9. \A k \in DOMAIN authored : k[1] < next
    BY <2>2, <2>3, <2>4, <2>6
  <2>10. Commit(new, next)
    BY <1>4 DEF new, next, rows
  <2>11. TableInv' /\ Advances
    BY <2>3, <2>8, <2>9, <2>10, CommitKeepsKeys DEF StoreInv
  <2>12. Spares(memories')
    BY <2>1, <2>3, <2>10 DEF Spares, Commit
  <2> QED
    BY <1>1, <2>11, <2>12, SparedStayHeld, DraftsStay DEF StoreInv
<1> QED
  BY <1>2, <1>3, <1>4 DEF PullMerges
-----------------------------------------------------------------------------
(* The order in which a row of one id may come to be: by version, and      *)
(* under one version by what was counted.                                  *)
Counted(row) == row.scans + row.uses

Later(new, old) ==
  \/ old.version < new.version
  \/ new.version = old.version /\ Counted(old) < Counted(new)

Since(new, old) == new = old \/ Later(new, old)

LEMMA RowsAreOrdered ==
  ASSUME NEW a \in Rows, NEW b \in Rows, NEW c \in Rows
  PROVE  /\ Continues(b, a) => Since(b, a)
         /\ Since(b, a) /\ Since(c, b) => Since(c, a)
         /\ Since(b, a) /\ Since(a, b) => a = b
<1>1. \A r \in Rows : r.version \in Int /\ Counted(r) \in Int /\ Counted(r) = r.scans + r.uses
  BY LimitsAssumption DEF Rows, Ids, Counted
<1>2. Continues(b, a) => Since(b, a)
  BY <1>1 DEF Continues, Since, Later
<1>3. Since(b, a) /\ Since(c, b) => Since(c, a)
  BY <1>1 DEF Since, Later
<1>4. Since(b, a) /\ Since(a, b) => a = b
  BY <1>1 DEF Since, Later
<1> QED
  BY <1>2, <1>3, <1>4

(* The ids that were ever given.                                           *)
GivenIds == {k[1] : k \in DOMAIN authored}

LEMMA RowsAreGiven ==
  ASSUME StoreInv
  PROVE  GivenIds \subseteq Ids /\ DOMAIN memories \subseteq GivenIds
<1>1. GivenIds \subseteq Ids
  BY DEF GivenIds, StoreInv, TableInv, Keys
<1>2. ASSUME NEW id \in DOMAIN memories PROVE id \in GivenIds
  <2>1. KeyOf(memories, id) \in DOMAIN authored /\ KeyOf(memories, id)[1] = id
    BY DEF StoreInv, TableInv, KeyNamesOneContent, KeyOf
  <2> QED
    BY <2>1 DEF GivenIds
<1> QED
  BY <1>1, <1>2

(* A row under an id that was given is what has become of an older row.    *)
LEMMA RowsGoOn ==
  ASSUME StoreInv, StoreInv', Advances
  PROVE  /\ GivenIds \subseteq GivenIds' /\ GivenIds \subseteq Ids
         /\ DOMAIN memories \subseteq GivenIds
         /\ \A id \in DOMAIN memories' : id \in GivenIds =>
              id \in DOMAIN memories /\ Since(memories'[id], memories[id])
<1>1. GivenIds \subseteq GivenIds'
  BY DEF GivenIds, Advances
<1>2. GivenIds \subseteq Ids
  BY RowsAreGiven
<1>3. DOMAIN memories \subseteq GivenIds
  BY RowsAreGiven
<1>4. ASSUME NEW id \in DOMAIN memories', id \in GivenIds
      PROVE  id \in DOMAIN memories /\ Since(memories'[id], memories[id])
  <2>1. PICK k \in DOMAIN authored : k[1] = id
    BY <1>4 DEF GivenIds
  <2>2. ~(k[1] < id)
    <3>1. id \in Int
      <4>1. id \in Ids
        BY <1>2, <1>4
      <4> QED
        BY <4>1, LimitsAssumption DEF Ids
    <3> QED
      BY <2>1, <3>1
  <2>3. id \in DOMAIN memories /\ Continues(memories'[id], memories[id])
    BY <2>2 DEF Advances
  <2>4. memories'[id] \in Rows /\ memories[id] \in Rows
    BY <2>3 DEF StoreInv, TableInv, IsTable
  <2> QED
    BY <2>3, <2>4, RowsAreOrdered
<1> QED
  BY <1>1, <1>2, <1>3, <1>4

(* What a push has read follows the table: below the cursor nothing is     *)
(* missed, and what was read is no newer than what is there.               *)
PagesFollow ==
  /\ \A id \in DOMAIN pages : id <= cursor /\ id \in GivenIds
  /\ cursor # 0 => cursor \in GivenIds
  /\ \A id \in DOMAIN memories : id <= cursor =>
       id \in DOMAIN pages /\ Since(memories[id], pages[id])

(* The corpus c, which the store held when the snapshot was complete, says *)
(* no less than the snapshot, and whatever is there or was read of it      *)
(* since then says no less than c.                                         *)
Covers(c) ==
  /\ \A id \in DOMAIN c : id \in DOMAIN snapshot /\ Since(c[id], snapshot[id])
  /\ \A id \in DOMAIN snapshot :
       /\ id \in DOMAIN memories => id \in DOMAIN c /\ Since(memories[id], c[id])
       /\ id \in DOMAIN pages => id \in DOMAIN c /\ Since(pages[id], c[id])

SnapshotCovered ==
  DOMAIN snapshot \subseteq GivenIds /\ \E c \in corpora : Covers(c)

RemoteInv ==
  /\ IsTable(remote) /\ remote_next \in Ids /\ DOMAIN given \subseteq Keys
  /\ \A id \in DOMAIN remote : id < remote_next
  /\ RemoteIdsStayRetired

CommandInv ==
  /\ IsTable(snapshot) /\ IsTable(pages) /\ cursor \in 0 .. MaxInt /\ step \in Steps
  /\ \A c \in corpora : IsTable(c)

PushInv ==
  /\ step \in {"read", "upload", "reread"} => PagesFollow
  /\ step \in {"upload", "reread"} => SnapshotCovered
  /\ step \in {"reread", "pushed"} => touched \/ remote = snapshot
  /\ step = "pushed" => snapshot \in corpora

TransferInv == StoreInv /\ RemoteInv /\ CommandInv /\ PushInv

(* Whatever the sessions on the store do, what a push has read follows.    *)
LEMMA PushGoesOn ==
  ASSUME StoreInv, StoreInv', Advances, CommandInv,
         pages' = pages, cursor' = cursor, snapshot' = snapshot,
         corpora \subseteq corpora'
  PROVE  (PagesFollow => PagesFollow') /\ (SnapshotCovered => SnapshotCovered')
<1>1. /\ GivenIds \subseteq GivenIds' /\ GivenIds \subseteq Ids
      /\ DOMAIN memories \subseteq GivenIds
      /\ \A id \in DOMAIN memories' : id \in GivenIds =>
           id \in DOMAIN memories /\ Since(memories'[id], memories[id])
  BY RowsGoOn
<1>2. /\ \A id \in DOMAIN memories : memories[id] \in Rows
      /\ \A id \in DOMAIN memories' : memories'[id] \in Rows /\ id \in Int
      /\ \A id \in DOMAIN pages : pages[id] \in Rows
      /\ \A c \in corpora : \A id \in DOMAIN c : c[id] \in Rows
  BY LimitsAssumption DEF StoreInv, TableInv, CommandInv, IsTable, Ids
<1>3. ASSUME PagesFollow PROVE PagesFollow'
  <2>1. ASSUME NEW id \in DOMAIN memories', id <= cursor
        PROVE  id \in DOMAIN pages /\ Since(memories'[id], pages[id])
    <3>1. id \in GivenIds
      <4>1. CASE cursor = 0
        <5>1. id \in Ids
          BY DEF StoreInv, TableInv, IsTable
        <5> QED
          BY <2>1, <4>1, <5>1, LimitsAssumption DEF Ids
      <4>2. CASE cursor # 0
        <5>1. PICK k \in DOMAIN authored : k[1] = cursor
          BY <1>3, <4>2 DEF PagesFollow, GivenIds
        <5>2. ~(k[1] < id)
          BY <1>2, <2>1, <5>1, LimitsAssumption DEF CommandInv
        <5>3. id \in DOMAIN memories
          BY <5>2 DEF Advances
        <5> QED
          BY <1>1, <5>3
      <4> QED
        BY <4>1, <4>2
    <3>2. id \in DOMAIN memories /\ Since(memories'[id], memories[id])
      BY <1>1, <3>1
    <3>3. id \in DOMAIN pages /\ Since(memories[id], pages[id])
      BY <1>3, <2>1, <3>2 DEF PagesFollow
    <3> QED
      BY <1>2, <3>2, <3>3, RowsAreOrdered
  <2> QED
    BY <1>1, <1>3, <2>1 DEF PagesFollow
<1>4. ASSUME SnapshotCovered PROVE SnapshotCovered'
  <2>1. PICK c \in corpora : Covers(c)
    BY <1>4 DEF SnapshotCovered
  <2>2. ASSUME NEW id \in DOMAIN snapshot, id \in DOMAIN memories'
        PROVE  id \in DOMAIN c /\ Since(memories'[id], c[id])
    <3>1. id \in DOMAIN memories /\ Since(memories'[id], memories[id])
      BY <1>1, <1>4, <2>2 DEF SnapshotCovered
    <3>2. id \in DOMAIN c /\ Since(memories[id], c[id])
      BY <2>1, <2>2, <3>1 DEF Covers
    <3> QED
      BY <1>2, <2>2, <3>1, <3>2, RowsAreOrdered
  <2>3. Covers(c)'
    BY <2>1, <2>2 DEF Covers
  <2> QED
    BY <1>1, <1>4, <2>3 DEF SnapshotCovered
<1> QED
  BY <1>3, <1>4

(* The largest of some ids.                                                *)
LEMMA LargestId ==
  ASSUME NEW ids, ids \subseteq Ids, ids # {}
  PROVE  \E id \in ids : \A i \in ids : i <= id
<1> DEFINE below == {MaxInt - id : id \in ids}
<1>1. below \in SUBSET Nat /\ below # {}
  BY LimitsAssumption DEF Ids
<1>2. PICK n \in below : \A m \in below : n <= m
  <2>1. PICK n \in below : \A m \in below : ~(<<m, n>> \in OpToRel(<, Nat))
    BY <1>1, WFMin, NatLessThanWellFounded, Zenon
  <2>2. ASSUME NEW m \in below PROVE n <= m
    <3>1. m \in Nat /\ n \in Nat
      BY <1>1
    <3>2. ~(m < n)
      BY <2>1, <3>1 DEF OpToRel
    <3> QED
      BY <3>1, <3>2
  <2> QED
    BY <2>2
<1>3. PICK id \in ids : n = MaxInt - id
  BY <1>2
<1>4. ASSUME NEW i \in ids PROVE i <= id
  <2>1. n <= MaxInt - i
    BY <1>2
  <2> QED
    BY <1>3, <2>1, LimitsAssumption DEF Ids
<1> QED
  BY <1>4

(* A page: the next ids after the cursor, without a gap.                   *)
LEMMA PageIs ==
  ASSUME NEW rows, IsTable(rows), NEW after \in 0 .. MaxInt
  PROVE  LET page == PageOf(rows, after, PageSize) IN
         /\ page \subseteq DOMAIN rows /\ \A id \in page : after < id
         /\ \A id \in page : \A i \in DOMAIN rows : after < i /\ i <= id => i \in page
<1> DEFINE page == PageOf(rows, after, PageSize)
           between(id) == {i \in DOMAIN rows : after < i /\ i < id}
<1>1. page \subseteq DOMAIN rows /\ \A id \in page : after < id
  BY DEF PageOf
<1>2. ASSUME NEW id \in page, NEW i \in DOMAIN rows, after < i, i <= id
      PROVE  i \in page
  <2>1. \A j \in DOMAIN rows : j \in Int
    BY LimitsAssumption DEF IsTable, Ids
  <2>2. id \in DOMAIN rows /\ Cardinality(between(id)) < PageSize
    BY DEF PageOf
  <2>3. between(i) \subseteq between(id)
    BY <1>2, <2>1, <2>2
  <2>4. IsFiniteSet(between(id))
    BY TablesAreFinite
  <2>5. /\ Cardinality(between(i)) <= Cardinality(between(id))
        /\ Cardinality(between(i)) \in Nat /\ Cardinality(between(id)) \in Nat
    BY <2>3, <2>4, FS_Subset, FS_CardinalityType
  <2>6. Cardinality(between(i)) < PageSize
    BY <2>2, <2>5, TransferAssumption
  <2> QED
    BY <1>2, <2>6 DEF PageOf
<1> QED
  BY <1>1, <1>2
-----------------------------------------------------------------------------
(* What the service's batches make of a table.                             *)
LEMMA PrunedIs ==
  ASSUME NEW rows, IsTable(rows), NEW t
  PROVE  /\ IsTable(Pruned(rows, t)) /\ DOMAIN Pruned(rows, t) \subseteq DOMAIN rows
         /\ \A id \in DOMAIN Pruned(rows, t) : Pruned(rows, t)[id] = rows[id]
<1>1. /\ DOMAIN Pruned(rows, t) \subseteq DOMAIN rows
      /\ Pruned(rows, t) = [id \in DOMAIN Pruned(rows, t) |-> rows[id]]
  BY DEF Pruned, Restrict
<1> QED
  BY <1>1 DEF IsTable

LEMMA WithIs ==
  ASSUME NEW rows, IsTable(rows), NEW id \in Ids, NEW row \in Rows
  PROVE  /\ IsTable(With(rows, id, row))
         /\ DOMAIN With(rows, id, row) = DOMAIN rows \cup {id}
         /\ id \in DOMAIN rows => DOMAIN With(rows, id, row) = DOMAIN rows
BY DEF With, IsTable

LEMMA WithoutIs ==
  ASSUME NEW rows, IsTable(rows), NEW id
  PROVE  IsTable(Without(rows, id)) /\ DOMAIN Without(rows, id) \subseteq DOMAIN rows
<1>1. /\ DOMAIN Without(rows, id) \subseteq DOMAIN rows
      /\ Without(rows, id) = [i \in DOMAIN Without(rows, id) |-> rows[i]]
  BY DEF Without, Restrict
<1> QED
  BY <1>1 DEF IsTable

LEMMA AfterReadIs ==
  ASSUME NEW rows, IsTable(rows), NEW key \in Keys
  PROVE  IsTable(AfterRead(rows, key)) /\ DOMAIN AfterRead(rows, key) = DOMAIN rows
<1>1. CASE ~Names(key, rows)
  BY <1>1 DEF AfterRead
<1>2. CASE Names(key, rows)
  <2> DEFINE row == rows[key[1]]
             used == [row EXCEPT !.uses = @ + 1]
             read == [used EXCEPT !.until = 0]
  <2>1. key[1] \in DOMAIN rows /\ key[1] \in Ids /\ row \in Rows
    BY <1>2 DEF Names, IsTable
  <2>2. used \in Rows
    BY <2>1 DEF Rows
  <2> HIDE DEF used
  <2>3. read \in Rows
    BY <2>2 DEF Rows
  <2>4. AfterRead(rows, key) = With(rows, key[1], read)
    BY <1>2, Zenon DEF AfterRead, WasRead, used
  <2> HIDE DEF read, row
  <2>5. /\ IsTable(With(rows, key[1], read))
        /\ DOMAIN With(rows, key[1], read) = DOMAIN rows
    BY <2>1, <2>3, WithIs
  <2> QED
    BY <2>4, <2>5, Zenon
<1> QED
  BY <1>1, <1>2

(* A batch that commits a table below the id that is next.                 *)
LEMMA RemoteCommitKeeps ==
  ASSUME RemoteInv, NEW rows, IsTable(rows), NEW n \in Ids, remote_next <= n,
         \A id \in DOMAIN rows : id < n, RemoteCommit(rows, n)
  PROVE  RemoteInv'
<1> DEFINE current == {KeyOf(rows, id) : id \in DOMAIN rows}
<1>1. /\ remote' = rows /\ remote_next' = n
      /\ DOMAIN given' = DOMAIN given \cup current
  BY DEF RemoteCommit, Recorded
<1>2. \A id \in DOMAIN rows : KeyOf(rows, id) \in Keys /\ KeyOf(rows, id)[1] = id
  BY DEF IsTable, Rows, KeyOf, Keys
<1>3. \A k \in DOMAIN given : k[1] < n
  <2>1. ASSUME NEW k \in DOMAIN given PROVE k[1] < n
    <3>1. k[1] < remote_next /\ k[1] \in Ids
      BY DEF RemoteInv, RemoteIdsStayRetired, Keys
    <3>2. remote_next \in Ids
      BY DEF RemoteInv
    <3> QED
      BY <3>1, <3>2, LimitsAssumption DEF Ids
  <2> QED
    BY <2>1
<1>4. DOMAIN given' \subseteq Keys
  BY <1>1, <1>2 DEF RemoteInv
<1>5. RemoteIdsStayRetired'
  BY <1>1, <1>2, <1>3 DEF RemoteIdsStayRetired
<1> QED
  BY <1>1, <1>4, <1>5 DEF RemoteInv

LEMMA RemotePutKeeps ==
  ASSUME RemoteInv, NEW content \in Contents, NEW t \in Times, RemotePut(content, t)
  PROVE  RemoteInv'
<1> DEFINE rows == Pruned(remote, t)
           row == Fresh(content, 1, t)
<1>1. /\ IsTable(rows) /\ remote_next \in Ids /\ remote_next < MaxInt
      /\ \A id \in DOMAIN rows : id < remote_next /\ id \in Ids
  <2>1. IsTable(rows) /\ DOMAIN rows \subseteq DOMAIN remote
    BY PrunedIs DEF RemoteInv
  <2> QED
    BY <2>1 DEF RemoteInv, IsTable, RemotePut
<1>2. row \in Rows
  BY FreshIsRow, LimitsAssumption DEF Ids
<1>3. remote_next + 1 \in Ids /\ remote_next <= remote_next + 1 /\ remote_next <= remote_next
      /\ remote_next < remote_next + 1
      /\ \A id \in DOMAIN rows : id < remote_next + 1
  BY <1>1, LimitsAssumption DEF Ids
<1>4. IF CanInsert(rows, remote_next, content)
      THEN RemoteCommit(With(rows, remote_next, row), remote_next + 1)
      ELSE RemoteCommit(rows, remote_next)
  BY DEF RemotePut
<1> HIDE DEF rows, row
<1>5. CASE CanInsert(rows, remote_next, content)
  <2>1. /\ IsTable(With(rows, remote_next, row))
        /\ DOMAIN With(rows, remote_next, row) = DOMAIN rows \cup {remote_next}
    BY <1>1, <1>2, WithIs
  <2>2. \A id \in DOMAIN With(rows, remote_next, row) : id < remote_next + 1
    BY <1>3, <2>1
  <2> QED
    BY <1>3, <1>4, <1>5, <2>1, <2>2, RemoteCommitKeeps
<1>6. CASE ~CanInsert(rows, remote_next, content)
  BY <1>1, <1>3, <1>4, <1>6, RemoteCommitKeeps
<1> QED
  BY <1>5, <1>6

LEMMA RemoteReplaceKeeps ==
  ASSUME RemoteInv, NEW key \in DOMAIN given, NEW content \in Contents, NEW t \in Times,
         RemoteReplace(key, content, t)
  PROVE  RemoteInv'
<1> DEFINE rows == Pruned(remote, t)
           row == Fresh(content, key[2] + 1, t)
<1>1. /\ IsTable(rows) /\ remote_next \in Ids /\ remote_next <= remote_next
      /\ \A id \in DOMAIN rows : id < remote_next
  <2>1. IsTable(rows) /\ DOMAIN rows \subseteq DOMAIN remote
    BY PrunedIs DEF RemoteInv
  <2> QED
    BY <2>1, LimitsAssumption DEF RemoteInv, Ids
<1>2. key[1] \in Ids /\ key[2] + 1 \in Ids
  BY LimitsAssumption DEF RemoteReplace, RemoteInv, Keys, Ids
<1>3. row \in Rows
  BY <1>2, FreshIsRow
<1>4. RemoteCommit(IF CanReplace(rows, key, content)
                   THEN With(rows, key[1], row) ELSE rows, remote_next)
  BY DEF RemoteReplace, Replaced
<1> HIDE DEF rows, row
<1>5. CASE CanReplace(rows, key, content)
  <2>1. key[1] \in DOMAIN rows
    BY <1>5 DEF CanReplace, Names
  <2>2. /\ IsTable(With(rows, key[1], row))
        /\ DOMAIN With(rows, key[1], row) = DOMAIN rows
    BY <1>1, <1>2, <1>3, <2>1, WithIs, Zenon
  <2> QED
    BY <1>1, <1>4, <1>5, <2>2, RemoteCommitKeeps
<1>6. CASE ~CanReplace(rows, key, content)
  BY <1>1, <1>4, <1>6, RemoteCommitKeeps
<1> QED
  BY <1>5, <1>6

LEMMA RemoteDeleteKeeps ==
  ASSUME RemoteInv, NEW key, RemoteDelete(key)
  PROVE  RemoteInv'
<1>1. /\ IsTable(Without(remote, key[1]))
      /\ DOMAIN Without(remote, key[1]) \subseteq DOMAIN remote
  BY WithoutIs DEF RemoteInv
<1>2. remote_next \in Ids /\ remote_next <= remote_next
  BY LimitsAssumption DEF RemoteInv, Ids
<1> QED
  BY <1>1, <1>2, RemoteCommitKeeps DEF RemoteDelete, RemoteInv

LEMMA RemoteReadKeeps ==
  ASSUME RemoteInv, NEW key \in DOMAIN given, NEW t \in Times, RemoteRead(key, t)
  PROVE  RemoteInv'
<1>1. IsTable(Pruned(remote, t)) /\ DOMAIN Pruned(remote, t) \subseteq DOMAIN remote
  BY PrunedIs DEF RemoteInv
<1>2. /\ IsTable(AfterRead(Pruned(remote, t), key))
      /\ DOMAIN AfterRead(Pruned(remote, t), key) \subseteq DOMAIN remote
  BY <1>1, AfterReadIs DEF RemoteInv
<1>3. remote_next \in Ids /\ remote_next <= remote_next
  BY LimitsAssumption DEF RemoteInv, Ids
<1> QED
  BY <1>2, <1>3, RemoteCommitKeeps DEF RemoteRead, RemoteInv

LEMMA AppliesKeeps ==
  ASSUME RemoteInv, IsTable(snapshot), Applies
  PROVE  RemoteInv' /\ remote' = snapshot
<1>1. PICK n \in Ids : IsNext(n, remote_next, snapshot) /\ RemoteCommit(snapshot, n)
  BY DEF Applies
<1>2. remote_next <= n /\ \A id \in DOMAIN snapshot : id < n
  BY <1>1, LimitsAssumption DEF IsNext, RemoteInv, Ids
<1> QED
  BY <1>1, <1>2, RemoteCommitKeeps DEF RemoteCommit

LEMMA RemoteStays ==
  ASSUME RemoteInv, UNCHANGED remoteVars PROVE RemoteInv'
BY DEF RemoteInv, RemoteIdsStayRetired, remoteVars
-----------------------------------------------------------------------------
(* A transaction of a push prunes the table.                               *)
LEMMA PushReadsKeepsInv ==
  ASSUME StoreInv, NEW t \in Times, PushReads(t)
  PROVE  /\ StoreInv' /\ Advances
         /\ memories' = Pruned(memories, t)
         /\ corpora' = corpora \cup {Pruned(memories, t)}
<1>1. Keeps(Pruned(memories, t)) /\ Spares(Pruned(memories, t))
  BY PrunedKeeps DEF StoreInv
<1>2. /\ Update(Pruned(memories, t))
      /\ corpora' = corpora \cup {Pruned(memories, t)}
      /\ draft' = draft /\ removed' = removed
  BY DEF PushReads, LocalVars, callVars
<1> QED
  BY <1>1, <1>2, CountingKeepsInv DEF Update, Commit

(* What one more page of the pruned table adds to the pages: the export    *)
(* follows the table up to its new cursor, and all of it when the page was *)
(* the last.                                                               *)
LEMMA ExportFollows ==
  ASSUME StoreInv, CommandInv, PagesFollow, NEW t \in Times
  PROVE  LET rows == Pruned(memories, t)
             e == Exported(rows)
         IN  /\ IsTable(e.records) /\ e.cursor \in 0 .. MaxInt
             /\ e.cursor # 0 => e.cursor \in GivenIds
             /\ \A id \in DOMAIN e.records :
                  /\ id <= e.cursor /\ id \in GivenIds
                  /\ \/ id \in DOMAIN pages /\ e.records[id] = pages[id]
                     \/ id \in DOMAIN memories /\ e.records[id] = memories[id]
             /\ \A id \in DOMAIN rows : e.last \/ id <= e.cursor =>
                  id \in DOMAIN e.records /\ Since(rows[id], e.records[id])
<1> DEFINE rows == Pruned(memories, t)
           page == PageOf(rows, cursor, PageSize)
           records == [id \in DOMAIN pages \cup page |->
                         IF id \in page THEN rows[id] ELSE pages[id]]
           last == {id \in DOMAIN rows : id > cursor} = page
           next == IF page = {} THEN cursor
                   ELSE CHOOSE id \in page : \A i \in page : i <= id
<1>1. Exported(rows) = [records |-> records, last |-> last, cursor |-> next]
  BY DEF Exported
<1>2. /\ IsTable(rows) /\ DOMAIN rows \subseteq DOMAIN memories
      /\ \A id \in DOMAIN rows : rows[id] = memories[id] /\ rows[id] \in Rows
  BY PrunedIs DEF StoreInv, TableInv, IsTable
<1>3. DOMAIN memories \subseteq GivenIds /\ GivenIds \subseteq Ids
  BY RowsAreGiven
<1>4. /\ page \subseteq DOMAIN rows /\ \A id \in page : cursor < id
      /\ \A id \in page : \A i \in DOMAIN rows : cursor < i /\ i <= id => i \in page
  BY <1>2, PageIs DEF CommandInv
<1>5. /\ \A id \in GivenIds : id \in Int /\ 0 < id /\ id <= MaxInt
      /\ cursor \in Int /\ 0 <= cursor /\ cursor <= MaxInt
  BY <1>3, LimitsAssumption DEF CommandInv, Ids
<1>6. /\ page = {} => next = cursor
      /\ page # {} => next \in page /\ \A i \in page : i <= next
  <2>1. page \subseteq Ids
    BY <1>2, <1>3, <1>4
  <2>2. page # {} => \E id \in page : \A i \in page : i <= id
    BY <2>1, LargestId
  <2> QED
    BY <2>2
<1>7. /\ DOMAIN records = DOMAIN pages \cup page
      /\ \A id \in page : records[id] = rows[id]
      /\ \A id \in DOMAIN pages \ page : records[id] = pages[id]
      /\ records = [id \in DOMAIN records |-> records[id]]
  OBVIOUS
<1> HIDE DEF rows, page, records, next
<1>8. next \in 0 .. MaxInt /\ cursor <= next /\ (next # 0 => next \in GivenIds)
  <2>1. CASE page = {}
    BY <1>5, <1>6, <2>1 DEF PagesFollow, CommandInv
  <2>2. CASE page # {}
    <3>1. next \in GivenIds /\ cursor < next
      BY <1>2, <1>3, <1>4, <1>6, <2>2
    <3> QED
      BY <1>5, <3>1
  <2> QED
    BY <2>1, <2>2
<1>9. IsTable(records)
  <2>1. \A id \in DOMAIN records : id \in Ids /\ records[id] \in Rows
    BY <1>2, <1>3, <1>4, <1>7 DEF CommandInv, IsTable
  <2> QED
    BY <1>7, <2>1 DEF IsTable
<1>10. ASSUME NEW id \in DOMAIN records
       PROVE  /\ id <= next /\ id \in GivenIds
              /\ \/ id \in DOMAIN pages /\ records[id] = pages[id]
                 \/ id \in DOMAIN memories /\ records[id] = memories[id]
  <2>1. CASE id \in page
    BY <1>2, <1>3, <1>4, <1>6, <1>7, <2>1
  <2>2. CASE id \notin page
    <3>1. id \in DOMAIN pages /\ records[id] = pages[id]
      BY <1>7, <2>2
    <3>2. id <= cursor /\ id \in GivenIds
      BY <3>1 DEF PagesFollow
    <3> QED
      BY <1>5, <1>8, <3>1, <3>2
  <2> QED
    BY <2>1, <2>2
<1>11. ASSUME NEW id \in DOMAIN rows, last \/ id <= next
       PROVE  id \in DOMAIN records /\ Since(rows[id], records[id])
  <2>1. CASE id \in page
    BY <1>7, <2>1 DEF Since
  <2>2. CASE id \notin page
    <3>1. id <= cursor
      <4>1. id \in Int /\ next \in Int
        BY <1>2, <1>3, <1>5, <1>8
      <4>2. CASE last
        BY <1>5, <2>2, <4>1, <4>2
      <4>3. CASE id <= next
        BY <1>4, <1>5, <1>6, <2>2, <4>1, <4>3
      <4> QED
        BY <1>11, <4>2, <4>3
    <3>2. id \in DOMAIN pages /\ Since(memories[id], pages[id])
      BY <1>2, <3>1 DEF PagesFollow
    <3> QED
      BY <1>2, <1>7, <2>2, <3>2
  <2> QED
    BY <2>1, <2>2
<1> HIDE DEF last
<1> QED
  BY <1>1, <1>8, <1>9, <1>10, <1>11 DEF rows

(* A snapshot that was just completed: the table as it is covers it.       *)
LEMMA CompleteIsCovered ==
  ASSUME StoreInv, CommandInv, PagesFollow, NEW t \in Times,
         Exported(Pruned(memories, t)).last,
         StoreInv', Advances, memories' = Pruned(memories, t),
         memories' \in corpora', pages' = << >>,
         snapshot' = Exported(Pruned(memories, t)).records
  PROVE  SnapshotCovered'
<1> DEFINE rows == Pruned(memories, t)
           records == Exported(rows).records
<1>1. /\ \A id \in DOMAIN records : id \in GivenIds
      /\ \A id \in DOMAIN rows :
           id \in DOMAIN records /\ Since(rows[id], records[id])
  BY ExportFollows
<1>2. GivenIds \subseteq GivenIds'
  BY RowsGoOn
<1> HIDE DEF rows, records
<1>3. memories' = rows /\ snapshot' = records /\ DOMAIN pages' = {}
  BY EmptyIsTable DEF rows, records
<1>4. Covers(memories)'
  BY <1>1, <1>3 DEF Covers, Since
<1> QED
  BY <1>1, <1>2, <1>3, <1>4 DEF SnapshotCovered

(* A snapshot that reading it again confirms is the corpus that covers it: *)
(* that corpus says no less than the first reading, and no more than the   *)
(* second.                                                                 *)
LEMMA ConfirmedIsCorpus ==
  ASSUME StoreInv, CommandInv, PagesFollow, SnapshotCovered, NEW t \in Times,
         Exported(Pruned(memories, t)).records = snapshot
  PROVE  snapshot \in corpora
<1> DEFINE records == Exported(Pruned(memories, t)).records
<1>1. PICK c \in corpora : Covers(c)
  BY DEF SnapshotCovered
<1>2. \A id \in DOMAIN records :
        \/ id \in DOMAIN pages /\ records[id] = pages[id]
        \/ id \in DOMAIN memories /\ records[id] = memories[id]
  BY ExportFollows
<1> HIDE DEF records
<1>3. records = snapshot
  BY DEF records
<1>4. IsTable(c) /\ IsTable(snapshot)
  BY DEF CommandInv
<1>5. DOMAIN c = DOMAIN snapshot
  BY <1>1, <1>2, <1>3 DEF Covers
<1>6. ASSUME NEW id \in DOMAIN snapshot PROVE c[id] = snapshot[id]
  <2>1. Since(c[id], snapshot[id]) /\ Since(snapshot[id], c[id])
    BY <1>1, <1>2, <1>3, <1>5 DEF Covers
  <2>2. c[id] \in Rows /\ snapshot[id] \in Rows
    BY <1>4, <1>5 DEF IsTable
  <2> QED
    BY <2>1, <2>2, RowsAreOrdered
<1>7. c = snapshot
  BY <1>4, <1>5, <1>6 DEF IsTable
<1> QED
  BY <1>7

(* While a push reads on, its pages follow and what was uploaded stays     *)
(* covered.                                                                *)
LEMMA PagesGoOn ==
  ASSUME StoreInv, CommandInv, PagesFollow, NEW t \in Times,
         StoreInv', Advances, memories' = Pruned(memories, t),
         corpora \subseteq corpora', snapshot' = snapshot,
         pages' = Exported(Pruned(memories, t)).records,
         cursor' = Exported(Pruned(memories, t)).cursor
  PROVE  PagesFollow' /\ (SnapshotCovered => SnapshotCovered')
<1> DEFINE rows == Pruned(memories, t)
           e == Exported(rows)
<1>1. /\ e.cursor # 0 => e.cursor \in GivenIds
      /\ \A id \in DOMAIN e.records :
           /\ id <= e.cursor /\ id \in GivenIds
           /\ \/ id \in DOMAIN pages /\ e.records[id] = pages[id]
              \/ id \in DOMAIN memories /\ e.records[id] = memories[id]
      /\ \A id \in DOMAIN rows : id <= e.cursor =>
           id \in DOMAIN e.records /\ Since(rows[id], e.records[id])
  BY ExportFollows
<1>2. GivenIds \subseteq GivenIds'
  BY RowsGoOn
<1>3. /\ DOMAIN rows \subseteq DOMAIN memories
      /\ \A id \in DOMAIN rows : rows[id] = memories[id]
  BY PrunedIs DEF StoreInv, TableInv
<1> HIDE DEF rows, e
<1>4. memories' = rows /\ pages' = e.records /\ cursor' = e.cursor
  BY DEF rows, e
<1>5. PagesFollow'
  BY <1>1, <1>2, <1>4 DEF PagesFollow
<1>6. ASSUME SnapshotCovered PROVE SnapshotCovered'
  <2>1. PICK c \in corpora : Covers(c)
    BY <1>6 DEF SnapshotCovered
  <2>2. Covers(c)'
    BY <1>1, <1>3, <1>4, <2>1 DEF Covers
  <2> QED
    BY <1>2, <1>6, <2>1, <2>2 DEF SnapshotCovered
<1> QED
  BY <1>5, <1>6

LEMMA PushReadsKeepsPush ==
  ASSUME TransferInv, NEW t \in Times, PushReads(t), StoreInv', Advances,
         memories' = Pruned(memories, t),
         corpora' = corpora \cup {Pruned(memories, t)}
  PROVE  CommandInv' /\ PushInv'
<1> DEFINE rows == Pruned(memories, t)
           e == Exported(rows)
           fits == WithinLimits(e.records)
<1>1. /\ step \in {"read", "reread"} /\ PagesFollow
      /\ step = "reread" => SnapshotCovered /\ (touched \/ remote = snapshot)
      /\ StoreInv /\ CommandInv
  BY DEF PushReads, TransferInv, PushInv
<1>2. /\ IsTable(e.records) /\ e.cursor \in 0 .. MaxInt
      /\ IsTable(rows)
  BY <1>1, ExportFollows, PrunedIs DEF StoreInv, TableInv
<1>3. remote' = remote /\ touched' = touched
  BY DEF PushReads, remoteVars
<1>4. \A c \in corpora' : IsTable(c)
  BY <1>1, <1>2 DEF CommandInv
<1>5. \/ /\ ~fits /\ step' = "failed"
         /\ UNCHANGED <<snapshot, attempt, exportVars>>
      \/ /\ fits /\ ~e.last /\ pages' = e.records /\ cursor' = e.cursor
         /\ UNCHANGED <<step, snapshot, attempt>>
      \/ /\ fits /\ e.last /\ Collected(e.records)
         /\ pages' = << >> /\ cursor' = 0
  BY DEF PushReads
<1>6. CASE step' = "failed" /\ UNCHANGED <<snapshot, exportVars>>
  BY <1>1, <1>4, <1>6 DEF CommandInv, PushInv, exportVars, Steps
<1>7. CASE /\ pages' = e.records /\ cursor' = e.cursor
           /\ UNCHANGED <<step, snapshot>>
  <2>1. PagesFollow' /\ (SnapshotCovered => SnapshotCovered')
    BY <1>1, <1>7, PagesGoOn
  <2> HIDE DEF e
  <2> QED
    BY <1>1, <1>2, <1>3, <1>4, <1>7, <2>1 DEF CommandInv, PushInv
<1>8. CASE e.last /\ Collected(e.records) /\ pages' = << >> /\ cursor' = 0
  <2>1. IsTable(pages') /\ cursor' \in 0 .. MaxInt
    BY <1>8, EmptyIsTable, LimitsAssumption
  <2>2. PagesFollow'
    <3>1. DOMAIN pages' = {} /\ \A id \in DOMAIN memories' : ~(id <= cursor')
      BY <1>8, EmptyIsTable, LimitsAssumption DEF StoreInv, TableInv, IsTable, Ids
    <3> QED
      BY <1>8, <3>1 DEF PagesFollow
  <2>3. CASE step' = "upload" /\ snapshot' = e.records
    <3>1. SnapshotCovered'
      BY <1>1, <1>8, <2>3, CompleteIsCovered
    <3> HIDE DEF e
    <3> QED
      BY <1>2, <1>4, <2>1, <2>2, <2>3, <3>1 DEF CommandInv, PushInv, Steps
  <2>4. CASE step = "reread" /\ e.records = snapshot /\ step' = "pushed" /\ snapshot' = snapshot
    <3>1. snapshot \in corpora
      BY <1>1, <2>4, ConfirmedIsCorpus
    <3> HIDE DEF e
    <3> QED
      BY <1>1, <1>3, <1>4, <2>1, <2>4, <3>1 DEF CommandInv, PushInv, Steps
  <2>5. CASE step' = "failed" /\ snapshot' = snapshot
    BY <1>1, <1>4, <2>1, <2>5 DEF CommandInv, PushInv, Steps
  <2> HIDE DEF e
  <2> QED
    BY <1>8, <2>3, <2>4, <2>5 DEF Collected, Current
<1> HIDE DEF e, fits
<1> QED
  BY <1>5, <1>6, <1>7, <1>8
-----------------------------------------------------------------------------
(* What the commands and the service make of the store: nothing, or what   *)
(* the lemmas above say.                                                   *)
LEMMA TransferKeepsStore ==
  ASSUME TransferInv, [TransferNext]_allVars
  PROVE  StoreInv' /\ Advances
<1>1. StoreInv /\ IsTable(pages)
  BY DEF TransferInv, CommandInv
<1>2. CASE LocalSession
  BY <1>1, <1>2, NextKeepsInv DEF LocalSession
<1>3. ASSUME NEW t \in Times, PushReads(t) PROVE StoreInv' /\ Advances
  BY <1>1, <1>3, PushReadsKeepsInv
<1>4. ASSUME NEW t \in Times, PullMerges(t) PROVE StoreInv' /\ Advances
  BY <1>1, <1>4, PullMergesKeepsInv
<1>5. CASE UNCHANGED <<storeVars, callVars, removed>>
  BY <1>1, <1>5, StutterKeepsInv
<1>6. CASE \/ StartPush \/ UploadAccepted \/ UploadRefused \/ UploadRepeated
           \/ UploadLost \/ StartPull
  BY <1>5, <1>6 DEF StartPush, UploadAccepted, UploadRefused, UploadRepeated,
                   UploadLost, StartPull, Uploads, vars
<1>7. CASE \E t \in Times : PullFetches(t)
  BY <1>5, <1>7 DEF PullFetches, vars
<1>8. ASSUME NEW key, NEW content, NEW t,
             \/ RemotePut(content, t) \/ RemoteRead(key, t)
             \/ RemoteReplace(key, content, t) \/ RemoteDelete(key)
      PROVE  StoreInv' /\ Advances
  BY <1>5, <1>8 DEF RemotePut, RemoteRead, RemoteReplace, RemoteDelete, RemoteSession
<1>9. CASE UNCHANGED allVars
  BY <1>5, <1>9 DEF allVars, vars
<1> QED
  BY <1>2, <1>3, <1>4, <1>6, <1>7, <1>8, <1>9 DEF TransferNext

LEMMA TransferKeepsRemote ==
  ASSUME TransferInv, [TransferNext]_allVars
  PROVE  RemoteInv'
<1>1. RemoteInv /\ IsTable(snapshot)
  BY DEF TransferInv, CommandInv
<1>2. CASE UNCHANGED remoteVars
  BY <1>1, <1>2, RemoteStays
<1>3. CASE Applies
  BY <1>1, <1>3, AppliesKeeps
<1>4. CASE UploadAccepted \/ UploadRefused \/ UploadRepeated \/ UploadLost
  BY <1>2, <1>3, <1>4 DEF UploadAccepted, UploadRefused, UploadRepeated, UploadLost
<1>5. CASE LocalSession \/ StartPush \/ StartPull
  BY <1>2, <1>5 DEF LocalSession, transferVars, StartPush, StartPull
<1>6. ASSUME NEW t \in Times, PushReads(t) \/ PullFetches(t) \/ PullMerges(t)
      PROVE  RemoteInv'
  BY <1>2, <1>6 DEF PushReads, PullFetches, PullMerges
<1>7. ASSUME NEW t \in Times, NEW content \in Contents, RemotePut(content, t)
      PROVE  RemoteInv'
  BY <1>1, <1>7, RemotePutKeeps
<1>8. ASSUME NEW t \in Times, NEW key \in DOMAIN given, RemoteRead(key, t)
      PROVE  RemoteInv'
  BY <1>1, <1>8, RemoteReadKeeps
<1>9. ASSUME NEW t \in Times, NEW key \in DOMAIN given, NEW content \in Contents,
             RemoteReplace(key, content, t)
      PROVE  RemoteInv'
  BY <1>1, <1>9, RemoteReplaceKeeps
<1>10. ASSUME NEW key \in DOMAIN given, RemoteDelete(key) PROVE RemoteInv'
  BY <1>1, <1>10, RemoteDeleteKeeps
<1>11. CASE UNCHANGED allVars
  BY <1>2, <1>11 DEF allVars, transferVars
<1> QED
  BY <1>4, <1>5, <1>6, <1>7, <1>8, <1>9, <1>10, <1>11 DEF TransferNext

(* Steps that leave the command's reading and its snapshot alone.          *)
LEMMA CommandGoesOn ==
  ASSUME TransferInv, StoreInv', Advances, UNCHANGED <<snapshot, exportVars>>,
         step' = step \/ (step = "upload" /\ step' \in {"reread", "failed"}),
         corpora \subseteq corpora', \A c \in corpora' : IsTable(c),
         step' \in {"reread", "pushed"} => touched' \/ remote' = snapshot
  PROVE  CommandInv' /\ PushInv'
<1>1. /\ pages' = pages /\ cursor' = cursor /\ snapshot' = snapshot
      /\ StoreInv /\ CommandInv /\ PushInv
  BY DEF exportVars, TransferInv
<1>2. (PagesFollow => PagesFollow') /\ (SnapshotCovered => SnapshotCovered')
  BY <1>1, PushGoesOn
<1>3. CommandInv'
  BY <1>1 DEF CommandInv, Steps
<1>4. PushInv'
  BY <1>1, <1>2 DEF PushInv
<1> QED
  BY <1>3, <1>4

LEMMA TransferKeepsCommand ==
  ASSUME TransferInv, [TransferNext]_allVars
  PROVE  CommandInv' /\ PushInv'
<1>1. StoreInv' /\ Advances /\ RemoteInv'
  BY TransferKeepsStore, TransferKeepsRemote
<1>2. StoreInv /\ RemoteInv /\ CommandInv /\ PushInv
  BY DEF TransferInv
<1>3. CASE UNCHANGED <<commandVars, remoteVars, touched, corpora>>
  BY <1>1, <1>2, <1>3, CommandGoesOn
     DEF commandVars, remoteVars, PushInv, CommandInv
<1>4. CASE LocalSession
  <2>1. /\ UNCHANGED <<snapshot, exportVars>> /\ step' = step
        /\ remote' = remote /\ touched' = touched
    BY <1>4 DEF LocalSession, transferVars, commandVars, remoteVars
  <2>2. corpora' = corpora \/ corpora' = corpora \cup {memories'}
    BY <1>4 DEF LocalSession
  <2>3. \A c \in corpora' : IsTable(c)
    BY <1>1, <1>2, <2>2 DEF CommandInv, StoreInv, TableInv
  <2> QED
    BY <1>1, <1>2, <2>1, <2>2, <2>3, CommandGoesOn DEF PushInv
<1>5. CASE StartPush \/ StartPull
  <2>1. /\ pages' = << >> /\ cursor' = 0 /\ snapshot' = snapshot
        /\ step' \in {"read", "fetch"}
        /\ corpora' = corpora \/ corpora' = {memories}
    BY <1>5 DEF StartPush, StartPull
  <2>2. CommandInv'
    BY <1>2, <2>1, EmptyIsTable, LimitsAssumption
       DEF CommandInv, Steps, StoreInv, TableInv
  <2>3. DOMAIN pages' = {} /\ \A id \in DOMAIN memories' : ~(id <= cursor')
    BY <1>1, <2>1, EmptyIsTable, LimitsAssumption DEF StoreInv, TableInv, IsTable, Ids
  <2>4. PagesFollow'
    BY <2>1, <2>3 DEF PagesFollow
  <2> QED
    BY <2>1, <2>2, <2>4 DEF PushInv
<1>6. CASE UploadAccepted \/ UploadRefused \/ UploadRepeated \/ UploadLost
  <2>1. UNCHANGED <<snapshot, exportVars>> /\ corpora' = corpora /\ step = "upload"
    BY <1>6 DEF UploadAccepted, UploadRefused, UploadRepeated, UploadLost, Uploads
  <2>2. step' = step \/ step' \in {"reread", "failed"}
    BY <1>6, <2>1 DEF UploadAccepted, UploadRefused, UploadRepeated, UploadLost
  <2>3. step' = "reread" => remote' = snapshot
    BY <1>6, <2>1, Zenon
       DEF UploadAccepted, UploadRefused, UploadRepeated, UploadLost, Applies,
           RemoteCommit
  <2>4. step' # "pushed"
    BY <2>1, <2>2
  <2> QED
    BY <1>1, <1>2, <2>1, <2>2, <2>3, <2>4, CommandGoesOn DEF CommandInv
<1>7. ASSUME NEW t \in Times, PushReads(t) PROVE CommandInv' /\ PushInv'
  BY <1>1, <1>2, <1>7, PushReadsKeepsInv, PushReadsKeepsPush
<1>8. ASSUME NEW t \in Times, PullFetches(t) PROVE CommandInv' /\ PushInv'
  <2> DEFINE rows == Pruned(remote, t)
             records == [id \in DOMAIN pages \cup PageOf(rows, cursor, PageSize) |->
                           IF id \in PageOf(rows, cursor, PageSize) THEN rows[id]
                                                                     ELSE pages[id]]
  <2>1. /\ pages' = Exported(rows).records /\ cursor' = Exported(rows).cursor
        /\ snapshot' = snapshot /\ corpora' = corpora
        /\ step' \in {"failed", "merge", "fetch"}
    BY <1>8 DEF PullFetches
  <2>2. IsTable(rows)
    BY <1>2, PrunedIs DEF RemoteInv
  <2>3. PageOf(rows, cursor, PageSize) \subseteq DOMAIN rows
    BY DEF PageOf
  <2>4. IsTable(records)
    BY <1>2, <2>2, <2>3 DEF IsTable, CommandInv
  <2>5. Exported(rows).records = records
    BY DEF Exported
  <2>6. Exported(rows).cursor \in 0 .. MaxInt
    <3> DEFINE page == PageOf(rows, cursor, PageSize)
    <3>1. page \subseteq Ids
      BY <2>2, <2>3 DEF IsTable
    <3>2. page # {} => \E id \in page : \A i \in page : i <= id
      BY <3>1, LargestId
    <3>3. Exported(rows).cursor = IF page = {} THEN cursor
                                  ELSE CHOOSE id \in page : \A i \in page : i <= id
      BY DEF Exported
    <3> HIDE DEF page
    <3>4. Exported(rows).cursor = cursor \/ Exported(rows).cursor \in page
      BY <3>2, <3>3
    <3>5. cursor \in 0 .. MaxInt /\ Ids \subseteq 0 .. MaxInt
      BY <1>2, LimitsAssumption DEF CommandInv, Ids
    <3> QED
      BY <3>1, <3>4, <3>5, Zenon
  <2> HIDE DEF records, rows
  <2> QED
    BY <1>2, <2>1, <2>4, <2>5, <2>6 DEF CommandInv, PushInv, Steps
<1>9. ASSUME NEW t \in Times, PullMerges(t) PROVE CommandInv' /\ PushInv'
  <2>1. /\ UNCHANGED <<snapshot, exportVars>> /\ corpora' = corpora
        /\ step' \in {"pulled", "failed"}
    BY <1>9 DEF PullMerges
  <2> QED
    BY <1>2, <2>1 DEF CommandInv, PushInv, exportVars, Steps
<1>10. ASSUME NEW key, NEW content, NEW t,
              \/ RemotePut(content, t) \/ RemoteRead(key, t)
              \/ RemoteReplace(key, content, t) \/ RemoteDelete(key)
       PROVE  CommandInv' /\ PushInv'
  <2>1. touched' = TRUE /\ UNCHANGED <<commandVars, corpora>>
    BY <1>10 DEF RemotePut, RemoteRead, RemoteReplace, RemoteDelete, RemoteSession
  <2> QED
    BY <1>1, <1>2, <2>1, CommandGoesOn DEF commandVars, CommandInv
<1>11. CASE UNCHANGED allVars
  BY <1>3, <1>11 DEF allVars, transferVars
<1> QED
  BY <1>4, <1>5, <1>6, <1>7, <1>8, <1>9, <1>10, <1>11 DEF TransferNext

(* The inductive invariant of a store under sessions and one transfer: the *)
(* store's own, and that what a push has read, uploaded and confirmed      *)
(* follows the table, row by row.                                          *)
THEOREM TransferInvAlways ==
  TransferSpec => []TransferInv
<1>1. TransferInit => TransferInv
  <2> SUFFICES ASSUME TransferInit PROVE TransferInv
    OBVIOUS
  <2>1. StoreInv
    BY InitEstablishesInv DEF TransferInit
  <2>2. RemoteInv
    BY EmptyIsTable, LimitsAssumption
       DEF TransferInit, RemoteInv, RemoteIdsStayRetired, Ids
  <2>3. CommandInv /\ PushInv
    BY EmptyIsTable, LimitsAssumption DEF TransferInit, CommandInv, PushInv, Steps
  <2> QED
    BY <2>1, <2>2, <2>3 DEF TransferInv
<1>2. TransferInv /\ [TransferNext]_allVars => TransferInv'
  BY TransferKeepsStore, TransferKeepsRemote, TransferKeepsCommand DEF TransferInv
<1> QED
  BY <1>1, <1>2, PTL DEF TransferSpec

(* A push that reports success (transfer.rs) has uploaded the corpus of    *)
(* one moment between its start and its report, whatever page sizes,       *)
(* retries and other sessions on the store; and the namespace is that      *)
(* corpus unless others have written to it since.                          *)
THEOREM PushesOneCorpus ==
  TransferSpec => []PushedTheCorpus
<1>1. TransferInv => PushedTheCorpus
  BY DEF TransferInv, PushInv, PushedTheCorpus
<1> QED
  BY <1>1, TransferInvAlways, PTL

(* The service never gives an id a second time that it gave or observed,   *)
(* though pushes replace all of its rows.                                  *)
THEOREM RemoteIdsAreRetired ==
  TransferSpec => []RemoteIdsStayRetired
<1>1. TransferInv => RemoteIdsStayRetired
  BY DEF TransferInv, RemoteInv
<1> QED
  BY <1>1, TransferInvAlways, PTL

(* Keys keep their meaning, and what a call read stays, though a push      *)
(* prunes the store and a pull merges foreign records into it.             *)
THEOREM TransfersKeepKeys ==
  TransferSpec => [](KeysKeepTheirMeaning /\ ReadProtects)
<1>1. TransferInv => KeysKeepTheirMeaning /\ ReadProtects
  BY DEF TransferInv, StoreInv, TableInv, KeysKeepTheirMeaning, DraftInv, Held, Used,
         Gone, ReadProtects
<1> QED
  BY <1>1, TransferInvAlways, PTL
=============================================================================
