---------------------------- MODULE MemoryCorpus ----------------------------
(***************************************************************************)
(* The table memories of one store as a value, from ids to rows, and what  *)
(* the transactions of crates/memory/src/store/local.rs make of it.        *)
(*                                                                         *)
(* Contents are opaque: what the code compares of them is the identity and *)
(* the length.  The timestamps of a row change only together with its      *)
(* version or its two counters, so the counters stand for them; until is   *)
(* probation_until_ms, 0 for NULL.                                         *)
(***************************************************************************)
EXTENDS Integers, FiniteSets, Functions

CONSTANTS
  Contents,                  \* what a memory may say
  Identity(_),               \* normalize_identity
  Bytes(_),                  \* the length of a content
  MaxRecords,                \* MemoryLimits::records
  MaxBytes,                  \* MemoryLimits::total_content_bytes
  Probation,                 \* MemoryLimits::probation_duration_ms
  MaxInt                     \* i64::MAX, of ids and of versions

ASSUME LimitsAssumption ==
  /\ MaxRecords \in Nat /\ MaxBytes \in Nat
  /\ MaxInt \in Nat \ {0} /\ Probation \in Nat \ {0}
  /\ \A x \in Contents : Bytes(x) \in Nat

Ids == 1 .. MaxInt

Rows ==
  [content : Contents, version : Ids, scans : Nat, uses : Nat, until : Nat]

IsTable(rows) == DOMAIN rows \subseteq Ids /\ rows \in [DOMAIN rows -> Rows]

(* A key is an id and a version; it names a record as long as the version  *)
(* is the current one.                                                     *)
Keys == Ids \X Ids

KeyOf(rows, id) == <<id, rows[id].version>>

Names(key, rows) ==
  key[1] \in DOMAIN rows /\ rows[key[1]].version = key[2]
-----------------------------------------------------------------------------
(* fault: the next id is taken from the rows that are left                 *)
FaultyIsNext(n, recorded, rows) ==
  /\ \A id \in DOMAIN rows : id < n
  /\ (n - 1) \in DOMAIN rows \cup {0}

(* The next id, in open, allocate_id and observe_id: the recorded one or,  *)
(* when there are rows beyond it, the one after the largest.  No id is     *)
(* left when that is no member of Ids.                                     *)
IsNext(n, recorded, rows) ==
  /\ n >= recorded /\ \A id \in DOMAIN rows : id < n
  /\ n = recorded \/ (n - 1) \in DOMAIN rows \cup {0}

(* prune_expired: unread until the end of its probation.                   *)
Expired(row, t) == row.until # 0 /\ row.until <= t /\ row.uses = 0

Pruned(rows, t) ==
  Restrict(rows, {id \in DOMAIN rows : ~Expired(rows[id], t)})

(* identity_exists                                                         *)
IdentityExists(rows, content, except) ==
  \E id \in DOMAIN rows \ except :
    Identity(rows[id].content) = Identity(content)

(* totals: SUM(length(content))                                            *)
ContentBytes(rows) ==
  SumFunction([id \in DOMAIN rows |-> Bytes(rows[id].content)])

Fresh(content, version, t) ==
  [content |-> content, version |-> version, scans |-> 0, uses |-> 0,
   until |-> t + Probation]

With(rows, id, row) ==
  [i \in DOMAIN rows \cup {id} |-> IF i = id THEN row ELSE rows[i]]

(* scan_local: the candidates are counted.                                 *)
Scanned(rows, candidates) ==
  [id \in DOMAIN rows |->
     IF id \in candidates THEN [rows[id] EXCEPT !.scans = @ + 1]
                          ELSE rows[id]]

(* fault: a read is counted as a scan                                      *)
FaultyWasRead(rows, id) == Scanned(rows, {id})

(* read_local, of a record that is there: counted, and off probation.      *)
WasRead(rows, id) ==
  With(rows, id, [rows[id] EXCEPT !.uses = @ + 1, !.until = 0])

(* insert: its checks, and that of allocate_id.                            *)
CanInsert(rows, next, content) ==
  /\ ~IdentityExists(rows, content, {})
  /\ Cardinality(DOMAIN rows) < MaxRecords
  /\ ContentBytes(rows) + Bytes(content) <= MaxBytes
  /\ next < MaxInt

(* replace: its checks; the bytes of the old content are given back.       *)
CanReplace(rows, key, content) ==
  /\ Names(key, rows)
  /\ ~IdentityExists(rows, content, {key[1]})
  /\ ContentBytes(rows) - Bytes(rows[key[1]].content) + Bytes(content)
       <= MaxBytes
  /\ key[2] < MaxInt

(* fault: the version stays                                                *)
FaultyReplaced(rows, key, content, t) ==
  With(rows, key[1], Fresh(content, key[2], t))

(* replace: what it leaves.                                                *)
Replaced(rows, key, content, t) ==
  With(rows, key[1], Fresh(content, key[2] + 1, t))

(* delete_local                                                            *)
Without(rows, id) == Restrict(rows, DOMAIN rows \ {id})
-----------------------------------------------------------------------------
(* export_local_page: the first limit records after the cursor.            *)
PageOf(rows, after, limit) ==
  {id \in DOMAIN rows :
     /\ id > after
     /\ Cardinality({i \in DOMAIN rows : after < i /\ i < id}) < limit}

(* No two records say the same.                                            *)
Distinct(rows) ==
  \A i, j \in DOMAIN rows :
    Identity(rows[i].content) = Identity(rows[j].content) => i = j

WithinLimits(rows) ==
  Cardinality(DOMAIN rows) <= MaxRecords /\ ContentBytes(rows) <= MaxBytes

(* merge_remote_export_local, of records in key order: those whose         *)
(* identity is neither in the table nor earlier in the export.             *)
Accepted(rows, export) ==
  {k \in DOMAIN export :
     /\ ~IdentityExists(rows, export[k].content, {})
     /\ \A j \in DOMAIN export :
          j < k => Identity(export[j].content) # Identity(export[k].content)}

CanMerge(rows, next, export) ==
  LET new == Restrict(export, Accepted(rows, export))
  IN  /\ Cardinality(DOMAIN rows) + Cardinality(DOMAIN new) <= MaxRecords
      /\ ContentBytes(rows) + ContentBytes(new) <= MaxBytes
      /\ next + Cardinality(DOMAIN new) <= MaxInt

(* Each accepted record gets the next id and starts a probation.           *)
Merged(rows, next, export, t) ==
  LET new   == Accepted(rows, export)
      Id(k) == next + Cardinality({j \in new : j < k})
  IN  [id \in DOMAIN rows \cup {Id(k) : k \in new} |->
         IF id \in DOMAIN rows THEN rows[id]
         ELSE Fresh(export[CHOOSE k \in new : Id(k) = id].content, 1, t)]
=============================================================================
