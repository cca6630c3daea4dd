----------------------------- MODULE SessionRows -----------------------------
(***************************************************************************)
(* The events table of the session database, for the rows of one session:  *)
(* what one transaction of core/storage.rs and core/storage/durable.rs     *)
(* makes of them.  A row is a record with its event_id, the contract       *)
(* sequence seq and the revision that wrote it; seq 0 stands for NULL.     *)
(* Ids are never reused: the table's key is AUTOINCREMENT.                 *)
(*                                                                         *)
(* Of a transcript record only its kind is kept, its body, a value that    *)
(* tells records apart, and the assistant stream (turn, model call, phase) *)
(* of a streamed draft and of the final message that replaces it.          *)
(***************************************************************************)
EXTENDS Integers, FiniteSets, Sequences

Kinds == {"draft", "final", "other"}

IsDraft(record) == record.kind = "draft"


(* The row of a record; an older build and a draft leave it unnumbered.    *)
Row(record, id, seq, rev) ==
  [id |-> id, kind |-> record.kind, stream |-> record.stream,
   body |-> record.body, seq |-> seq, rev |-> rev]

(* append_record's DELETE: a final message replaces its stream's drafts.   *)
Ends(record, row) ==
  /\ record.kind = "final" /\ IsDraft(row)
  /\ row.stream = record.stream /\ row.seq = 0
-----------------------------------------------------------------------------
(* A sequence: [last, through], the last number given and the largest id   *)
(* already considered.  adopt numbers what came after it, in id order.     *)
(* fault: drafts are numbered as well. *)
FaultyPending(rows, through) == {r \in rows : r.id > through /\ r.seq = 0}
Pending(rows, through) ==
  {r \in rows : r.id > through /\ ~IsDraft(r) /\ r.seq = 0}

Rank(set, r) == Cardinality({p \in set : p.id <= r.id})

LastId(rows, floor) ==
  IF rows = {} THEN floor
  ELSE CHOOSE n \in {r.id : r \in rows} : \A r \in rows : r.id <= n

Adopted(rows, sequence) ==
  LET pending == Pending(rows, sequence.through) IN
  {r \in rows : r \notin pending}
    \cup {[r EXCEPT !.seq = sequence.last + Rank(pending, r)] : r \in pending}

AfterAdoption(rows, sequence) ==
  [last    |-> sequence.last + Cardinality(Pending(rows, sequence.through)),
   through |-> LastId(rows, sequence.through)]
-----------------------------------------------------------------------------
(* The rows of a transaction that writes batch, a sequence of records,     *)
(* after the ids up to base and the numbers up to last: each record but a  *)
(* draft takes the next number, and each final message ends its stream.    *)
EventsUpTo(batch, i) == Cardinality({j \in 1..i : ~IsDraft(batch[j])})

RowAt(batch, i, base, last, rev) ==
  IF IsDraft(batch[i]) THEN Row(batch[i], base + i, 0, 0)
  ELSE Row(batch[i], base + i, last + EventsUpTo(batch, i), rev)

Written(rows, batch, base, last, rev) ==
  {r \in rows : \A i \in DOMAIN batch : ~Ends(batch[i], r)}
    \cup {r \in {RowAt(batch, i, base, last, rev) : i \in DOMAIN batch} :
            \A j \in DOMAIN batch : base + j > r.id => ~Ends(batch[j], r)}

(* What a build that predates the numbers appends.                         *)
Appended(rows, record, id) ==
  {r \in rows : ~Ends(record, r)} \cup {Row(record, id, 0, 0)}
==============================================================================
