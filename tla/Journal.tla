-------------------------------- MODULE Journal --------------------------------
(***************************************************************************)
(* The transcript journal of a live session:                               *)
(* core/transcript/journal.rs.  It numbers records, holds the session's    *)
(* start back until the first other record, and queues records for a       *)
(* writer that commits all of them at once; core/storage.rs keeps a row of *)
(* each.  A record is [seq, kind, turn, parent, through]: the turn of what *)
(* an assistant says, the parent and boundary of a fork's start.           *)
(***************************************************************************)
EXTENDS Integers, FiniteSets, Sequences, FiniteSetsExt

Record(seq, kind, turn) ==
  [seq |-> seq, kind |-> kind, turn |-> turn, parent |-> 0, through |-> 0]

NoStart == [held |-> FALSE, parent |-> 0, through |-> 0]
StartOf(parent, through) == [held |-> TRUE, parent |-> parent, through |-> through]

(* open_in, defer_start.  writer: open while the journal has a handle,     *)
(* then closed until it has drained its queue, then gone; or failed.       *)
Opened(process, session, next, start) ==
  [process |-> process, session |-> session, next |-> next, last |-> next - 1,
   empty |-> TRUE, start |-> start, turn |-> 0, queue |-> <<>>, writer |-> "open"]

(* What is left of a journal whose handle and writer are gone.             *)
Gone == [Opened("none", 0, 0, NoStart) EXCEPT !.writer = "gone"]

Sent(j, record) == [j EXCEPT !.queue = Append(@, record), !.last = record.seq]

(* append_local_record: it takes a number, and the journal is not empty.   *)
Recorded(j, record) ==
  [Sent(j, record) EXCEPT !.next = @ + 1, !.empty = FALSE]

StartedIfNeeded(j) ==
  IF j.start.held
  THEN [Recorded(j, [Record(j.next, "start", 0) EXCEPT !.parent = j.start.parent,
                                                       !.through = j.start.through])
          EXCEPT !.start = NoStart]
  ELSE j

AppendLocal(j, kind) ==
  LET s == StartedIfNeeded(j) IN Recorded(s, Record(s.next, kind, s.turn))

(* append_agent: a transport event takes a number and is not stored.       *)
AppendAgent(j, kind) ==
  LET s == StartedIfNeeded(j) IN
  IF kind = "api" THEN [s EXCEPT !.next = @ + 1]
  ELSE [Sent(s, Record(s.next, kind, s.turn)) EXCEPT !.next = @ + 1]

(* A prompt starts the next turn of the pane.                              *)
AppendPrompt(j) == AppendLocal([j EXCEPT !.turn = @ + 1], "prompt")

(* close_journal: the end of a session that recorded nothing is not either.*)
(* fault: it is. *)
FaultyEnded(j) == AppendLocal(j, "end")
Ended(j) == IF j.empty THEN j ELSE AppendLocal(j, "end")

Closed(j) == [Ended(j) EXCEPT !.writer = "closed"]
-----------------------------------------------------------------------------
(* append_record, of the records of one transaction: a final message       *)
(* replaces the drafts of its stream.                                      *)
Replaces(record, row) ==
  record.kind = "final" /\ row.kind = "draft" /\ row.turn = record.turn

(* The members of a sequence that have the given places, in their order.   *)
Picked(s, places) ==
  [n \in 1..Cardinality(places) |->
     s[CHOOSE i \in places : Cardinality({j \in places : j <= i}) = n]]

WithRows(rows, records) ==
  LET all == rows \o records
      replaced(i) == \E j \in Len(rows) + 1 .. Len(all) : j > i /\ Replaces(all[j], all[i])
  IN  Picked(all, {i \in DOMAIN all : ~replaced(i)})

(* next_sequence of a stored session, from its own rows.                   *)
NextSequence(rows) == Max({0} \cup {rows[i].seq : i \in DOMAIN rows}) + 1

HasRow(rows, seq) == \E i \in DOMAIN rows : rows[i].seq = seq

FirstStart(rows) ==
  LET starts == {i \in DOMAIN rows : rows[i].kind = "start"} IN
  IF starts = {} THEN Record(0, "start", 0) ELSE rows[Min(starts)]
==============================================================================
