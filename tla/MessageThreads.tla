--------------------------- MODULE MessageThreads ---------------------------
(***************************************************************************)
(* Message identity, reply correlation and bounded history of one root     *)
(* session: crates/subagents/src/message.rs, called by messaging.rs.       *)
(*                                                                         *)
(* The message lock admits one sender between prepare and commit; the      *)
(* harnesses settle and roll back committed messages meanwhile.  Bodies    *)
(* are left out: of a message the properties distinguish its id, its       *)
(* thread, its two ends and the message it answers.                        *)
(***************************************************************************)
EXTENDS Naturals, Sequences, SequencesExt, FiniteSetsExt

CONSTANTS
  Agents,                    \* agents of the tree
  Root,                      \* the sender that is not an agent
  MaxRetained,               \* MAX_RETAINED_MESSAGES
  MaxMessages                \* bound on the ids a behaviour draws

VARIABLES
  next_message_id,
  threads,                   \* ThreadId -> its messages, oldest first
  thread_by_message,         \* MessageId -> ThreadId
  retained_order,            \* retained messages, oldest first
  pending,                   \* retained messages whose delivery is not over
  prepared                   \* the message its sender has not committed, or
                             \* NoMessage

state == <<threads, thread_by_message, retained_order, pending>>
vars  == <<state, next_message_id, prepared>>

None       == 0
Senders    == Agents \cup {Root}
MessageIds == 1 .. MaxMessages
NoMessage  == [id |-> None]

Init ==
  /\ next_message_id = 0
  /\ threads = << >> /\ thread_by_message = << >>
  /\ retained_order = << >> /\ pending = {}
  /\ prepared = NoMessage
-----------------------------------------------------------------------------
Known(id) == id \in DOMAIN thread_by_message

(* message(id), for an id the index knows.                                 *)
Message(id) ==
  LET thread == threads[thread_by_message[id]]
  IN  CHOOSE m \in ToSet(thread) : m.id = id

(* reply_thread: only the recipient of an agent's message may answer it,   *)
(* and only to its sender.                                                 *)
MayReply(previous, from, to) ==
  /\ Known(previous)
  /\ Message(previous).from # Root
  /\ from = Message(previous).to
  /\ to = Message(previous).from

(* MessageId::next; the bound keeps it from saturating.                    *)
NextId == next_message_id + 1

(* prepare, for a body and a purpose that are valid for in_reply_to; an id *)
(* is drawn even if the reply is then refused.                             *)
Prepare(from, to, in_reply_to) ==
  /\ prepared = NoMessage
  /\ next_message_id < MaxMessages                   \* bound
  /\ from # to
  /\ next_message_id' = next_message_id + 1
  /\ prepared' =
       IF in_reply_to = None
       THEN [id |-> NextId, thread |-> NextId,
             from |-> from, to |-> to, in_reply_to |-> None]
       ELSE IF MayReply(in_reply_to, from, to)
       THEN [id |-> NextId,
             thread |-> thread_by_message[in_reply_to],
             from |-> from, to |-> to, in_reply_to |-> in_reply_to]
       ELSE NoMessage
  /\ UNCHANGED state

(* The mailbox is full or closed, or the sender is cancelled.              *)
EnqueueFails ==
  /\ prepared # NoMessage
  /\ prepared' = NoMessage
  /\ UNCHANGED <<state, next_message_id>>

Commit ==
  /\ prepared # NoMessage
  /\ LET m == prepared
         before == IF m.thread \in DOMAIN threads THEN threads[m.thread]
                                                  ELSE << >>
     IN  /\ threads' = [t \in DOMAIN threads \cup {m.thread} |->
                          IF t = m.thread THEN Append(before, m)
                                          ELSE threads[t]]
         /\ thread_by_message' =
              [id \in DOMAIN thread_by_message \cup {m.id} |->
                 IF id = m.id THEN m.thread ELSE thread_by_message[id]]
         /\ retained_order' = Append(retained_order, m.id)
         /\ pending' = pending \cup {m.id}
  /\ prepared' = NoMessage
  /\ UNCHANGED next_message_id
-----------------------------------------------------------------------------
(* retain: what stands at some places of a sequence, in its order.         *)
Rank(i, places) == Cardinality({j \in places : j <= i})

Retain(s, places) ==
  LET at(k) == CHOOSE i \in places : Rank(i, places) = k
  IN  [k \in 1 .. Cardinality(places) |-> s[at(k)]]

(* remove_message for a set of ids: a thread goes with its last message.   *)
RemoveMessages(ids) ==
  LET stays(t) == {i \in DOMAIN threads[t] : threads[t][i].id \notin ids} IN
  /\ thread_by_message' = [id \in DOMAIN thread_by_message \ ids |->
                             thread_by_message[id]]
  /\ threads' = [t \in {u \in DOMAIN threads : stays(u) # {}} |->
                   Retain(threads[t], stays(t))]

(* fault: pending messages are trimmed like the others                     *)
FaultyTrimmed(ps) ==
  LET over == Len(retained_order) - MaxRetained
  IN  {retained_order[i] : i \in {k \in DOMAIN retained_order : k <= over}}

(* trim_history, with ps pending: the oldest messages that are not         *)
(* pending go, until the history fits or only pending ones are left.       *)
Trimmed(ps) ==
  LET over    == Len(retained_order) - MaxRetained
      settled == {i \in DOMAIN retained_order : retained_order[i] \notin ps}
  IN  {retained_order[i] : i \in {k \in settled : Rank(k, settled) <= over}}

RemoveRetained(ids) ==
  retained_order' = Retain(retained_order,
    {i \in DOMAIN retained_order : retained_order[i] \notin ids})

(* mark_admitted(Started or Steered) and mark_terminal; mark_admitted      *)
(* (Queued) changes nothing.                                               *)
MarkTerminal(id) ==
  LET trimmed == Trimmed(pending \ {id}) IN
  /\ pending' = pending \ {id}
  /\ RemoveRetained(trimmed)
  /\ RemoveMessages(trimmed)
  /\ UNCHANGED <<next_message_id, prepared>>

(* rollback, by the harness that rejects the message or by its sender.     *)
Rollback(id) ==
  /\ Known(id)
  /\ pending' = pending \ {id}
  /\ RemoveRetained({id})
  /\ RemoveMessages({id})
  /\ UNCHANGED <<next_message_id, prepared>>

Next ==
  \/ \E from \in Senders, to \in Agents, r \in {None} \cup MessageIds :
       /\ r # None => r <= next_message_id + 1
       /\ Prepare(from, to, r)
  \/ EnqueueFails
  \/ Commit
  \/ \E id \in MessageIds : MarkTerminal(id) \/ Rollback(id)

Spec == Init /\ [][Next]_vars
-----------------------------------------------------------------------------
Retained == ToSet(retained_order)

TypeOK ==
  /\ next_message_id \in 0 .. MaxMessages
  /\ DOMAIN threads \subseteq 1 .. next_message_id
  /\ DOMAIN thread_by_message \subseteq 1 .. next_message_id
  /\ Retained \subseteq 1 .. next_message_id
  /\ pending \subseteq 1 .. next_message_id
  /\ prepared.id \in 0 .. next_message_id

(* The three indexes agree: every indexed message is in its thread, no     *)
(* thread is empty, the history lists each indexed message once and a      *)
(* pending message is always there to be found.  reply_thread's two        *)
(* expects and begin_delegation's lookup rest on this.                     *)
IndexesAgree ==
  /\ DOMAIN thread_by_message = Retained
  /\ Len(retained_order) = Cardinality(Retained)
  /\ pending \subseteq Retained
  /\ \A t \in DOMAIN threads :
       /\ threads[t] # << >>
       /\ \A i \in DOMAIN threads[t] : LET id == threads[t][i].id IN
            Known(id) /\ thread_by_message[id] = t
  /\ \A id \in Retained :
       /\ thread_by_message[id] \in DOMAIN threads
       /\ \E m \in ToSet(threads[thread_by_message[id]]) : m.id = id

(* However many messages are pending, at most MaxRetained settled ones are *)
(* kept (message.rs:144-159).                                              *)
HistoryBounded == Cardinality(Retained \ pending) <= MaxRetained

(* A thread is a conversation of two: all its messages have the same two   *)
(* ends, and a reply goes back to the sender of what it answers, even when *)
(* the messages before it were trimmed away in the meantime.               *)
TwoParty ==
  \A t \in DOMAIN threads : \A i, j \in DOMAIN threads[t] :
    LET a == threads[t][i]  b == threads[t][j] IN
      /\ {a.from, a.to} = {b.from, b.to}
      /\ b.in_reply_to = a.id => b.to = a.from /\ b.from = a.to

=============================================================================
