--------------------------- MODULE MessagesProofs ---------------------------
(***************************************************************************)
(* The messages of the subagent runtime, for any number of children, calls *)
(* and messages: none is lost, given twice or out of order, and a child's  *)
(* task is one that it was given.                                          *)
(*                                                                         *)
(* "MInv" is the inductive invariant, beside the IInv of SubagentsProofs.  *)
(* A message is drawn, waits in a channel, is in the harness's hands       *)
(* ("job"), may wait in the queue, and is in hand again until it is given; *)
(* MInv says what is known of it at each of these places, that it is in    *)
(* one of them only (Apart), and that those further on were sent earlier.  *)
(***************************************************************************)
EXTENDS SubagentsProofs

-----------------------------------------------------------------------------
(* The messages of one class, urgent or deferred, keep their order: f says *)
(* what each message is.                                                   *)
Before(f, m, n) == (f[m].urgent <=> f[n].urgent) => m < n

Sorted(s) == \A i, j \in DOMAIN s : i < j => s[i] < s[j]

Filed(f, box) ==
  /\ Sorted(box.urgent) /\ Sorted(box.deferred)
  /\ \A i \in DOMAIN box.urgent : f[box.urgent[i]].urgent
  /\ \A i \in DOMAIN box.deferred : ~f[box.deferred[i]].urgent

(* A message that nobody has answered, and one that is in the queue.       *)
Fresh(m) ==
  /\ answer[m] = "none" /\ given[m] = 0 /\ commit[m] # "unsent"
  /\ commit[m] = "yes" => record[m] = "pending"

Accepted(m) ==
  answer[m] = "ok" /\ given[m] = 0 /\ commit[m] = "yes" /\ record[m] = "pending"

(* What waits in a child's channels and its queue.                         *)
FiledAt(a) == Filed(message, mailbox[a]) /\ Filed(message, queued[a])

MailAt(a)  == \A m \in InBox(mailbox[a]) : message[m].to = a /\ Fresh(m)

QueueAt(a) == \A m \in InBox(queued[a]) : message[m].to = a /\ Accepted(m)

LineAt(a)  ==
  \A m \in InBox(queued[a]), n \in InBox(mailbox[a]) : Before(message, m, n)

ClearAt(a) ==
  hpc[a] \in {"shutdown", "stopping", "release", "closing"} => queued[a] = EmptyBox

BoxesAt(a) == FiledAt(a) /\ MailAt(a) /\ QueueAt(a) /\ LineAt(a) /\ ClearAt(a)

(* The message that a harness delivers is ahead of those in its channels,  *)
(* and behind those in its queue until it begins a turn.                   *)
JobIs(a) ==
  job[a] # None =>
    /\ hpc[a] \in {"accept", "steering", "prompting"} /\ why[a] # "start"
    /\ message[job[a]].to = a
    /\ IF why[a] = "pending" THEN Accepted(job[a]) ELSE Fresh(job[a])
    /\ hpc[a] \in {"steering", "prompting"} => commit[job[a]] = "yes"
    /\ hpc[a] = "steering" => message[job[a]].urgent

JobLine(a) ==
  job[a] # None =>
    /\ \A n \in InBox(mailbox[a]) : Before(message, job[a], n)
    /\ \A n \in InBox(queued[a]) :
         IF hpc[a] = "prompting" THEN Before(message, job[a], n)
                                 ELSE Before(message, n, job[a])

JobAt(a) == JobIs(a) /\ JobLine(a)

MessageAt(m) ==
  /\ commit[m] = "unsent" => given[m] = 0 /\ answer[m] = "none" /\ record[m] = "none"
  /\ given[m] # 0 =>
       given[m] = 1 /\ commit[m] = "yes" /\ answer[m] = "ok" /\ record[m] = "settled"
  /\ commit[m] # "yes" => record[m] = "none" /\ given[m] = 0

(* What is sent to a child is in its hands until it is settled.            *)
HeldAt(a) ==
  \A m \in Messages :
    message[m].to = a /\ (record[m] = "pending" \/ commit[m] = "wait") =>
      \/ m \in InBox(mailbox[a]) \/ m \in InBox(queued[a]) \/ m = job[a]
      \/ hpc[a] = "gone" /\ (answer[m] = "dropped" \/ "timeout" \in Disturbances)

(* A deferred message that is pending was sent after those that were given.*)
OrderAt(m, n) ==
  /\ message[m].to = message[n].to
  /\ ~message[m].urgent /\ ~message[n].urgent
  /\ record[m] = "pending" /\ given[n] = 1
  => n < m

(* The task of a child, and the one a delegation replaces.                 *)
IsTask(a, m) == message[m].to = a /\ message[m].delegate /\ commit[m] = "yes"

TaskAt(a) ==
  /\ task[a] # None => IsTask(a, task[a])
  /\ undo[a] = NoChange /\ task[a] # None =>
       given[task[a]] = 1 \/ (hpc[a] = "gone" /\ "timeout" \in Disturbances)
  /\ undo[a] # NoChange =>
       /\ hpc[a] \in {"steering", "prompting"} /\ job[a] # None /\ task[a] = job[a]
       /\ undo[a] # None => IsTask(a, undo[a]) /\ given[undo[a]] = 1

LateInv == \A c \in Calls : cpc[c] = "close_late" => "timeout" \in Disturbances

MInv ==
  /\ \A a \in Agents : BoxesAt(a) /\ JobAt(a) /\ TaskAt(a) /\ HeldAt(a)
  /\ \A m \in Messages : MessageAt(m)
  /\ \A m, n \in Messages : OrderAt(m, n)
  /\ LateInv

-----------------------------------------------------------------------------
LEMMA InBoxes ==
  ASSUME NEW box \in Boxes
  PROVE  InBox(box) \subseteq Messages
<1>1. box.urgent \in Seq(Messages) /\ box.deferred \in Seq(Messages)
  BY DEF Boxes
<1> QED
  BY <1>1, ElementOfSeq, LenProperties DEF InBox

LEMMA SortedTail ==
  ASSUME NEW s \in Seq(Messages), Sorted(s), s # << >>
  PROVE  /\ Head(s) = s[1] /\ 1 \in DOMAIN s /\ s[1] \in Messages
         /\ Sorted(Tail(s))
         /\ \A i \in DOMAIN Tail(s) : s[1] < Tail(s)[i] /\ i + 1 \in DOMAIN s /\ Tail(s)[i] = s[i + 1]
         /\ \A i \in DOMAIN s : i = 1 \/ (i - 1 \in DOMAIN Tail(s) /\ Tail(s)[i - 1] = s[i])
<1>1. /\ Head(s) = s[1] /\ 1 \in DOMAIN s
      /\ DOMAIN Tail(s) = 1 .. Len(s) - 1 /\ DOMAIN s = 1 .. Len(s) /\ Len(s) \in Nat
      /\ \A i \in DOMAIN Tail(s) : Tail(s)[i] = s[i + 1]
  BY TailIs
<1>2. s[1] \in Messages
  BY <1>1, ElementOfSeq
<1>3. Sorted(Tail(s))
  BY <1>1 DEF Sorted
<1>4. \A i \in DOMAIN Tail(s) : s[1] < Tail(s)[i] /\ i + 1 \in DOMAIN s /\ Tail(s)[i] = s[i + 1]
  BY <1>1 DEF Sorted
<1>5. \A i \in DOMAIN s : i = 1 \/ (i - 1 \in DOMAIN Tail(s) /\ Tail(s)[i - 1] = s[i])
  BY <1>1
<1> QED
  BY <1>1, <1>2, <1>3, <1>4, <1>5

LEMMA SortedAppend ==
  ASSUME NEW s \in Seq(Messages), NEW m \in Messages, Sorted(s),
         \A i \in DOMAIN s : s[i] < m
  PROVE  /\ Sorted(Append(s, m))
         /\ \A i \in DOMAIN s : i \in DOMAIN Append(s, m) /\ Append(s, m)[i] = s[i]
         /\ \A i \in DOMAIN Append(s, m) : (i \in DOMAIN s /\ Append(s, m)[i] = s[i]) \/ Append(s, m)[i] = m
         /\ \E i \in DOMAIN Append(s, m) : Append(s, m)[i] = m
<1> DEFINE t == Append(s, m)
<1>1. /\ DOMAIN t = 1 .. Len(s) + 1 /\ DOMAIN s = 1 .. Len(s) /\ Len(s) \in Nat
      /\ \A i \in 1 .. Len(s) : t[i] = s[i]
      /\ t[Len(s) + 1] = m
  BY AppendProperties, LenProperties
<1> HIDE DEF t
<1>2. Sorted(t)
  BY <1>1 DEF Sorted
<1>3. \A i \in DOMAIN s : i \in DOMAIN t /\ t[i] = s[i]
  BY <1>1
<1>4. \A i \in DOMAIN t : (i \in DOMAIN s /\ t[i] = s[i]) \/ t[i] = m
  BY <1>1
<1>5. \E i \in DOMAIN t : t[i] = m
  BY <1>1
<1> QED
  BY <1>2, <1>3, <1>4, <1>5 DEF t

LEMMA UrgentTaken ==
  ASSUME NEW f, NEW box \in Boxes, Filed(f, box), box.urgent # << >>
  PROVE  LET m    == Head(box.urgent)
             rest == [urgent |-> Tail(box.urgent), deferred |-> box.deferred]
         IN  /\ m \in InBox(box) /\ InBox(rest) = InBox(box) \ {m}
             /\ \A n \in InBox(rest) : Before(f, m, n)
             /\ Filed(f, rest)
<1> DEFINE s == box.urgent
           d == box.deferred
           m == s[1]
           rest == [urgent |-> Tail(s), deferred |-> d]
<1>1. s \in Seq(Messages) /\ Sorted(s) /\ s # << >>
  BY DEF Boxes, Filed
<1>2. /\ Head(s) = m /\ 1 \in DOMAIN s /\ m \in Messages
      /\ Sorted(Tail(s))
      /\ \A i \in DOMAIN Tail(s) : m < Tail(s)[i] /\ i + 1 \in DOMAIN s /\ Tail(s)[i] = s[i + 1]
      /\ \A i \in DOMAIN s : i = 1 \/ (i - 1 \in DOMAIN Tail(s) /\ Tail(s)[i - 1] = s[i])
  BY <1>1, SortedTail
<1>3. m \in InBox(box)
  BY <1>2 DEF InBox
<1>4. f[m].urgent /\ \A i \in DOMAIN d : ~f[d[i]].urgent
  BY <1>2 DEF Filed
<1>5. \A n \in InBox(rest) : n \in InBox(box) /\ n # m /\ Before(f, m, n)
  <2> TAKE n \in InBox(rest)
  <2>1. CASE \E i \in DOMAIN Tail(s) : n = Tail(s)[i]
    <3>1. PICK i \in DOMAIN Tail(s) : n = Tail(s)[i]
      BY <2>1
    <3>2. m < n /\ i + 1 \in DOMAIN s /\ n = s[i + 1]
      BY <1>2, <3>1
    <3>3. n # m
      BY <1>2, <3>2 DEF Messages
    <3> QED
      BY <3>2, <3>3 DEF InBox, Before
  <2>2. CASE \E i \in DOMAIN d : n = d[i]
    BY <1>4, <2>2 DEF InBox, Before
  <2> QED
    BY <2>1, <2>2 DEF InBox
<1>6. \A n \in InBox(box) : n # m => n \in InBox(rest)
  <2> TAKE n \in InBox(box)
  <2> HAVE n # m
  <2>1. CASE \E i \in DOMAIN s : n = s[i]
    <3>1. PICK i \in DOMAIN s : n = s[i]
      BY <2>1
    <3>2. i - 1 \in DOMAIN Tail(s) /\ Tail(s)[i - 1] = n
      BY <1>2, <3>1
    <3> QED
      BY <3>2 DEF InBox
  <2>2. CASE \E i \in DOMAIN d : n = d[i]
    BY <2>2 DEF InBox
  <2> QED
    BY <2>1, <2>2 DEF InBox
<1>7. Filed(f, rest)
  BY <1>2 DEF Filed
<1>8. InBox(rest) = InBox(box) \ {m}
  BY <1>5, <1>6
<1> HIDE DEF rest, m
<1> QED
  BY <1>2, <1>3, <1>5, <1>7, <1>8 DEF rest

LEMMA DeferredTaken ==
  ASSUME NEW f, NEW box \in Boxes, Filed(f, box), box.deferred # << >>
  PROVE  LET m    == Head(box.deferred)
             rest == [urgent |-> box.urgent, deferred |-> Tail(box.deferred)]
         IN  /\ m \in InBox(box) /\ InBox(rest) = InBox(box) \ {m}
             /\ \A n \in InBox(rest) : Before(f, m, n)
             /\ Filed(f, rest)
<1> DEFINE s == box.deferred
           d == box.urgent
           m == s[1]
           rest == [urgent |-> d, deferred |-> Tail(s)]
<1>1. s \in Seq(Messages) /\ Sorted(s) /\ s # << >>
  BY DEF Boxes, Filed
<1>2. /\ Head(s) = m /\ 1 \in DOMAIN s /\ m \in Messages
      /\ Sorted(Tail(s))
      /\ \A i \in DOMAIN Tail(s) : m < Tail(s)[i] /\ i + 1 \in DOMAIN s /\ Tail(s)[i] = s[i + 1]
      /\ \A i \in DOMAIN s : i = 1 \/ (i - 1 \in DOMAIN Tail(s) /\ Tail(s)[i - 1] = s[i])
  BY <1>1, SortedTail
<1>3. m \in InBox(box)
  BY <1>2 DEF InBox
<1>4. ~f[m].urgent /\ \A i \in DOMAIN d : f[d[i]].urgent
  BY <1>2 DEF Filed
<1>5. \A n \in InBox(rest) : n \in InBox(box) /\ n # m /\ Before(f, m, n)
  <2> TAKE n \in InBox(rest)
  <2>1. CASE \E i \in DOMAIN Tail(s) : n = Tail(s)[i]
    <3>1. PICK i \in DOMAIN Tail(s) : n = Tail(s)[i]
      BY <2>1
    <3>2. m < n /\ i + 1 \in DOMAIN s /\ n = s[i + 1]
      BY <1>2, <3>1
    <3>3. n # m
      BY <1>2, <3>2 DEF Messages
    <3> QED
      BY <3>2, <3>3 DEF InBox, Before
  <2>2. CASE \E i \in DOMAIN d : n = d[i]
    BY <1>4, <2>2 DEF InBox, Before
  <2> QED
    BY <2>1, <2>2 DEF InBox
<1>6. \A n \in InBox(box) : n # m => n \in InBox(rest)
  <2> TAKE n \in InBox(box)
  <2> HAVE n # m
  <2>1. CASE \E i \in DOMAIN s : n = s[i]
    <3>1. PICK i \in DOMAIN s : n = s[i]
      BY <2>1
    <3>2. i - 1 \in DOMAIN Tail(s) /\ Tail(s)[i - 1] = n
      BY <1>2, <3>1
    <3> QED
      BY <3>2 DEF InBox
  <2>2. CASE \E i \in DOMAIN d : n = d[i]
    BY <2>2 DEF InBox
  <2> QED
    BY <2>1, <2>2 DEF InBox
<1>7. Filed(f, rest)
  BY <1>2 DEF Filed
<1>8. InBox(rest) = InBox(box) \ {m}
  BY <1>5, <1>6
<1> HIDE DEF rest, m
<1> QED
  BY <1>2, <1>3, <1>5, <1>7, <1>8 DEF rest

(* The next message of a box is the first of its class.                    *)
LEMMA NextTaken ==
  ASSUME NEW f, NEW box \in Boxes, Filed(f, box), box # EmptyBox
  PROVE  /\ NextOf(box) \in InBox(box)
         /\ InBox(Without(box)) = InBox(box) \ {NextOf(box)}
         /\ \A n \in InBox(Without(box)) : Before(f, NextOf(box), n)
         /\ Filed(f, Without(box))
<1>1. CASE box.urgent # << >>
  BY <1>1, UrgentTaken DEF NextOf, Without
<1>2. CASE box.urgent = << >>
  <2>1. box.deferred # << >>
    BY <1>2 DEF Boxes, EmptyBox
  <2>2. /\ NextOf(box) = Head(box.deferred)
        /\ Without(box) = [urgent |-> box.urgent, deferred |-> Tail(box.deferred)]
    BY <1>2 DEF NextOf, Without
  <2> DEFINE rest == [urgent |-> box.urgent, deferred |-> Tail(box.deferred)]
  <2>3. /\ Head(box.deferred) \in InBox(box)
        /\ InBox(rest) = InBox(box) \ {Head(box.deferred)}
        /\ \A n \in InBox(rest) : Before(f, Head(box.deferred), n)
        /\ Filed(f, rest)
    BY <2>1, DeferredTaken
  <2> HIDE DEF rest
  <2>4. NextOf(box) = Head(box.deferred) /\ Without(box) = rest
    BY <2>2 DEF rest
  <2> QED
    BY <2>3, <2>4
<1> QED
  BY <1>1, <1>2

(* A message goes to the end of its class.                                 *)
LEMMA BoxFilled ==
  ASSUME NEW f, NEW box \in Boxes, NEW m \in Messages, NEW urgent \in BOOLEAN,
         f[m].urgent <=> urgent, Filed(f, box), \A n \in InBox(box) : Before(f, n, m)
  PROVE  /\ InBox(Put(box, m, urgent)) = InBox(box) \cup {m}
         /\ Filed(f, Put(box, m, urgent))
<1> DEFINE s == IF urgent THEN box.urgent ELSE box.deferred
           t == Append(s, m)
           full == Put(box, m, urgent)
<1>1. s \in Seq(Messages) /\ Sorted(s)
  BY DEF Boxes, Filed
<1>2. \A i \in DOMAIN s : s[i] < m
  <2> TAKE i \in DOMAIN s
  <2>1. s[i] \in InBox(box)
    BY DEF InBox
  <2>2. f[s[i]].urgent <=> urgent
    BY DEF Filed
  <2> QED
    BY <2>1, <2>2 DEF Before
<1> HIDE DEF s
<1>3. /\ Sorted(t)
      /\ \A i \in DOMAIN s : i \in DOMAIN t /\ t[i] = s[i]
      /\ \A i \in DOMAIN t : (i \in DOMAIN s /\ t[i] = s[i]) \/ t[i] = m
      /\ \E i \in DOMAIN t : t[i] = m
  BY <1>1, <1>2, SortedAppend
<1> HIDE DEF t
<1>4. CASE urgent
  <2>1. s = box.urgent /\ full = [urgent |-> t, deferred |-> box.deferred]
    BY <1>4 DEF Put, s, t
  <2>2. Filed(f, full)
    <3>1. f[m].urgent /\ \A i \in DOMAIN s : f[s[i]].urgent
      BY <1>4, <2>1 DEF Filed
    <3>2. \A i \in DOMAIN t : f[t[i]].urgent
      BY <1>3, <3>1
    <3> QED
      BY <1>3, <2>1, <3>2 DEF Filed
  <2>3. \A n \in InBox(full) : n \in InBox(box) \cup {m}
    BY <1>3, <2>1 DEF InBox
  <2>4. \A n \in InBox(box) \cup {m} : n \in InBox(full)
    BY <1>3, <2>1 DEF InBox
  <2> QED
    BY <2>2, <2>3, <2>4
<1>5. CASE ~urgent
  <2>1. s = box.deferred /\ full = [urgent |-> box.urgent, deferred |-> t]
    BY <1>5 DEF Put, s, t
  <2>2. Filed(f, full)
    <3>1. ~f[m].urgent /\ \A i \in DOMAIN s : ~f[s[i]].urgent
      BY <1>5, <2>1 DEF Filed
    <3>2. \A i \in DOMAIN t : ~f[t[i]].urgent
      BY <1>3, <3>1
    <3> QED
      BY <1>3, <2>1, <3>2 DEF Filed
  <2>3. \A n \in InBox(full) : n \in InBox(box) \cup {m}
    BY <1>3, <2>1 DEF InBox
  <2>4. \A n \in InBox(box) \cup {m} : n \in InBox(full)
    BY <1>3, <2>1 DEF InBox
  <2> QED
    BY <2>2, <2>3, <2>4
<1> QED
  BY <1>4, <1>5

LEMMA EmptyFiled == \A f : Filed(f, EmptyBox)
BY EmptySeq DEF Filed, Sorted, EmptyBox

(* What happens to other messages does not matter.                         *)
LEMMA FiledStays ==
  ASSUME NEW f, NEW g, NEW box, Filed(f, box), \A m \in InBox(box) : f[m] = g[m]
  PROVE  Filed(g, box)
BY DEF Filed, InBox

-----------------------------------------------------------------------------
LEMMA Placed ==
  ASSUME IInv, MInv
  PROVE  /\ \A a \in Agents : /\ InBox(mailbox[a]) \subseteq Messages
                              /\ InBox(queued[a]) \subseteq Messages
                              /\ mailbox[a] \in Boxes /\ queued[a] \in Boxes
                              /\ job[a] \in {None} \cup Messages
         /\ None \notin Messages /\ NoChange \notin Messages
         /\ InBox(EmptyBox) = {}
<1>1. \A a \in Agents : mailbox[a] \in Boxes /\ queued[a] \in Boxes /\ job[a] \in {None} \cup Messages
  BY DEF IInv, TypeInv, ChannelTypes, HarnessTypes
<1> QED
  BY <1>1, InBoxes, EmptyBoxIs, SubagentAssumption DEF None, NoChange, Messages

LEMMA MailTaken ==
  ASSUME IInv, MInv, NEW a \in Agents, mailbox[a] # EmptyBox
  PROVE  /\ NextOf(mailbox[a]) \in InBox(mailbox[a])
         /\ InBox(Without(mailbox[a])) = InBox(mailbox[a]) \ {NextOf(mailbox[a])}
         /\ \A n \in InBox(Without(mailbox[a])) : Before(message, NextOf(mailbox[a]), n)
         /\ Filed(message, Without(mailbox[a]))
BY Placed, NextTaken DEF MInv, BoxesAt, FiledAt, MailAt, QueueAt, LineAt

LEMMA QueueTaken ==
  ASSUME IInv, MInv, NEW a \in Agents, queued[a] # EmptyBox
  PROVE  /\ NextOf(queued[a]) \in InBox(queued[a])
         /\ InBox(Without(queued[a])) = InBox(queued[a]) \ {NextOf(queued[a])}
         /\ \A n \in InBox(Without(queued[a])) : Before(message, NextOf(queued[a]), n)
         /\ Filed(message, Without(queued[a]))
BY Placed, NextTaken DEF MInv, BoxesAt, FiledAt, MailAt, QueueAt, LineAt

LEMMA JobQueued ==
  ASSUME IInv, MInv, NEW a \in Agents, hpc[a] \in {"accept", "steering"}
  PROVE  LET full == Put(queued[a], job[a], message[job[a]].urgent) IN
         InBox(full) = InBox(queued[a]) \cup {job[a]} /\ Filed(message, full)
<1>1. job[a] \in Messages /\ job[a] # None
  BY Placed DEF IInv, TypeInv, JobInv
<1>2. \A n \in InBox(queued[a]) : Before(message, n, job[a])
  BY <1>1 DEF MInv, JobAt, JobIs, JobLine
<1>3. message[job[a]].urgent \in BOOLEAN
  BY <1>1 DEF IInv, TypeInv, MessageTypes, Envelope
<1> QED
  BY <1>1, <1>2, <1>3, Placed, BoxFilled DEF MInv, BoxesAt, FiledAt, MailAt, QueueAt, LineAt

LEMMA WaitingRejected ==
  ASSUME IInv, MInv, NEW a \in Agents, RejectWaiting(a)
  PROVE  \E m \in InBox(mailbox[a]) :
           /\ InBox(mailbox'[a]) = InBox(mailbox[a]) \ {m}
           /\ Filed(message, mailbox'[a])
           /\ \A b \in Agents : b # a => mailbox'[b] = mailbox[b]
           /\ m \in Messages
           /\ \A n \in Messages : n # m => answer'[n] = answer[n] /\ record'[n] = record[n]
           /\ \/ commit[m] = "yes" /\ answer'[m] = "error" /\ record'[m] = "removed"
              \/ commit[m] = "dropped" /\ answer'[m] = answer[m] /\ record'[m] = record[m]
<1>1. mailbox \in [Agents -> Boxes] /\ Filed(message, mailbox[a])
  BY DEF IInv, TypeInv, ChannelTypes, MInv, BoxesAt, FiledAt, MailAt, QueueAt, LineAt
<1>2. PICK m : /\ m = Head(Rejecting(a))
               /\ \/ /\ commit[m] = "yes"
                     /\ answer' = [answer EXCEPT ![m] = "error"]
                     /\ record' = [record EXCEPT ![m] = "removed"]
                  \/ commit[m] = "dropped" /\ UNCHANGED <<answer, record>>
  BY DEF RejectWaiting, Refuse, RollBack
<1>a. m \in Messages =>
        /\ \A n \in Messages : n # m => answer'[n] = answer[n] /\ record'[n] = record[n]
        /\ \/ commit[m] = "yes" /\ answer'[m] = "error" /\ record'[m] = "removed"
           \/ commit[m] = "dropped" /\ answer'[m] = answer[m] /\ record'[m] = record[m]
  BY <1>2 DEF IInv, TypeInv, MessageTypes
<1>b. InBox(mailbox[a]) \subseteq Messages
  BY Placed
<1> DEFINE box == mailbox[a]
<1>3. CASE hpc[a] = "reject_urgent"
  <2> DEFINE rest == [urgent |-> Tail(box.urgent), deferred |-> box.deferred]
  <2>1. box.urgent # << >> /\ m = Head(box.urgent)
        /\ mailbox' = [mailbox EXCEPT ![a] = rest]
    BY <1>2, <1>3 DEF RejectWaiting, Rejecting
  <2>2. m \in InBox(box) /\ InBox(rest) = InBox(box) \ {m} /\ Filed(message, rest)
    BY <1>1, <2>1, UrgentTaken
  <2> HIDE DEF rest
  <2> QED
    BY <1>1, <1>a, <1>b, <2>1, <2>2
<1>4. CASE hpc[a] # "reject_urgent"
  <2> DEFINE rest == [urgent |-> box.urgent, deferred |-> Tail(box.deferred)]
  <2>1. box.deferred # << >> /\ m = Head(box.deferred)
        /\ mailbox' = [mailbox EXCEPT ![a] = rest]
    BY <1>2, <1>4 DEF RejectWaiting, Rejecting
  <2>2. m \in InBox(box) /\ InBox(rest) = InBox(box) \ {m} /\ Filed(message, rest)
    BY <1>1, <2>1, DeferredTaken
  <2> HIDE DEF rest
  <2> QED
    BY <1>1, <1>a, <1>b, <2>1, <2>2
<1> QED
  BY <1>3, <1>4

(* A message is drawn, and put behind all those that were sent before it.  *)
Posted(a, m) ==
  /\ commit[m] = "unsent" /\ \A n \in Messages : commit[n] # "unsent" => n < m
  /\ \A n \in Messages : n # m => message'[n] = message[n] /\ commit'[n] = commit[n]
  /\ message'[m].to = a /\ commit'[m] = "wait"
  /\ InBox(mailbox'[a]) = InBox(mailbox[a]) \cup {m}
  /\ \A b \in Agents : b # a => mailbox'[b] = mailbox[b]
  /\ \A b \in Agents : Filed(message', mailbox'[b]) /\ Filed(message', queued[b])
  /\ UNCHANGED <<hpc, why, job, undo, queued, task, answer, record, given>>

LEMMA SendPosts ==
  ASSUME IInv, MInv, NEW c \in Calls, NEW session \in Sessions, NEW a \in Agents,
         NEW urgent \in BOOLEAN, NEW delegate \in BOOLEAN,
         SendPrepare(c, session, a, urgent, delegate)
  PROVE  \E m \in Messages : Posted(a, m)
<1> DEFINE m == NextMessage
           letter == [to |-> a, urgent |-> urgent, delegate |-> delegate]
           full == Put(mailbox[a], m, urgent)
<1>1. /\ message' = [message EXCEPT ![m] = letter]
      /\ mailbox' = [mailbox EXCEPT ![a] = full]
      /\ commit' = [commit EXCEPT ![m] = "wait"]
      /\ \E n \in Messages : commit[n] = "unsent"
      /\ UNCHANGED <<hpc, why, job, undo, queued, task, answer, record, given>>
  BY DEF SendPrepare, sessionVars, harnessVars, stepVars
<1>2. PICK k \in 0 .. MaxMessages : \A n \in Messages : commit[n] = "unsent" <=> n > k
  BY DEF IInv, TypeInv, DrawnInv
<1>3. m = k + 1 /\ m \in Messages
  BY <1>1, <1>2, NextMessageIs
<1>4. commit[m] = "unsent" /\ \A n \in Messages : commit[n] # "unsent" => n < m
  BY <1>2, <1>3 DEF Messages
<1>5. /\ message \in [Messages -> Envelope] /\ commit \in [Messages -> {"unsent", "wait", "yes", "dropped"}]
      /\ mailbox \in [Agents -> Boxes] /\ queued \in [Agents -> Boxes]
  BY DEF IInv, TypeInv, MessageTypes, ChannelTypes
<1>6. letter.to = a /\ (letter.urgent <=> urgent)
  OBVIOUS
<1> HIDE DEF m, letter, full
<1>7. /\ \A n \in Messages : n # m => message'[n] = message[n] /\ commit'[n] = commit[n]
      /\ message'[m] = letter /\ commit'[m] = "wait"
      /\ mailbox'[a] = full /\ \A b \in Agents : b # a => mailbox'[b] = mailbox[b]
  BY <1>1, <1>3, <1>5
<1>8. \A b \in Agents : /\ m \notin InBox(mailbox[b]) /\ m \notin InBox(queued[b])
                        /\ \A n \in InBox(mailbox[b]) : n \in Messages /\ n < m
                        /\ \A n \in InBox(queued[b]) : n \in Messages
  BY <1>4, Placed DEF MInv, BoxesAt, FiledAt, MailAt, QueueAt, LineAt, Fresh, Accepted
<1>9. \A b \in Agents : Filed(message', mailbox[b]) /\ Filed(message', queued[b])
  <2> TAKE b \in Agents
  <2>1. Filed(message, mailbox[b]) /\ Filed(message, queued[b])
    BY DEF MInv, BoxesAt, FiledAt, MailAt, QueueAt, LineAt
  <2>2. \A n \in InBox(mailbox[b]) : message[n] = message'[n]
    BY <1>7, <1>8
  <2>3. \A n \in InBox(queued[b]) : message[n] = message'[n]
    BY <1>7, <1>8
  <2> QED
    BY <2>1, <2>2, <2>3, FiledStays
<1>10. InBox(full) = InBox(mailbox[a]) \cup {m} /\ Filed(message', full)
  <2>1. \A n \in InBox(mailbox[a]) : Before(message', n, m)
    BY <1>8 DEF Before
  <2>2. message'[m].urgent <=> urgent
    BY <1>6, <1>7
  <2> QED
    BY <1>3, <1>5, <1>9, <2>1, <2>2, BoxFilled DEF full
<1> QED
  BY ZenonT(40), <1>1, <1>3, <1>4, <1>6, <1>7, <1>9, <1>10 DEF Posted

(* No message is in two places.                                            *)
Apart ==
  \A a, b \in Agents :
    /\ \A m \in InBox(mailbox[a]) :
         m \notin InBox(queued[b]) /\ m # job[b] /\ (m \in InBox(mailbox[b]) => a = b)
    /\ \A m \in InBox(queued[a]) : m # job[b] /\ (m \in InBox(queued[b]) => a = b)
    /\ job[a] # None /\ job[a] = job[b] => a = b

LEMMA AreApart == IInv /\ MInv => Apart
<1> SUFFICES ASSUME IInv, MInv PROVE Apart
  OBVIOUS
<1>1. \A m \in Messages : ~(m < m)
  BY DEF Messages
<1>2. /\ \A a \in Agents : /\ InBox(mailbox[a]) \subseteq Messages
                           /\ InBox(queued[a]) \subseteq Messages
                           /\ job[a] \in {None} \cup Messages
      /\ None \notin Messages
  BY Placed
<1>3. \A a \in Agents : BoxesAt(a) /\ JobAt(a)
  BY DEF MInv
<1>4. ASSUME NEW a \in Agents, NEW b \in Agents, NEW m \in InBox(mailbox[a])
      PROVE  m \notin InBox(queued[b]) /\ m # job[b] /\ (m \in InBox(mailbox[b]) => a = b)
  <2>1. message[m].to = a /\ Fresh(m) /\ m \in Messages
    BY <1>2, <1>3 DEF BoxesAt, FiledAt, MailAt, QueueAt, LineAt
  <2>2. m \notin InBox(queued[b])
    BY <1>3, <2>1 DEF BoxesAt, FiledAt, MailAt, QueueAt, LineAt, Fresh, Accepted
  <2>3. m # job[b]
    <3>1. SUFFICES ASSUME m = job[b] PROVE FALSE
      OBVIOUS
    <3>2. job[b] # None /\ b = a
      BY <1>2, <1>3, <2>1, <3>1 DEF JobAt, JobIs, JobLine
    <3> QED
      BY <1>1, <1>3, <2>1, <3>1, <3>2 DEF JobAt, JobIs, JobLine, Before
  <2>4. m \in InBox(mailbox[b]) => a = b
    BY <1>3, <2>1 DEF BoxesAt, FiledAt, MailAt, QueueAt, LineAt
  <2> QED
    BY <2>2, <2>3, <2>4
<1>5. ASSUME NEW a \in Agents, NEW b \in Agents, NEW m \in InBox(queued[a])
      PROVE  m # job[b] /\ (m \in InBox(queued[b]) => a = b)
  <2>1. message[m].to = a /\ m \in Messages
    BY <1>2, <1>3 DEF BoxesAt, FiledAt, MailAt, QueueAt, LineAt
  <2>2. m # job[b]
    <3>1. SUFFICES ASSUME m = job[b] PROVE FALSE
      OBVIOUS
    <3>2. job[b] # None /\ b = a
      BY <1>2, <1>3, <2>1, <3>1 DEF JobAt, JobIs, JobLine
    <3> QED
      BY <1>1, <1>3, <2>1, <3>1, <3>2 DEF JobAt, JobIs, JobLine, Before
  <2>3. m \in InBox(queued[b]) => a = b
    BY <1>3, <2>1 DEF BoxesAt, FiledAt, MailAt, QueueAt, LineAt
  <2> QED
    BY <2>2, <2>3
<1>6. \A a, b \in Agents : job[a] # None /\ job[a] = job[b] => a = b
  BY <1>3 DEF JobAt, JobIs, JobLine
<1> QED
  BY <1>4, <1>5, <1>6 DEF Apart

(* A message that cannot be given goes to the queue, or is refused.        *)
LEMMA DeliveryQueued ==
  ASSUME IInv, MInv, NEW a \in Agents, hpc[a] \in {"accept", "steering"},
         QueueDelivery(a, job[a])
  PROVE  \E box :
           /\ InBox(box) = InBox(queued[a]) \cup {job[a]} /\ Filed(message, box)
           /\ hpc' = [hpc EXCEPT ![a] = "select"] /\ job' = [job EXCEPT ![a] = None]
           /\ \/ /\ queued' = [queued EXCEPT ![a] = box]
                 /\ answer' = [answer EXCEPT ![job[a]] = "ok"] /\ record' = record
              \/ /\ queued' = queued
                 /\ answer' = [answer EXCEPT ![job[a]] = "error"]
                 /\ record' = [record EXCEPT ![job[a]] = "removed"]
<1> DEFINE box == Put(queued[a], job[a], message[job[a]].urgent)
<1>1. InBox(box) = InBox(queued[a]) \cup {job[a]} /\ Filed(message, box)
  BY JobQueued
<1>2. \/ /\ queued' = [queued EXCEPT ![a] = box]
         /\ answer' = [answer EXCEPT ![job[a]] = "ok"] /\ record' = record
      \/ /\ queued' = queued
         /\ answer' = [answer EXCEPT ![job[a]] = "error"]
         /\ record' = [record EXCEPT ![job[a]] = "removed"]
  BY DEF QueueDelivery, Admit, Refuse, RollBack
<1>3. hpc' = [hpc EXCEPT ![a] = "select"] /\ job' = [job EXCEPT ![a] = None]
  BY DEF QueueDelivery, Goto
<1> HIDE DEF box
<1> QED
  BY <1>1, <1>2, <1>3

(* What harnesses leave that end.                                          *)
LEMMA CleanedUp ==
  ASSUME IInv, MInv, NEW as \in SUBSET Agents, CleanUp(as)
  PROVE  /\ \A a \in as : /\ mailbox'[a] = EmptyBox /\ queued'[a] = EmptyBox
                          /\ job'[a] = None /\ hpc'[a] = "gone" /\ undo'[a] = NoChange
         /\ \A b \in Agents \ as :
              /\ mailbox'[b] = mailbox[b] /\ queued'[b] = queued[b] /\ job'[b] = job[b]
              /\ hpc'[b] = hpc[b] /\ undo'[b] = undo[b] /\ why'[b] = why[b]
         /\ \A m \in Messages :
              \/ answer'[m] = answer[m]
              \/ /\ message[m].to \in as /\ commit[m] # "unsent"
                 /\ answer[m] = "none" /\ answer'[m] = "dropped"
         /\ \A a \in as : \A m \in InBox(mailbox[a]) : answer'[m] = "dropped"
<1> DEFINE lost == UNION {InBox(mailbox[a]) \cup ({job[a]} \ {None}) : a \in as}
<1>1. answer' = [m \in Messages |-> IF m \in lost /\ answer[m] = "none" THEN "dropped" ELSE answer[m]]
  BY DEF CleanUp
<1>a. \A a \in as : a \in Agents /\ MailAt(a) /\ JobIs(a)
  BY DEF MInv, BoxesAt, JobAt
<1> HIDE DEF lost
<1>b. \A m : m \in lost <=> \E a \in as : m \in InBox(mailbox[a]) \/ (m = job[a] /\ m # None)
  <2> TAKE m
  <2>1. ASSUME m \in lost PROVE \E a \in as : m \in InBox(mailbox[a]) \/ (m = job[a] /\ m # None)
    <3>1. PICK S \in {InBox(mailbox[a]) \cup ({job[a]} \ {None}) : a \in as} : m \in S
      BY <2>1 DEF lost
    <3>2. PICK a \in as : S = InBox(mailbox[a]) \cup ({job[a]} \ {None})
      BY <3>1
    <3> QED
      BY <3>1, <3>2
  <2>2. ASSUME \E a \in as : m \in InBox(mailbox[a]) \/ (m = job[a] /\ m # None) PROVE m \in lost
    <3>2. PICK a \in as : m \in InBox(mailbox[a]) \/ (m = job[a] /\ m # None)
      BY <2>2
    <3> DEFINE S == InBox(mailbox[a]) \cup ({job[a]} \ {None})
    <3>1. m \in S
      BY <3>2
    <3> QED
      BY <3>1 DEF lost
  <2> QED
    BY <2>1, <2>2
<1>2. \A m \in lost : message[m].to \in as /\ commit[m] # "unsent"
  <2>1. \A a \in as : \A m \in InBox(mailbox[a]) : message[m].to = a /\ commit[m] # "unsent"
    BY <1>a DEF MailAt, Fresh
  <2>2. \A a \in as : job[a] # None => message[job[a]].to = a /\ commit[job[a]] # "unsent"
    BY <1>a DEF JobIs, Fresh, Accepted
  <2> SUFFICES ASSUME NEW m \in lost PROVE message[m].to \in as /\ commit[m] # "unsent"
    OBVIOUS
  <2>3. PICK a \in as : m \in InBox(mailbox[a]) \/ (m = job[a] /\ m # None)
    BY <1>b
  <2>4. CASE m \in InBox(mailbox[a])
    BY <2>1, <2>4
  <2>5. CASE m = job[a] /\ m # None
    BY <2>2, <2>5
  <2> QED
    BY <2>3, <2>4, <2>5
<1>3. \A a \in as : \A m \in InBox(mailbox[a]) : m \in lost /\ m \in Messages /\ answer[m] = "none"
  <2>1. \A a \in as : InBox(mailbox[a]) \subseteq lost
    BY <1>b
  <2>2. \A a \in as : InBox(mailbox[a]) \subseteq Messages
    BY <1>a, Placed
  <2> QED
    BY <1>a, <2>1, <2>2 DEF MailAt, Fresh
<1>4. \A m \in Messages :
        \/ answer'[m] = answer[m]
        \/ /\ message[m].to \in as /\ commit[m] # "unsent"
                 /\ answer[m] = "none" /\ answer'[m] = "dropped"
  BY <1>1, <1>2
<1>5. \A a \in as : \A m \in InBox(mailbox[a]) : answer'[m] = "dropped"
  BY <1>1, <1>3
<1>6. /\ \A a \in as : /\ mailbox'[a] = EmptyBox /\ queued'[a] = EmptyBox
                       /\ job'[a] = None /\ hpc'[a] = "gone" /\ undo'[a] = NoChange
      /\ \A b \in Agents \ as :
           /\ mailbox'[b] = mailbox[b] /\ queued'[b] = queued[b] /\ job'[b] = job[b]
           /\ hpc'[b] = hpc[b] /\ undo'[b] = undo[b] /\ why'[b] = why[b]
  BY DEF CleanUp
<1> QED
  BY <1>4, <1>5, <1>6

LEMMA LateCleans ==
  ASSUME IInv, NEW c \in Calls, FinishLate(c)
  PROVE  \E as \in SUBSET Agents : CleanUp(as)
<1>1. Unfinished(joinable \cap ids[c]) \in SUBSET Agents
  BY DEF IInv, TypeInv, SessionTypes, Unfinished
<1> QED
  BY <1>1 DEF FinishLate

LEMMA RolledBack ==
  ASSUME IInv, MInv, NEW a \in Agents, hpc[a] # "gone", RollbackDelegation(a)
  PROVE  /\ undo'[a] = NoChange
         /\ \A d \in Agents : d # a => task'[d] = task[d] /\ undo'[d] = undo[d]
         /\ task'[a] # None => IsTask(a, task'[a]) /\ given[task'[a]] = 1
<1>1. /\ task \in [Agents -> {None} \cup Messages] /\ undo \in [Agents -> {None, NoChange} \cup Messages]
      /\ TaskAt(a)
  BY DEF IInv, TypeInv, SessionTypes, HarnessTypes, MInv
<1>2. /\ undo' = [undo EXCEPT ![a] = NoChange]
      /\ task' = IF undo[a] = NoChange THEN task ELSE [task EXCEPT ![a] = undo[a]]
  BY DEF RollbackDelegation
<1>3. CASE undo[a] = NoChange
  BY <1>1, <1>2, <1>3 DEF TaskAt
<1>4. CASE undo[a] # NoChange
  BY <1>1, <1>2, <1>4 DEF TaskAt
<1> QED
  BY <1>3, <1>4

LEMMA Delegated ==
  ASSUME IInv, MInv, NEW a \in Agents, hpc[a] \notin {"steering", "prompting", "gone"},
         NEW m \in Messages, message[m].to = a, commit[m] = "yes", BeginDelegation(a, m)
  PROVE  /\ \A d \in Agents : d # a => task'[d] = task[d] /\ undo'[d] = undo[d]
         /\ task'[a] # None => IsTask(a, task'[a])
         /\ undo'[a] = NoChange /\ task'[a] # None => given[task'[a]] = 1
         /\ undo'[a] # NoChange =>
              task'[a] = m /\ (undo'[a] # None => IsTask(a, undo'[a]) /\ given[undo'[a]] = 1)
<1>1. /\ task \in [Agents -> {None} \cup Messages] /\ undo \in [Agents -> {None, NoChange} \cup Messages]
      /\ TaskAt(a) /\ NoChange \notin Messages /\ NoChange # None
  BY SubagentAssumption DEF IInv, TypeInv, SessionTypes, HarnessTypes, MInv, NoChange, Messages, None
<1>2. CASE message[m].delegate
  <2>1. undo' = [undo EXCEPT ![a] = task[a]] /\ task' = [task EXCEPT ![a] = m]
    BY <1>2 DEF BeginDelegation
  <2> QED
    BY <1>1, <1>2, <2>1 DEF TaskAt, IsTask
<1>3. CASE ~message[m].delegate
  <2>1. undo' = [undo EXCEPT ![a] = NoChange] /\ task' = task
    BY <1>3 DEF BeginDelegation
  <2> QED
    BY <1>1, <1>3, <2>1 DEF TaskAt, IsTask
<1> QED
  BY <1>2, <1>3

-----------------------------------------------------------------------------
(* The boxes stay sorted, and each holds its class.                        *)
LEMMA FiledKept ==
  ASSUME IInv, MInv, NEW b \in Agents, Next
  PROVE  FiledAt(b)'
<1>types. /\ hpc \in [Agents -> HarnessPoints] /\ why \in [Agents -> Reasons]
          /\ job \in [Agents -> {None} \cup Messages]
          /\ undo \in [Agents -> {None, NoChange} \cup Messages]
          /\ task \in [Agents -> {None} \cup Messages]
          /\ mailbox \in [Agents -> Boxes] /\ queued \in [Agents -> Boxes]
          /\ commit \in [Messages -> {"unsent", "wait", "yes", "dropped"}]
          /\ answer \in [Messages -> {"none", "ok", "error", "dropped"}]
          /\ record \in [Messages -> {"none", "pending", "settled", "removed"}]
          /\ given \in [Messages -> Nat]
  BY DEF IInv, TypeInv, HarnessTypes, SessionTypes, ChannelTypes, MessageTypes
<1>in. /\ \A a \in Agents : InBox(mailbox[a]) \subseteq Messages /\ InBox(queued[a]) \subseteq Messages
       /\ None \notin Messages /\ NoChange \notin Messages /\ InBox(EmptyBox) = {}
  BY Placed
<1>filed. \A a \in Agents : FiledAt(a) 
  BY DEF MInv, BoxesAt
<1>mail. \A a \in Agents : MailAt(a) 
  BY DEF MInv, BoxesAt
<1>queue. \A a \in Agents : QueueAt(a) 
  BY DEF MInv, BoxesAt
<1>job. \A a \in Agents : JobIs(a) 
  BY DEF MInv, JobAt
<1>apart. \A a, c \in Agents :
    /\ \A m \in InBox(mailbox[a]) :
         m \notin InBox(queued[c]) /\ m # job[c] /\ (m \in InBox(mailbox[c]) => a = c)
    /\ \A m \in InBox(queued[a]) : m # job[c] /\ (m \in InBox(queued[c]) => a = c)
    /\ job[a] # None /\ job[a] = job[c] => a = c
  BY AreApart DEF Apart
<1>each. \A m \in Messages : MessageAt(m)
  BY DEF MInv
<1>works. \A a \in Agents : /\ hpc[a] \in {"accept", "steering"} => job[a] \in Messages
                            /\ hpc[a] = "prompting" /\ why[a] # "start" => job[a] \in Messages
                            /\ hpc[a] \notin {"accept", "steering", "prompting"} => job[a] = None
  BY DEF IInv, TypeInv, JobInv, MInv, JobAt, JobIs
<1>why. \A a \in Agents : 
          /\ hpc[a] = "prompting" => why[a] \in {"start", "deliver", "pending"}
          /\ hpc[a] \in {"select", "accept", "steering", "pending"} => why[a] = "none"
  BY DEF IInv, HarnessInv, WhyAt, Stopping
<1>1. ASSUME NEW a \in Agents, HarnessStep(a) PROVE FiledAt(b)'
  <2>1. CASE TakeDelivery(a)
    BY <2>1, <1>types, <1>filed, MailTaken
    DEF FiledAt, TakeDelivery, messageVars, EmptyBox, NoCommand
  <2>2. ASSUME NEW m \in Messages, DeliverQueue(a, m) PROVE FiledAt(b)'
    <3>1. PICK box :
               /\ InBox(box) = InBox(queued[a]) \cup {job[a]} /\ Filed(message, box)
               /\ hpc' = [hpc EXCEPT ![a] = "select"] /\ job' = [job EXCEPT ![a] = None]
               /\ \/ /\ queued' = [queued EXCEPT ![a] = box]
                     /\ answer' = [answer EXCEPT ![job[a]] = "ok"] /\ record' = record
                  \/ /\ queued' = queued
                     /\ answer' = [answer EXCEPT ![job[a]] = "error"]
                     /\ record' = [record EXCEPT ![job[a]] = "removed"]
      BY <2>2, DeliveryQueued DEF DeliverQueue, Accepting
    <3>2. /\ hpc[a] \in {"accept", "steering"} /\ job[a] \in Messages /\ commit[job[a]] = "yes" /\ why[a] = "none"
          /\ Fresh(job[a]) /\ message[job[a]].to = a
          /\ UNCHANGED <<why, mailbox, message, commit, given>>
      BY <2>2, <1>works, <1>job, <1>why, <1>in DEF DeliverQueue, Accepting, channelVars, JobIs
    <3>3. \A n \in Messages : n # job[a] => answer'[n] = answer[n] /\ record'[n] = record[n]
      BY <3>1, <3>2, <1>types
    <3>4. \A d \in Agents : d # a => queued'[d] = queued[d] /\ hpc'[d] = hpc[d] /\ job'[d] = job[d] /\ job[d] # job[a]
      BY <3>1, <3>2, <1>types, <1>apart, <1>in
    <3>5. /\ hpc'[a] = "select" /\ job'[a] = None
          /\ \/ queued'[a] = box /\ answer'[job[a]] = "ok" /\ record'[job[a]] = record[job[a]]
             \/ queued'[a] = queued[a] /\ answer'[job[a]] = "error" /\ record'[job[a]] = "removed"
      BY <3>1, <3>2, <1>types
    <3>6. InBox(box) = InBox(queued[a]) \cup {job[a]} /\ Filed(message, box)
      BY <3>1
    <3> QED
      BY <3>2, <3>3, <3>4, <3>5, <3>6, <1>types, <1>filed DEF FiledAt
  <2>3. CASE SteerRefused(a)
    <3>1. PICK box :
               /\ InBox(box) = InBox(queued[a]) \cup {job[a]} /\ Filed(message, box)
               /\ hpc' = [hpc EXCEPT ![a] = "select"] /\ job' = [job EXCEPT ![a] = None]
               /\ \/ /\ queued' = [queued EXCEPT ![a] = box]
                     /\ answer' = [answer EXCEPT ![job[a]] = "ok"] /\ record' = record
                  \/ /\ queued' = queued
                     /\ answer' = [answer EXCEPT ![job[a]] = "error"]
                     /\ record' = [record EXCEPT ![job[a]] = "removed"]
      BY <2>3, DeliveryQueued DEF SteerRefused
    <3>2. /\ hpc[a] \in {"accept", "steering"} /\ job[a] \in Messages /\ commit[job[a]] = "yes" /\ why[a] = "none"
          /\ Fresh(job[a]) /\ message[job[a]].to = a
          /\ UNCHANGED <<why, mailbox, message, commit, given>>
      BY <2>3, <1>works, <1>job, <1>why, <1>in DEF SteerRefused, channelVars, JobIs
    <3>3. \A n \in Messages : n # job[a] => answer'[n] = answer[n] /\ record'[n] = record[n]
      BY <3>1, <3>2, <1>types
    <3>4. \A d \in Agents : d # a => queued'[d] = queued[d] /\ hpc'[d] = hpc[d] /\ job'[d] = job[d] /\ job[d] # job[a]
      BY <3>1, <3>2, <1>types, <1>apart, <1>in
    <3>5. /\ hpc'[a] = "select" /\ job'[a] = None
          /\ \/ queued'[a] = box /\ answer'[job[a]] = "ok" /\ record'[job[a]] = record[job[a]]
             \/ queued'[a] = queued[a] /\ answer'[job[a]] = "error" /\ record'[job[a]] = "removed"
      BY <3>1, <3>2, <1>types
    <3>6. InBox(box) = InBox(queued[a]) \cup {job[a]} /\ Filed(message, box)
      BY <3>1
    <3> QED
      BY <3>2, <3>3, <3>4, <3>5, <3>6, <1>types, <1>filed DEF FiledAt
  <2>4. CASE StartPending(a)
    BY <2>4, <1>types, <1>filed, QueueTaken
    DEF FiledAt, StartPending, channelVars, EmptyBox, CanReserve,
       CanStartTurn, Startable
  <2>5. CASE RejectWaiting(a)
    <3>1. PICK m \in InBox(mailbox[a]) :
               /\ InBox(mailbox'[a]) = InBox(mailbox[a]) \ {m}
               /\ Filed(message, mailbox'[a])
               /\ \A d \in Agents : d # a => mailbox'[d] = mailbox[d]
               /\ m \in Messages
               /\ \A n \in Messages : n # m => answer'[n] = answer[n] /\ record'[n] = record[n]
               /\ \/ commit[m] = "yes" /\ answer'[m] = "error" /\ record'[m] = "removed"
                  \/ commit[m] = "dropped" /\ answer'[m] = answer[m] /\ record'[m] = record[m]
      BY <2>5, WaitingRejected
    <3>2. UNCHANGED <<message, commit, given, hpc, queued, job, why, task, undo>>
      BY <2>5 DEF RejectWaiting, sessionVars, harnessVars, stepVars
    <3>3. \A d \in Agents : /\ InBox(mailbox'[d]) \subseteq InBox(mailbox[d]) 
                            /\ m \notin InBox(mailbox'[d]) /\ m \notin InBox(queued[d]) /\ m # job[d]
      BY <3>1, <1>apart
    <3> QED
      BY <3>1, <3>2, <3>3, <1>types, <1>filed DEF FiledAt
  <2>6. CASE AllRejected(a)
    BY <2>6, <1>types, <1>filed, EmptyFiled
    DEF FiledAt, AllRejected, channelVars, FailPending, EmptyBox
  <2>7. CASE HarnessClosed(a)
    <3>1. PICK as \in SUBSET Agents : CleanUp(as)
      BY <2>7, LateCleans DEF HarnessClosed
    <3>2. /\ \A d \in as : /\ mailbox'[d] = EmptyBox /\ queued'[d] = EmptyBox
                           /\ job'[d] = None /\ hpc'[d] = "gone" /\ undo'[d] = NoChange
          /\ \A d \in Agents \ as :
               /\ mailbox'[d] = mailbox[d] /\ queued'[d] = queued[d] /\ job'[d] = job[d]
               /\ hpc'[d] = hpc[d] /\ undo'[d] = undo[d] /\ why'[d] = why[d]
          /\ \A m \in Messages :
               \/ answer'[m] = answer[m]
               \/ /\ message[m].to \in as /\ commit[m] # "unsent"
                  /\ answer[m] = "none" /\ answer'[m] = "dropped"
          /\ \A d \in as : \A m \in InBox(mailbox[d]) : answer'[m] = "dropped"
      BY <3>1, CleanedUp
    <3>3. UNCHANGED <<message, commit, record, given, task>>
      BY <2>7 DEF HarnessClosed
    <3>4. CASE b \in as
      <4>1. /\ mailbox'[b] = EmptyBox /\ queued'[b] = EmptyBox
            /\ job'[b] = None /\ hpc'[b] = "gone" /\ undo'[b] = NoChange
        BY <3>2, <3>4
      <4> QED
        BY <3>3, <4>1, EmptyFiled, <1>in, <1>filed DEF FiledAt
    <3>5. CASE b \notin as
      <4>1. /\ mailbox'[b] = mailbox[b] /\ queued'[b] = queued[b] /\ job'[b] = job[b]
            /\ hpc'[b] = hpc[b] /\ undo'[b] = undo[b] /\ why'[b] = why[b]
        BY <3>2, <3>5
      <4>2. \A m \in Messages : message[m].to = b => answer'[m] = answer[m]
        BY <3>2, <3>5
      <4> QED
        BY <3>3, <4>1, <4>2, <1>in, <1>types, <1>filed DEF FiledAt
    <3> QED
      BY <3>4, <3>5
  <2>8. ASSUME TakeStart(a) \/ PromptAccepted(a) \/ PromptFailed(a) \/ Abandoned(a)
              \/ (\E m \in Messages : Steer(a, m)) \/ (\E m \in Messages :
              DeliverStart(a, m)) \/ SteerAdmitted(a) \/ SteerFailed(a) \/
              CapacityChanged(a) \/ StopPending(a) \/ TurnFinished(a) \/ Publish(a)
              \/ TakeStop(a) \/ UrgentRejected(a) \/ Shutdown(a) \/ FinishActive(a)
              \/ Release(a)
       PROVE  FiledAt(b)'
    <3>1. UNCHANGED <<queued, mailbox, message>>
      BY <2>8
      DEF TakeStart, messageVars, PromptAccepted, channelVars, PromptFailed,
         Abandoned, Steer, DeliverStart, SteerAdmitted, SteerFailed,
         CapacityChanged, StopPending, TurnFinished, Publish, TakeStop,
         UrgentRejected, Shutdown, FinishActive, Release
    <3> QED BY <3>1, <1>types, <1>filed  DEF FiledAt
  <2> QED BY <1>1, <2>1, <2>2, <2>3, <2>4, <2>5, <2>6, <2>7, <2>8 DEF HarnessStep
<1>2. ASSUME NEW a \in Agents, LibraryStep(a) PROVE FiledAt(b)'
  <2>1. ASSUME (\E result \in Outcomes : TurnEnds(a, result)) \/ EventsEnd(a) \/
              EventsDone(a)
       PROVE  FiledAt(b)'
    <3>1. UNCHANGED <<queued, mailbox, message>>
      BY <2>1
      DEF TurnEnds, channelVars, messageVars, EventsEnd, harnessVars,
         EventsDone
    <3> QED BY <3>1, <1>types, <1>filed  DEF FiledAt
  <2> QED BY <1>2, <2>1 DEF LibraryStep
<1>3. ASSUME NEW c \in Calls, CallStep(c) \/ CallDropped(c) PROVE FiledAt(b)'
  <2>1. CASE FinishLate(c)
    <3>1. PICK as \in SUBSET Agents : CleanUp(as)
      BY <2>1, LateCleans DEF FinishLate
    <3>2. /\ \A d \in as : /\ mailbox'[d] = EmptyBox /\ queued'[d] = EmptyBox
                           /\ job'[d] = None /\ hpc'[d] = "gone" /\ undo'[d] = NoChange
          /\ \A d \in Agents \ as :
               /\ mailbox'[d] = mailbox[d] /\ queued'[d] = queued[d] /\ job'[d] = job[d]
               /\ hpc'[d] = hpc[d] /\ undo'[d] = undo[d] /\ why'[d] = why[d]
          /\ \A m \in Messages :
               \/ answer'[m] = answer[m]
               \/ /\ message[m].to \in as /\ commit[m] # "unsent"
                  /\ answer[m] = "none" /\ answer'[m] = "dropped"
          /\ \A d \in as : \A m \in InBox(mailbox[d]) : answer'[m] = "dropped"
      BY <3>1, CleanedUp
    <3>3. UNCHANGED <<message, commit, record, given, task>>
      BY <2>1 DEF FinishLate
    <3>4. CASE b \in as
      <4>1. /\ mailbox'[b] = EmptyBox /\ queued'[b] = EmptyBox
            /\ job'[b] = None /\ hpc'[b] = "gone" /\ undo'[b] = NoChange
        BY <3>2, <3>4
      <4> QED
        BY <3>3, <4>1, EmptyFiled, <1>in, <1>filed DEF FiledAt
    <3>5. CASE b \notin as
      <4>1. /\ mailbox'[b] = mailbox[b] /\ queued'[b] = queued[b] /\ job'[b] = job[b]
            /\ hpc'[b] = hpc[b] /\ undo'[b] = undo[b] /\ why'[b] = why[b]
        BY <3>2, <3>5
      <4>2. \A m \in Messages : message[m].to = b => answer'[m] = answer[m]
        BY <3>2, <3>5
      <4> QED
        BY <3>3, <4>1, <4>2, <1>in, <1>types, <1>filed DEF FiledAt
    <3> QED
      BY <3>4, <3>5
  <2>2. ASSUME SpawnReserveId(c) \/ SpawnFails(c) \/ SpawnReturns(c) \/ (\E a \in
              Agents : SpawnInsert(c, a)) \/ (\E a \in Agents : SpawnLaunch(c, a))
              \/ StopSend(c) \/ InterruptReturns(c) \/ CloseInactive(c) \/
              FinishClose(c) \/ CloseReturns(c) \/ SendCommit(c) \/ SendReturns(c)
              \/ CallDropped(c)
       PROVE  FiledAt(b)'
    <3>1. UNCHANGED <<queued, mailbox, message>>
      BY <2>2
      DEF SpawnReserveId, harnessVars, channelVars, messageVars, SpawnFails,
         SpawnReturns, OnlyCalls, SpawnInsert, SpawnLaunch, StopSend,
         InterruptReturns, CloseInactive, FinishClose, CloseReturns,
         SendCommit, SendReturns, CallDropped
    <3> QED BY <3>1, <1>types, <1>filed  DEF FiledAt
  <2> QED BY <1>3, <2>1, <2>2 DEF CallStep
<1>4. ASSUME NEW c \in Calls, NEW session \in Sessions, CallBegins(c, session) PROVE FiledAt(b)'
  <2>1. ASSUME NEW a \in Agents, NEW urgent \in BOOLEAN, NEW delegate \in BOOLEAN, SendPrepare(c, session, a, urgent, delegate) PROVE FiledAt(b)'
    <3>1. PICK m \in Messages : Posted(a, m)
      BY <2>1, SendPosts
    <3>2. /\ message'[m].to = a /\ commit'[m] = "wait" /\ answer'[m] = "none" /\ given'[m] = 0
          /\ UNCHANGED <<hpc, why, job, undo, queued, task, answer, record, given>>
      BY <3>1, <1>each DEF Posted, MessageAt
    <3>3. \A n \in Messages : commit[n] # "unsent" =>
            n # m /\ n < m /\ message'[n] = message[n] /\ commit'[n] = commit[n]
      BY <3>1 DEF Posted
    <3>4. \A d \in Agents : /\ \A n \in InBox(mailbox[d]) : commit[n] # "unsent" /\ message[n].to = d
                            /\ \A n \in InBox(queued[d]) : commit[n] # "unsent" /\ message[n].to = d
                            /\ job[d] # None => commit[job[d]] # "unsent" /\ message[job[d]].to = d
      BY <1>mail, <1>queue, <1>job DEF MailAt, QueueAt, JobIs, Fresh, Accepted
    <3>5. \A d \in Agents : /\ \A n \in InBox(mailbox'[d]) : n \in InBox(mailbox[d]) \/ (n = m /\ d = a)
                            /\ Filed(message', mailbox'[d]) /\ Filed(message', queued[d])
      BY <3>1 DEF Posted
    <3> QED
      BY <3>2, <3>3, <3>4, <3>5, <1>in, <1>types, <1>filed DEF FiledAt
  <2>2. ASSUME SpawnReserveTurn(c, session) \/ (\E operation \in Stops, target \in
              Sessions : StopRequest(c, session, operation, target))
       PROVE  FiledAt(b)'
    <3>1. UNCHANGED <<queued, mailbox, message>>
      BY <2>2
      DEF SpawnReserveTurn, harnessVars, channelVars, messageVars, StopRequest
    <3> QED BY <3>1, <1>types, <1>filed  DEF FiledAt
  <2> QED BY <1>4, <2>1, <2>2 DEF CallBegins
<1>5. ASSUME Disturbance PROVE FiledAt(b)'
  <2>1. ASSUME (\E c \in Calls : StopTimesOut(c)) \/ (\E c \in Calls :
              JoinTimesOut(c)) \/ (\E a \in Agents : Submit(a)) \/ (\E a \in Agents
              : DriverDies(a)) \/ (\E n \in Limits : SetLimit(n))
       PROVE  FiledAt(b)'
    <3>1. UNCHANGED <<queued, mailbox, message>>
      BY <2>1
      DEF StopTimesOut, OnlyCalls, channelVars, harnessVars, messageVars,
         JoinTimesOut, Submit, DriverDies, SetLimit
    <3> QED BY <3>1, <1>types, <1>filed  DEF FiledAt
  <2> QED BY <1>5, <2>1 DEF Disturbance
<1> QED BY <1>1, <1>2, <1>3, <1>4, <1>5 DEF Next

(* What is in a channel was sent to its child, and nobody has answered it. *)
LEMMA MailKept ==
  ASSUME IInv, MInv, NEW b \in Agents, Next
  PROVE  MailAt(b)'
<1>types. /\ hpc \in [Agents -> HarnessPoints] /\ why \in [Agents -> Reasons]
          /\ job \in [Agents -> {None} \cup Messages]
          /\ undo \in [Agents -> {None, NoChange} \cup Messages]
          /\ task \in [Agents -> {None} \cup Messages]
          /\ mailbox \in [Agents -> Boxes] /\ queued \in [Agents -> Boxes]
          /\ commit \in [Messages -> {"unsent", "wait", "yes", "dropped"}]
          /\ answer \in [Messages -> {"none", "ok", "error", "dropped"}]
          /\ record \in [Messages -> {"none", "pending", "settled", "removed"}]
          /\ given \in [Messages -> Nat]
  BY DEF IInv, TypeInv, HarnessTypes, SessionTypes, ChannelTypes, MessageTypes
<1>in. /\ \A a \in Agents : InBox(mailbox[a]) \subseteq Messages /\ InBox(queued[a]) \subseteq Messages
       /\ None \notin Messages /\ NoChange \notin Messages /\ InBox(EmptyBox) = {}
  BY Placed
<1>mail. \A a \in Agents : MailAt(a) 
  BY DEF MInv, BoxesAt
<1>queue. \A a \in Agents : QueueAt(a) 
  BY DEF MInv, BoxesAt
<1>job. \A a \in Agents : JobIs(a) 
  BY DEF MInv, JobAt
<1>apart. \A a, c \in Agents :
    /\ \A m \in InBox(mailbox[a]) :
         m \notin InBox(queued[c]) /\ m # job[c] /\ (m \in InBox(mailbox[c]) => a = c)
    /\ \A m \in InBox(queued[a]) : m # job[c] /\ (m \in InBox(queued[c]) => a = c)
    /\ job[a] # None /\ job[a] = job[c] => a = c
  BY AreApart DEF Apart
<1>each. \A m \in Messages : MessageAt(m)
  BY DEF MInv
<1>works. \A a \in Agents : /\ hpc[a] \in {"accept", "steering"} => job[a] \in Messages
                            /\ hpc[a] = "prompting" /\ why[a] # "start" => job[a] \in Messages
                            /\ hpc[a] \notin {"accept", "steering", "prompting"} => job[a] = None
  BY DEF IInv, TypeInv, JobInv, MInv, JobAt, JobIs
<1>why. \A a \in Agents : 
          /\ hpc[a] = "prompting" => why[a] \in {"start", "deliver", "pending"}
          /\ hpc[a] \in {"select", "accept", "steering", "pending"} => why[a] = "none"
  BY DEF IInv, HarnessInv, WhyAt, Stopping
<1>sends. \A c \in Calls : 
            /\ cpc[c] = "send_commit" => sent[c] \in Messages /\ commit[sent[c]] = "wait"
            /\ cpc[c] = "send_wait" => sent[c] \in Messages /\ commit[sent[c]] = "yes"
            /\ cpc[c] = "send_commit" => \A m \in Messages : m > sent[c] => commit[m] = "unsent"
  BY DEF IInv, TypeInv, LockInv
<1>1. ASSUME NEW a \in Agents, HarnessStep(a) PROVE MailAt(b)'
  <2>1. CASE PromptAccepted(a)
    BY <2>1, <1>types, <1>in, <1>mail, <1>job, <1>apart, <1>each, <1>works,
       <1>why, <1>sends
    DEF MailAt, Fresh, JobIs, MessageAt, Accepted, PromptAccepted, None,
       channelVars, NoChange, Settle, Admit, Give
  <2>2. CASE PromptFailed(a)
    BY <2>2, <1>types, <1>in, <1>mail, <1>job, <1>apart, <1>each, <1>works,
       <1>why, <1>sends
    DEF MailAt, Fresh, JobIs, MessageAt, Accepted, PromptFailed, None,
       channelVars, Settle, Refuse, RollBack
  <2>3. CASE TakeDelivery(a)
    BY <2>3, <1>types, <1>in, <1>mail, <1>job, <1>apart, <1>each, <1>works,
       <1>why, <1>sends, MailTaken
    DEF MailAt, Fresh, JobIs, MessageAt, Accepted, TakeDelivery, messageVars,
       EmptyBox, NoCommand
  <2>4. ASSUME NEW m \in Messages, DeliverStart(a, m) PROVE MailAt(b)'
    BY <2>4, <1>types, <1>in, <1>mail, <1>job, <1>apart, <1>each, <1>works,
       <1>why, <1>sends
    DEF MailAt, Fresh, JobIs, MessageAt, Accepted, DeliverStart, None,
       channelVars, CanStartTurn, Refuse, Accepting, Steerable, CanDeliver,
       Startable, RollBack, EmptyBox, CanReserve
  <2>5. ASSUME NEW m \in Messages, DeliverQueue(a, m) PROVE MailAt(b)'
    <3>1. PICK box :
               /\ InBox(box) = InBox(queued[a]) \cup {job[a]} /\ Filed(message, box)
               /\ hpc' = [hpc EXCEPT ![a] = "select"] /\ job' = [job EXCEPT ![a] = None]
               /\ \/ /\ queued' = [queued EXCEPT ![a] = box]
                     /\ answer' = [answer EXCEPT ![job[a]] = "ok"] /\ record' = record
                  \/ /\ queued' = queued
                     /\ answer' = [answer EXCEPT ![job[a]] = "error"]
                     /\ record' = [record EXCEPT ![job[a]] = "removed"]
      BY <2>5, DeliveryQueued DEF DeliverQueue, Accepting
    <3>2. /\ hpc[a] \in {"accept", "steering"} /\ job[a] \in Messages /\ commit[job[a]] = "yes" /\ why[a] = "none"
          /\ Fresh(job[a]) /\ message[job[a]].to = a
          /\ UNCHANGED <<why, mailbox, message, commit, given>>
      BY <2>5, <1>works, <1>job, <1>why, <1>in DEF DeliverQueue, Accepting, channelVars, JobIs
    <3>3. \A n \in Messages : n # job[a] => answer'[n] = answer[n] /\ record'[n] = record[n]
      BY <3>1, <3>2, <1>types
    <3>4. \A d \in Agents : d # a => queued'[d] = queued[d] /\ hpc'[d] = hpc[d] /\ job'[d] = job[d] /\ job[d] # job[a]
      BY <3>1, <3>2, <1>types, <1>apart, <1>in
    <3>5. /\ hpc'[a] = "select" /\ job'[a] = None
          /\ \/ queued'[a] = box /\ answer'[job[a]] = "ok" /\ record'[job[a]] = record[job[a]]
             \/ queued'[a] = queued[a] /\ answer'[job[a]] = "error" /\ record'[job[a]] = "removed"
      BY <3>1, <3>2, <1>types
    <3>6. InBox(box) = InBox(queued[a]) \cup {job[a]} /\ Filed(message, box)
      BY <3>1
    <3> QED
      BY <3>2, <3>3, <3>4, <3>5, <3>6, <1>types, <1>in, <1>mail, <1>job, <1>apart, <1>each, <1>works, <1>why, <1>sends DEF MailAt, Fresh, JobIs, MessageAt, Accepted
  <2>6. CASE SteerAdmitted(a)
    BY <2>6, <1>types, <1>in, <1>mail, <1>job, <1>apart, <1>each, <1>works,
       <1>why, <1>sends
    DEF MailAt, Fresh, JobIs, MessageAt, Accepted, SteerAdmitted, None,
       channelVars, NoChange, Settle, Admit, Give
  <2>7. CASE SteerRefused(a)
    <3>1. PICK box :
               /\ InBox(box) = InBox(queued[a]) \cup {job[a]} /\ Filed(message, box)
               /\ hpc' = [hpc EXCEPT ![a] = "select"] /\ job' = [job EXCEPT ![a] = None]
               /\ \/ /\ queued' = [queued EXCEPT ![a] = box]
                     /\ answer' = [answer EXCEPT ![job[a]] = "ok"] /\ record' = record
                  \/ /\ queued' = queued
                     /\ answer' = [answer EXCEPT ![job[a]] = "error"]
                     /\ record' = [record EXCEPT ![job[a]] = "removed"]
      BY <2>7, DeliveryQueued DEF SteerRefused
    <3>2. /\ hpc[a] \in {"accept", "steering"} /\ job[a] \in Messages /\ commit[job[a]] = "yes" /\ why[a] = "none"
          /\ Fresh(job[a]) /\ message[job[a]].to = a
          /\ UNCHANGED <<why, mailbox, message, commit, given>>
      BY <2>7, <1>works, <1>job, <1>why, <1>in DEF SteerRefused, channelVars, JobIs
    <3>3. \A n \in Messages : n # job[a] => answer'[n] = answer[n] /\ record'[n] = record[n]
      BY <3>1, <3>2, <1>types
    <3>4. \A d \in Agents : d # a => queued'[d] = queued[d] /\ hpc'[d] = hpc[d] /\ job'[d] = job[d] /\ job[d] # job[a]
      BY <3>1, <3>2, <1>types, <1>apart, <1>in
    <3>5. /\ hpc'[a] = "select" /\ job'[a] = None
          /\ \/ queued'[a] = box /\ answer'[job[a]] = "ok" /\ record'[job[a]] = record[job[a]]
             \/ queued'[a] = queued[a] /\ answer'[job[a]] = "error" /\ record'[job[a]] = "removed"
      BY <3>1, <3>2, <1>types
    <3>6. InBox(box) = InBox(queued[a]) \cup {job[a]} /\ Filed(message, box)
      BY <3>1
    <3> QED
      BY <3>2, <3>3, <3>4, <3>5, <3>6, <1>types, <1>in, <1>mail, <1>job, <1>apart, <1>each, <1>works, <1>why, <1>sends DEF MailAt, Fresh, JobIs, MessageAt, Accepted
  <2>8. CASE SteerFailed(a)
    BY <2>8, <1>types, <1>in, <1>mail, <1>job, <1>apart, <1>each, <1>works,
       <1>why, <1>sends
    DEF MailAt, Fresh, JobIs, MessageAt, Accepted, SteerFailed, None,
       channelVars, Refuse, RollBack
  <2>9. CASE StartPending(a)
    BY <2>9, <1>types, <1>in, <1>mail, <1>job, <1>apart, <1>each, <1>works,
       <1>why, <1>sends, QueueTaken
    DEF MailAt, Fresh, JobIs, MessageAt, Accepted, StartPending, channelVars,
       EmptyBox, CanReserve, CanStartTurn, Settle, Startable
  <2>10. CASE RejectWaiting(a)
    <3>1. PICK m \in InBox(mailbox[a]) :
               /\ InBox(mailbox'[a]) = InBox(mailbox[a]) \ {m}
               /\ Filed(message, mailbox'[a])
               /\ \A d \in Agents : d # a => mailbox'[d] = mailbox[d]
               /\ m \in Messages
               /\ \A n \in Messages : n # m => answer'[n] = answer[n] /\ record'[n] = record[n]
               /\ \/ commit[m] = "yes" /\ answer'[m] = "error" /\ record'[m] = "removed"
                  \/ commit[m] = "dropped" /\ answer'[m] = answer[m] /\ record'[m] = record[m]
      BY <2>10, WaitingRejected
    <3>2. UNCHANGED <<message, commit, given, hpc, queued, job, why, task, undo>>
      BY <2>10 DEF RejectWaiting, sessionVars, harnessVars, stepVars
    <3>3. \A d \in Agents : /\ InBox(mailbox'[d]) \subseteq InBox(mailbox[d]) 
                            /\ m \notin InBox(mailbox'[d]) /\ m \notin InBox(queued[d]) /\ m # job[d]
      BY <3>1, <1>apart
    <3> QED
      BY <3>1, <3>2, <3>3, <1>types, <1>in, <1>mail, <1>job, <1>apart, <1>each, <1>works, <1>why, <1>sends DEF MailAt, Fresh, JobIs, MessageAt, Accepted
  <2>11. CASE AllRejected(a)
    BY <2>11, <1>types, <1>in, <1>mail, <1>job, <1>apart, <1>each, <1>works,
       <1>why, <1>sends
    DEF MailAt, Fresh, JobIs, MessageAt, Accepted, AllRejected, channelVars,
       FailPending, EmptyBox
  <2>12. CASE HarnessClosed(a)
    <3>1. PICK as \in SUBSET Agents : CleanUp(as)
      BY <2>12, LateCleans DEF HarnessClosed
    <3>2. /\ \A d \in as : /\ mailbox'[d] = EmptyBox /\ queued'[d] = EmptyBox
                           /\ job'[d] = None /\ hpc'[d] = "gone" /\ undo'[d] = NoChange
          /\ \A d \in Agents \ as :
               /\ mailbox'[d] = mailbox[d] /\ queued'[d] = queued[d] /\ job'[d] = job[d]
               /\ hpc'[d] = hpc[d] /\ undo'[d] = undo[d] /\ why'[d] = why[d]
          /\ \A m \in Messages :
               \/ answer'[m] = answer[m]
               \/ /\ message[m].to \in as /\ commit[m] # "unsent"
                  /\ answer[m] = "none" /\ answer'[m] = "dropped"
          /\ \A d \in as : \A m \in InBox(mailbox[d]) : answer'[m] = "dropped"
      BY <3>1, CleanedUp
    <3>3. UNCHANGED <<message, commit, record, given, task>>
      BY <2>12 DEF HarnessClosed
    <3>4. CASE b \in as
      <4>1. /\ mailbox'[b] = EmptyBox /\ queued'[b] = EmptyBox
            /\ job'[b] = None /\ hpc'[b] = "gone" /\ undo'[b] = NoChange
        BY <3>2, <3>4
      <4> QED
        BY <3>3, <4>1, EmptyFiled, <1>in, <1>mail DEF MailAt, Fresh, JobIs, MessageAt, Accepted
    <3>5. CASE b \notin as
      <4>1. /\ mailbox'[b] = mailbox[b] /\ queued'[b] = queued[b] /\ job'[b] = job[b]
            /\ hpc'[b] = hpc[b] /\ undo'[b] = undo[b] /\ why'[b] = why[b]
        BY <3>2, <3>5
      <4>2. \A m \in Messages : message[m].to = b => answer'[m] = answer[m]
        BY <3>2, <3>5
      <4> QED
        BY <3>3, <4>1, <4>2, <1>in, <1>types, <1>mail DEF MailAt, Fresh, JobIs, MessageAt, Accepted
    <3> QED
      BY <3>4, <3>5
  <2>13. ASSUME TakeStart(a) \/ Abandoned(a) \/ (\E m \in Messages : Steer(a, m)) \/
              CapacityChanged(a) \/ StopPending(a) \/ TurnFinished(a) \/ Publish(a)
              \/ TakeStop(a) \/ UrgentRejected(a) \/ Shutdown(a) \/ FinishActive(a)
              \/ Release(a)
       PROVE  MailAt(b)'
    <3>1. UNCHANGED <<mailbox, message, commit, answer, record, given>>
      BY <2>13
      DEF TakeStart, messageVars, Abandoned, channelVars, Steer,
         CapacityChanged, StopPending, TurnFinished, Publish, TakeStop,
         UrgentRejected, Shutdown, FinishActive, Release
    <3> QED BY <3>1, <1>types, <1>in, <1>mail, <1>job, <1>apart, <1>each,
       <1>works, <1>why, <1>sends  DEF MailAt, Fresh, JobIs, MessageAt, Accepted
  <2> QED BY <1>1, <2>1, <2>2, <2>3, <2>4, <2>5, <2>6, <2>7, <2>8, <2>9,
   <2>10, <2>11, <2>12, <2>13 DEF HarnessStep
<1>2. ASSUME NEW a \in Agents, LibraryStep(a) PROVE MailAt(b)'
  <2>1. ASSUME (\E result \in Outcomes : TurnEnds(a, result)) \/ EventsEnd(a) \/
              EventsDone(a)
       PROVE  MailAt(b)'
    <3>1. UNCHANGED <<mailbox, message, commit, answer, record, given>>
      BY <2>1
      DEF TurnEnds, channelVars, messageVars, EventsEnd, EventsDone
    <3> QED BY <3>1, <1>types, <1>in, <1>mail, <1>job, <1>apart, <1>each,
       <1>works, <1>why, <1>sends  DEF MailAt, Fresh, JobIs, MessageAt, Accepted
  <2> QED BY <1>2, <2>1 DEF LibraryStep
<1>3. ASSUME NEW c \in Calls, CallStep(c) \/ CallDropped(c) PROVE MailAt(b)'
  <2>1. CASE FinishLate(c)
    <3>1. PICK as \in SUBSET Agents : CleanUp(as)
      BY <2>1, LateCleans DEF FinishLate
    <3>2. /\ \A d \in as : /\ mailbox'[d] = EmptyBox /\ queued'[d] = EmptyBox
                           /\ job'[d] = None /\ hpc'[d] = "gone" /\ undo'[d] = NoChange
          /\ \A d \in Agents \ as :
               /\ mailbox'[d] = mailbox[d] /\ queued'[d] = queued[d] /\ job'[d] = job[d]
               /\ hpc'[d] = hpc[d] /\ undo'[d] = undo[d] /\ why'[d] = why[d]
          /\ \A m \in Messages :
               \/ answer'[m] = answer[m]
               \/ /\ message[m].to \in as /\ commit[m] # "unsent"
                  /\ answer[m] = "none" /\ answer'[m] = "dropped"
          /\ \A d \in as : \A m \in InBox(mailbox[d]) : answer'[m] = "dropped"
      BY <3>1, CleanedUp
    <3>3. UNCHANGED <<message, commit, record, given, task>>
      BY <2>1 DEF FinishLate
    <3>4. CASE b \in as
      <4>1. /\ mailbox'[b] = EmptyBox /\ queued'[b] = EmptyBox
            /\ job'[b] = None /\ hpc'[b] = "gone" /\ undo'[b] = NoChange
        BY <3>2, <3>4
      <4> QED
        BY <3>3, <4>1, EmptyFiled, <1>in, <1>mail DEF MailAt, Fresh, JobIs, MessageAt, Accepted
    <3>5. CASE b \notin as
      <4>1. /\ mailbox'[b] = mailbox[b] /\ queued'[b] = queued[b] /\ job'[b] = job[b]
            /\ hpc'[b] = hpc[b] /\ undo'[b] = undo[b] /\ why'[b] = why[b]
        BY <3>2, <3>5
      <4>2. \A m \in Messages : message[m].to = b => answer'[m] = answer[m]
        BY <3>2, <3>5
      <4> QED
        BY <3>3, <4>1, <4>2, <1>in, <1>types, <1>mail DEF MailAt, Fresh, JobIs, MessageAt, Accepted
    <3> QED
      BY <3>4, <3>5
  <2>2. CASE SendCommit(c)
    BY <2>2, <1>types, <1>in, <1>mail, <1>job, <1>apart, <1>each, <1>works,
       <1>why, <1>sends
    DEF MailAt, Fresh, JobIs, MessageAt, Accepted, SendCommit, channelVars
  <2>3. CASE SendReturns(c)
    BY <2>3, <1>types, <1>in, <1>mail, <1>job, <1>apart, <1>each, <1>works,
       <1>why, <1>sends
    DEF MailAt, Fresh, JobIs, MessageAt, Accepted, SendReturns, channelVars,
       RollBack, Delivered
  <2>4. CASE CallDropped(c)
    BY <2>4, <1>types, <1>in, <1>mail, <1>job, <1>apart, <1>each, <1>works,
       <1>why, <1>sends
    DEF MailAt, Fresh, JobIs, MessageAt, Accepted, CallDropped, Root,
       channelVars, Holding
  <2>5. ASSUME SpawnReserveId(c) \/ SpawnFails(c) \/ SpawnReturns(c) \/ (\E a \in
              Agents : SpawnInsert(c, a)) \/ (\E a \in Agents : SpawnLaunch(c, a))
              \/ StopSend(c) \/ InterruptReturns(c) \/ CloseInactive(c) \/
              FinishClose(c) \/ CloseReturns(c)
       PROVE  MailAt(b)'
    <3>1. UNCHANGED <<mailbox, message, commit, answer, record, given>>
      BY <2>5
      DEF SpawnReserveId, channelVars, messageVars, SpawnFails, SpawnReturns,
         OnlyCalls, SpawnInsert, SpawnLaunch, StopSend, InterruptReturns,
         CloseInactive, FinishClose, CloseReturns
    <3> QED BY <3>1, <1>types, <1>in, <1>mail, <1>job, <1>apart, <1>each,
       <1>works, <1>why, <1>sends  DEF MailAt, Fresh, JobIs, MessageAt, Accepted
  <2> QED BY <1>3, <2>1, <2>2, <2>3, <2>4, <2>5 DEF CallStep
<1>4. ASSUME NEW c \in Calls, NEW session \in Sessions, CallBegins(c, session) PROVE MailAt(b)'
  <2>1. ASSUME NEW a \in Agents, NEW urgent \in BOOLEAN, NEW delegate \in BOOLEAN, SendPrepare(c, session, a, urgent, delegate) PROVE MailAt(b)'
    <3>1. PICK m \in Messages : Posted(a, m)
      BY <2>1, SendPosts
    <3>2. /\ message'[m].to = a /\ commit'[m] = "wait" /\ answer'[m] = "none" /\ given'[m] = 0
          /\ UNCHANGED <<hpc, why, job, undo, queued, task, answer, record, given>>
      BY <3>1, <1>each DEF Posted, MessageAt
    <3>3. \A n \in Messages : commit[n] # "unsent" =>
            n # m /\ n < m /\ message'[n] = message[n] /\ commit'[n] = commit[n]
      BY <3>1 DEF Posted
    <3>4. \A d \in Agents : /\ \A n \in InBox(mailbox[d]) : commit[n] # "unsent" /\ message[n].to = d
                            /\ \A n \in InBox(queued[d]) : commit[n] # "unsent" /\ message[n].to = d
                            /\ job[d] # None => commit[job[d]] # "unsent" /\ message[job[d]].to = d
      BY <1>mail, <1>queue, <1>job DEF MailAt, QueueAt, JobIs, Fresh, Accepted
    <3>5. \A d \in Agents : /\ \A n \in InBox(mailbox'[d]) : n \in InBox(mailbox[d]) \/ (n = m /\ d = a)
                            /\ Filed(message', mailbox'[d]) /\ Filed(message', queued[d])
      BY <3>1 DEF Posted
    <3> QED
      BY <3>2, <3>3, <3>4, <3>5, <1>in, <1>types, <1>mail DEF MailAt, Fresh, JobIs, MessageAt, Accepted
  <2>2. ASSUME SpawnReserveTurn(c, session) \/ (\E operation \in Stops, target \in
              Sessions : StopRequest(c, session, operation, target))
       PROVE  MailAt(b)'
    <3>1. UNCHANGED <<mailbox, message, commit, answer, record, given>>
      BY <2>2
      DEF SpawnReserveTurn, channelVars, messageVars, StopRequest
    <3> QED BY <3>1, <1>types, <1>in, <1>mail, <1>job, <1>apart, <1>each,
       <1>works, <1>why, <1>sends  DEF MailAt, Fresh, JobIs, MessageAt, Accepted
  <2> QED BY <1>4, <2>1, <2>2 DEF CallBegins
<1>5. ASSUME Disturbance PROVE MailAt(b)'
  <2>1. ASSUME (\E c \in Calls : StopTimesOut(c)) \/ (\E c \in Calls :
              JoinTimesOut(c)) \/ (\E a \in Agents : Submit(a)) \/ (\E a \in Agents
              : DriverDies(a)) \/ (\E n \in Limits : SetLimit(n))
       PROVE  MailAt(b)'
    <3>1. UNCHANGED <<mailbox, message, commit, answer, record, given>>
      BY <2>1
      DEF StopTimesOut, OnlyCalls, channelVars, messageVars, JoinTimesOut,
         Submit, DriverDies, SetLimit
    <3> QED BY <3>1, <1>types, <1>in, <1>mail, <1>job, <1>apart, <1>each,
       <1>works, <1>why, <1>sends  DEF MailAt, Fresh, JobIs, MessageAt, Accepted
  <2> QED BY <1>5, <2>1 DEF Disturbance
<1> QED BY <1>1, <1>2, <1>3, <1>4, <1>5 DEF Next

(* What is in a queue was sent to its child, and its sender was told.      *)
LEMMA QueueKept ==
  ASSUME IInv, MInv, NEW b \in Agents, Next
  PROVE  QueueAt(b)'
<1>types. /\ hpc \in [Agents -> HarnessPoints] /\ why \in [Agents -> Reasons]
          /\ job \in [Agents -> {None} \cup Messages]
          /\ undo \in [Agents -> {None, NoChange} \cup Messages]
          /\ task \in [Agents -> {None} \cup Messages]
          /\ mailbox \in [Agents -> Boxes] /\ queued \in [Agents -> Boxes]
          /\ commit \in [Messages -> {"unsent", "wait", "yes", "dropped"}]
          /\ answer \in [Messages -> {"none", "ok", "error", "dropped"}]
          /\ record \in [Messages -> {"none", "pending", "settled", "removed"}]
          /\ given \in [Messages -> Nat]
  BY DEF IInv, TypeInv, HarnessTypes, SessionTypes, ChannelTypes, MessageTypes
<1>in. /\ \A a \in Agents : InBox(mailbox[a]) \subseteq Messages /\ InBox(queued[a]) \subseteq Messages
       /\ None \notin Messages /\ NoChange \notin Messages /\ InBox(EmptyBox) = {}
  BY Placed
<1>mail. \A a \in Agents : MailAt(a) 
  BY DEF MInv, BoxesAt
<1>queue. \A a \in Agents : QueueAt(a) 
  BY DEF MInv, BoxesAt
<1>job. \A a \in Agents : JobIs(a) 
  BY DEF MInv, JobAt
<1>apart. \A a, c \in Agents :
    /\ \A m \in InBox(mailbox[a]) :
         m \notin InBox(queued[c]) /\ m # job[c] /\ (m \in InBox(mailbox[c]) => a = c)
    /\ \A m \in InBox(queued[a]) : m # job[c] /\ (m \in InBox(queued[c]) => a = c)
    /\ job[a] # None /\ job[a] = job[c] => a = c
  BY AreApart DEF Apart
<1>each. \A m \in Messages : MessageAt(m)
  BY DEF MInv
<1>works. \A a \in Agents : /\ hpc[a] \in {"accept", "steering"} => job[a] \in Messages
                            /\ hpc[a] = "prompting" /\ why[a] # "start" => job[a] \in Messages
                            /\ hpc[a] \notin {"accept", "steering", "prompting"} => job[a] = None
  BY DEF IInv, TypeInv, JobInv, MInv, JobAt, JobIs
<1>why. \A a \in Agents : 
          /\ hpc[a] = "prompting" => why[a] \in {"start", "deliver", "pending"}
          /\ hpc[a] \in {"select", "accept", "steering", "pending"} => why[a] = "none"
  BY DEF IInv, HarnessInv, WhyAt, Stopping
<1>sends. \A c \in Calls : 
            /\ cpc[c] = "send_commit" => sent[c] \in Messages /\ commit[sent[c]] = "wait"
            /\ cpc[c] = "send_wait" => sent[c] \in Messages /\ commit[sent[c]] = "yes"
            /\ cpc[c] = "send_commit" => \A m \in Messages : m > sent[c] => commit[m] = "unsent"
  BY DEF IInv, TypeInv, LockInv
<1>1. ASSUME NEW a \in Agents, HarnessStep(a) PROVE QueueAt(b)'
  <2>1. CASE PromptAccepted(a)
    BY <2>1, <1>types, <1>in, <1>queue, <1>job, <1>apart, <1>each, <1>works,
       <1>why, <1>sends
    DEF QueueAt, Accepted, JobIs, MessageAt, Fresh, PromptAccepted, None,
       NoChange, Settle, Admit, Give
  <2>2. CASE PromptFailed(a)
    BY <2>2, <1>types, <1>in, <1>queue, <1>job, <1>apart, <1>each, <1>works,
       <1>why, <1>sends
    DEF QueueAt, Accepted, JobIs, MessageAt, Fresh, PromptFailed, None,
       Settle, Refuse, RollBack
  <2>3. ASSUME NEW m \in Messages, DeliverStart(a, m) PROVE QueueAt(b)'
    BY <2>3, <1>types, <1>in, <1>queue, <1>job, <1>apart, <1>each, <1>works,
       <1>why, <1>sends
    DEF QueueAt, Accepted, JobIs, MessageAt, Fresh, DeliverStart, None,
       CanStartTurn, Refuse, Accepting, Steerable, CanDeliver, Startable,
       RollBack, EmptyBox, CanReserve
  <2>4. ASSUME NEW m \in Messages, DeliverQueue(a, m) PROVE QueueAt(b)'
    <3>1. PICK box :
               /\ InBox(box) = InBox(queued[a]) \cup {job[a]} /\ Filed(message, box)
               /\ hpc' = [hpc EXCEPT ![a] = "select"] /\ job' = [job EXCEPT ![a] = None]
               /\ \/ /\ queued' = [queued EXCEPT ![a] = box]
                     /\ answer' = [answer EXCEPT ![job[a]] = "ok"] /\ record' = record
                  \/ /\ queued' = queued
                     /\ answer' = [answer EXCEPT ![job[a]] = "error"]
                     /\ record' = [record EXCEPT ![job[a]] = "removed"]
      BY <2>4, DeliveryQueued DEF DeliverQueue, Accepting
    <3>2. /\ hpc[a] \in {"accept", "steering"} /\ job[a] \in Messages /\ commit[job[a]] = "yes" /\ why[a] = "none"
          /\ Fresh(job[a]) /\ message[job[a]].to = a
          /\ UNCHANGED <<why, mailbox, message, commit, given>>
      BY <2>4, <1>works, <1>job, <1>why, <1>in DEF DeliverQueue, Accepting, channelVars, JobIs
    <3>3. \A n \in Messages : n # job[a] => answer'[n] = answer[n] /\ record'[n] = record[n]
      BY <3>1, <3>2, <1>types
    <3>4. \A d \in Agents : d # a => queued'[d] = queued[d] /\ hpc'[d] = hpc[d] /\ job'[d] = job[d] /\ job[d] # job[a]
      BY <3>1, <3>2, <1>types, <1>apart, <1>in
    <3>5. /\ hpc'[a] = "select" /\ job'[a] = None
          /\ \/ queued'[a] = box /\ answer'[job[a]] = "ok" /\ record'[job[a]] = record[job[a]]
             \/ queued'[a] = queued[a] /\ answer'[job[a]] = "error" /\ record'[job[a]] = "removed"
      BY <3>1, <3>2, <1>types
    <3>6. InBox(box) = InBox(queued[a]) \cup {job[a]} /\ Filed(message, box)
      BY <3>1
    <3> QED
      BY <3>2, <3>3, <3>4, <3>5, <3>6, <1>types, <1>in, <1>queue, <1>job, <1>apart, <1>each, <1>works, <1>why, <1>sends DEF QueueAt, Accepted, JobIs, MessageAt, Fresh
  <2>5. CASE SteerAdmitted(a)
    BY <2>5, <1>types, <1>in, <1>queue, <1>job, <1>apart, <1>each, <1>works,
       <1>why, <1>sends
    DEF QueueAt, Accepted, JobIs, MessageAt, Fresh, SteerAdmitted, None,
       NoChange, Settle, Admit, Give
  <2>6. CASE SteerRefused(a)
    <3>1. PICK box :
               /\ InBox(box) = InBox(queued[a]) \cup {job[a]} /\ Filed(message, box)
               /\ hpc' = [hpc EXCEPT ![a] = "select"] /\ job' = [job EXCEPT ![a] = None]
               /\ \/ /\ queued' = [queued EXCEPT ![a] = box]
                     /\ answer' = [answer EXCEPT ![job[a]] = "ok"] /\ record' = record
                  \/ /\ queued' = queued
                     /\ answer' = [answer EXCEPT ![job[a]] = "error"]
                     /\ record' = [record EXCEPT ![job[a]] = "removed"]
      BY <2>6, DeliveryQueued DEF SteerRefused
    <3>2. /\ hpc[a] \in {"accept", "steering"} /\ job[a] \in Messages /\ commit[job[a]] = "yes" /\ why[a] = "none"
          /\ Fresh(job[a]) /\ message[job[a]].to = a
          /\ UNCHANGED <<why, mailbox, message, commit, given>>
      BY <2>6, <1>works, <1>job, <1>why, <1>in DEF SteerRefused, channelVars, JobIs
    <3>3. \A n \in Messages : n # job[a] => answer'[n] = answer[n] /\ record'[n] = record[n]
      BY <3>1, <3>2, <1>types
    <3>4. \A d \in Agents : d # a => queued'[d] = queued[d] /\ hpc'[d] = hpc[d] /\ job'[d] = job[d] /\ job[d] # job[a]
      BY <3>1, <3>2, <1>types, <1>apart, <1>in
    <3>5. /\ hpc'[a] = "select" /\ job'[a] = None
          /\ \/ queued'[a] = box /\ answer'[job[a]] = "ok" /\ record'[job[a]] = record[job[a]]
             \/ queued'[a] = queued[a] /\ answer'[job[a]] = "error" /\ record'[job[a]] = "removed"
      BY <3>1, <3>2, <1>types
    <3>6. InBox(box) = InBox(queued[a]) \cup {job[a]} /\ Filed(message, box)
      BY <3>1
    <3> QED
      BY <3>2, <3>3, <3>4, <3>5, <3>6, <1>types, <1>in, <1>queue, <1>job, <1>apart, <1>each, <1>works, <1>why, <1>sends DEF QueueAt, Accepted, JobIs, MessageAt, Fresh
  <2>7. CASE SteerFailed(a)
    BY <2>7, <1>types, <1>in, <1>queue, <1>job, <1>apart, <1>each, <1>works,
       <1>why, <1>sends
    DEF QueueAt, Accepted, JobIs, MessageAt, Fresh, SteerFailed, None, Refuse,
       RollBack
  <2>8. CASE StartPending(a)
    BY <2>8, <1>types, <1>in, <1>queue, <1>job, <1>apart, <1>each, <1>works,
       <1>why, <1>sends, QueueTaken
    DEF QueueAt, Accepted, JobIs, MessageAt, Fresh, StartPending, EmptyBox,
       CanReserve, CanStartTurn, Settle, Startable
  <2>9. CASE RejectWaiting(a)
    <3>1. PICK m \in InBox(mailbox[a]) :
               /\ InBox(mailbox'[a]) = InBox(mailbox[a]) \ {m}
               /\ Filed(message, mailbox'[a])
               /\ \A d \in Agents : d # a => mailbox'[d] = mailbox[d]
               /\ m \in Messages
               /\ \A n \in Messages : n # m => answer'[n] = answer[n] /\ record'[n] = record[n]
               /\ \/ commit[m] = "yes" /\ answer'[m] = "error" /\ record'[m] = "removed"
                  \/ commit[m] = "dropped" /\ answer'[m] = answer[m] /\ record'[m] = record[m]
      BY <2>9, WaitingRejected
    <3>2. UNCHANGED <<message, commit, given, hpc, queued, job, why, task, undo>>
      BY <2>9 DEF RejectWaiting, sessionVars, harnessVars, stepVars
    <3>3. \A d \in Agents : /\ InBox(mailbox'[d]) \subseteq InBox(mailbox[d]) 
                            /\ m \notin InBox(mailbox'[d]) /\ m \notin InBox(queued[d]) /\ m # job[d]
      BY <3>1, <1>apart
    <3> QED
      BY <3>1, <3>2, <3>3, <1>types, <1>in, <1>queue, <1>job, <1>apart, <1>each, <1>works, <1>why, <1>sends DEF QueueAt, Accepted, JobIs, MessageAt, Fresh
  <2>10. CASE AllRejected(a)
    BY <2>10, <1>types, <1>in, <1>queue, <1>job, <1>apart, <1>each, <1>works,
       <1>why, <1>sends
    DEF QueueAt, Accepted, JobIs, MessageAt, Fresh, AllRejected, FailPending,
       EmptyBox
  <2>11. CASE HarnessClosed(a)
    <3>1. PICK as \in SUBSET Agents : CleanUp(as)
      BY <2>11, LateCleans DEF HarnessClosed
    <3>2. /\ \A d \in as : /\ mailbox'[d] = EmptyBox /\ queued'[d] = EmptyBox
                           /\ job'[d] = None /\ hpc'[d] = "gone" /\ undo'[d] = NoChange
          /\ \A d \in Agents \ as :
               /\ mailbox'[d] = mailbox[d] /\ queued'[d] = queued[d] /\ job'[d] = job[d]
               /\ hpc'[d] = hpc[d] /\ undo'[d] = undo[d] /\ why'[d] = why[d]
          /\ \A m \in Messages :
               \/ answer'[m] = answer[m]
               \/ /\ message[m].to \in as /\ commit[m] # "unsent"
                  /\ answer[m] = "none" /\ answer'[m] = "dropped"
          /\ \A d \in as : \A m \in InBox(mailbox[d]) : answer'[m] = "dropped"
      BY <3>1, CleanedUp
    <3>3. UNCHANGED <<message, commit, record, given, task>>
      BY <2>11 DEF HarnessClosed
    <3>4. CASE b \in as
      <4>1. /\ mailbox'[b] = EmptyBox /\ queued'[b] = EmptyBox
            /\ job'[b] = None /\ hpc'[b] = "gone" /\ undo'[b] = NoChange
        BY <3>2, <3>4
      <4> QED
        BY <3>3, <4>1, EmptyFiled, <1>in, <1>queue DEF QueueAt, Accepted, JobIs, MessageAt, Fresh
    <3>5. CASE b \notin as
      <4>1. /\ mailbox'[b] = mailbox[b] /\ queued'[b] = queued[b] /\ job'[b] = job[b]
            /\ hpc'[b] = hpc[b] /\ undo'[b] = undo[b] /\ why'[b] = why[b]
        BY <3>2, <3>5
      <4>2. \A m \in Messages : message[m].to = b => answer'[m] = answer[m]
        BY <3>2, <3>5
      <4> QED
        BY <3>3, <4>1, <4>2, <1>in, <1>types, <1>queue DEF QueueAt, Accepted, JobIs, MessageAt, Fresh
    <3> QED
      BY <3>4, <3>5
  <2>12. ASSUME TakeStart(a) \/ TakeDelivery(a) \/ Abandoned(a) \/ (\E m \in Messages
              : Steer(a, m)) \/ CapacityChanged(a) \/ StopPending(a) \/
              TurnFinished(a) \/ Publish(a) \/ TakeStop(a) \/ UrgentRejected(a) \/
              Shutdown(a) \/ FinishActive(a) \/ Release(a)
       PROVE  QueueAt(b)'
    <3>1. UNCHANGED <<queued, message, commit, answer, record, given>>
      BY <2>12
      DEF TakeStart, messageVars, TakeDelivery, Abandoned, Steer,
         CapacityChanged, StopPending, TurnFinished, Publish, TakeStop,
         UrgentRejected, Shutdown, FinishActive, Release
    <3> QED BY <3>1, <1>types, <1>in, <1>queue, <1>job, <1>apart, <1>each,
       <1>works, <1>why, <1>sends  DEF QueueAt, Accepted, JobIs, MessageAt, Fresh
  <2> QED BY <1>1, <2>1, <2>2, <2>3, <2>4, <2>5, <2>6, <2>7, <2>8, <2>9,
   <2>10, <2>11, <2>12 DEF HarnessStep
<1>2. ASSUME NEW a \in Agents, LibraryStep(a) PROVE QueueAt(b)'
  <2>1. ASSUME (\E result \in Outcomes : TurnEnds(a, result)) \/ EventsEnd(a) \/
              EventsDone(a)
       PROVE  QueueAt(b)'
    <3>1. UNCHANGED <<queued, message, commit, answer, record, given>>
      BY <2>1
      DEF TurnEnds, messageVars, EventsEnd, harnessVars, EventsDone
    <3> QED BY <3>1, <1>types, <1>in, <1>queue, <1>job, <1>apart, <1>each,
       <1>works, <1>why, <1>sends  DEF QueueAt, Accepted, JobIs, MessageAt, Fresh
  <2> QED BY <1>2, <2>1 DEF LibraryStep
<1>3. ASSUME NEW c \in Calls, CallStep(c) \/ CallDropped(c) PROVE QueueAt(b)'
  <2>1. CASE FinishLate(c)
    <3>1. PICK as \in SUBSET Agents : CleanUp(as)
      BY <2>1, LateCleans DEF FinishLate
    <3>2. /\ \A d \in as : /\ mailbox'[d] = EmptyBox /\ queued'[d] = EmptyBox
                           /\ job'[d] = None /\ hpc'[d] = "gone" /\ undo'[d] = NoChange
          /\ \A d \in Agents \ as :
               /\ mailbox'[d] = mailbox[d] /\ queued'[d] = queued[d] /\ job'[d] = job[d]
               /\ hpc'[d] = hpc[d] /\ undo'[d] = undo[d] /\ why'[d] = why[d]
          /\ \A m \in Messages :
               \/ answer'[m] = answer[m]
               \/ /\ message[m].to \in as /\ commit[m] # "unsent"
                  /\ answer[m] = "none" /\ answer'[m] = "dropped"
          /\ \A d \in as : \A m \in InBox(mailbox[d]) : answer'[m] = "dropped"
      BY <3>1, CleanedUp
    <3>3. UNCHANGED <<message, commit, record, given, task>>
      BY <2>1 DEF FinishLate
    <3>4. CASE b \in as
      <4>1. /\ mailbox'[b] = EmptyBox /\ queued'[b] = EmptyBox
            /\ job'[b] = None /\ hpc'[b] = "gone" /\ undo'[b] = NoChange
        BY <3>2, <3>4
      <4> QED
        BY <3>3, <4>1, EmptyFiled, <1>in, <1>queue DEF QueueAt, Accepted, JobIs, MessageAt, Fresh
    <3>5. CASE b \notin as
      <4>1. /\ mailbox'[b] = mailbox[b] /\ queued'[b] = queued[b] /\ job'[b] = job[b]
            /\ hpc'[b] = hpc[b] /\ undo'[b] = undo[b] /\ why'[b] = why[b]
        BY <3>2, <3>5
      <4>2. \A m \in Messages : message[m].to = b => answer'[m] = answer[m]
        BY <3>2, <3>5
      <4> QED
        BY <3>3, <4>1, <4>2, <1>in, <1>types, <1>queue DEF QueueAt, Accepted, JobIs, MessageAt, Fresh
    <3> QED
      BY <3>4, <3>5
  <2>2. CASE SendCommit(c)
    BY <2>2, <1>types, <1>in, <1>queue, <1>job, <1>apart, <1>each, <1>works,
       <1>why, <1>sends
    DEF QueueAt, Accepted, JobIs, MessageAt, Fresh, SendCommit, harnessVars
  <2>3. CASE SendReturns(c)
    BY <2>3, <1>types, <1>in, <1>queue, <1>job, <1>apart, <1>each, <1>works,
       <1>why, <1>sends
    DEF QueueAt, Accepted, JobIs, MessageAt, Fresh, SendReturns, harnessVars,
       RollBack, Delivered
  <2>4. CASE CallDropped(c)
    BY <2>4, <1>types, <1>in, <1>queue, <1>job, <1>apart, <1>each, <1>works,
       <1>why, <1>sends
    DEF QueueAt, Accepted, JobIs, MessageAt, Fresh, CallDropped, Root,
       harnessVars, Holding
  <2>5. ASSUME SpawnReserveId(c) \/ SpawnFails(c) \/ SpawnReturns(c) \/ (\E a \in
              Agents : SpawnInsert(c, a)) \/ (\E a \in Agents : SpawnLaunch(c, a))
              \/ StopSend(c) \/ InterruptReturns(c) \/ CloseInactive(c) \/
              FinishClose(c) \/ CloseReturns(c)
       PROVE  QueueAt(b)'
    <3>1. UNCHANGED <<queued, message, commit, answer, record, given>>
      BY <2>5
      DEF SpawnReserveId, harnessVars, messageVars, SpawnFails, SpawnReturns,
         OnlyCalls, SpawnInsert, SpawnLaunch, StopSend, InterruptReturns,
         CloseInactive, FinishClose, CloseReturns
    <3> QED BY <3>1, <1>types, <1>in, <1>queue, <1>job, <1>apart, <1>each,
       <1>works, <1>why, <1>sends  DEF QueueAt, Accepted, JobIs, MessageAt, Fresh
  <2> QED BY <1>3, <2>1, <2>2, <2>3, <2>4, <2>5 DEF CallStep
<1>4. ASSUME NEW c \in Calls, NEW session \in Sessions, CallBegins(c, session) PROVE QueueAt(b)'
  <2>1. ASSUME NEW a \in Agents, NEW urgent \in BOOLEAN, NEW delegate \in BOOLEAN, SendPrepare(c, session, a, urgent, delegate) PROVE QueueAt(b)'
    <3>1. PICK m \in Messages : Posted(a, m)
      BY <2>1, SendPosts
    <3>2. /\ message'[m].to = a /\ commit'[m] = "wait" /\ answer'[m] = "none" /\ given'[m] = 0
          /\ UNCHANGED <<hpc, why, job, undo, queued, task, answer, record, given>>
      BY <3>1, <1>each DEF Posted, MessageAt
    <3>3. \A n \in Messages : commit[n] # "unsent" =>
            n # m /\ n < m /\ message'[n] = message[n] /\ commit'[n] = commit[n]
      BY <3>1 DEF Posted
    <3>4. \A d \in Agents : /\ \A n \in InBox(mailbox[d]) : commit[n] # "unsent" /\ message[n].to = d
                            /\ \A n \in InBox(queued[d]) : commit[n] # "unsent" /\ message[n].to = d
                            /\ job[d] # None => commit[job[d]] # "unsent" /\ message[job[d]].to = d
      BY <1>mail, <1>queue, <1>job DEF MailAt, QueueAt, JobIs, Fresh, Accepted
    <3>5. \A d \in Agents : /\ \A n \in InBox(mailbox'[d]) : n \in InBox(mailbox[d]) \/ (n = m /\ d = a)
                            /\ Filed(message', mailbox'[d]) /\ Filed(message', queued[d])
      BY <3>1 DEF Posted
    <3> QED
      BY <3>2, <3>3, <3>4, <3>5, <1>in, <1>types, <1>queue DEF QueueAt, Accepted, JobIs, MessageAt, Fresh
  <2>2. ASSUME SpawnReserveTurn(c, session) \/ (\E operation \in Stops, target \in
              Sessions : StopRequest(c, session, operation, target))
       PROVE  QueueAt(b)'
    <3>1. UNCHANGED <<queued, message, commit, answer, record, given>>
      BY <2>2
      DEF SpawnReserveTurn, harnessVars, messageVars, StopRequest
    <3> QED BY <3>1, <1>types, <1>in, <1>queue, <1>job, <1>apart, <1>each,
       <1>works, <1>why, <1>sends  DEF QueueAt, Accepted, JobIs, MessageAt, Fresh
  <2> QED BY <1>4, <2>1, <2>2 DEF CallBegins
<1>5. ASSUME Disturbance PROVE QueueAt(b)'
  <2>1. ASSUME (\E c \in Calls : StopTimesOut(c)) \/ (\E c \in Calls :
              JoinTimesOut(c)) \/ (\E a \in Agents : Submit(a)) \/ (\E a \in Agents
              : DriverDies(a)) \/ (\E n \in Limits : SetLimit(n))
       PROVE  QueueAt(b)'
    <3>1. UNCHANGED <<queued, message, commit, answer, record, given>>
      BY <2>1
      DEF StopTimesOut, OnlyCalls, harnessVars, messageVars, JoinTimesOut,
         Submit, DriverDies, SetLimit
    <3> QED BY <3>1, <1>types, <1>in, <1>queue, <1>job, <1>apart, <1>each,
       <1>works, <1>why, <1>sends  DEF QueueAt, Accepted, JobIs, MessageAt, Fresh
  <2> QED BY <1>5, <2>1 DEF Disturbance
<1> QED BY <1>1, <1>2, <1>3, <1>4, <1>5 DEF Next

(* What is in the queue was sent before what is in the channels.           *)
LEMMA LineKept ==
  ASSUME IInv, MInv, NEW b \in Agents, Next
  PROVE  LineAt(b)'
<1>types. /\ hpc \in [Agents -> HarnessPoints] /\ why \in [Agents -> Reasons]
          /\ job \in [Agents -> {None} \cup Messages]
          /\ undo \in [Agents -> {None, NoChange} \cup Messages]
          /\ task \in [Agents -> {None} \cup Messages]
          /\ mailbox \in [Agents -> Boxes] /\ queued \in [Agents -> Boxes]
          /\ commit \in [Messages -> {"unsent", "wait", "yes", "dropped"}]
          /\ answer \in [Messages -> {"none", "ok", "error", "dropped"}]
          /\ record \in [Messages -> {"none", "pending", "settled", "removed"}]
          /\ given \in [Messages -> Nat]
  BY DEF IInv, TypeInv, HarnessTypes, SessionTypes, ChannelTypes, MessageTypes
<1>in. /\ \A a \in Agents : InBox(mailbox[a]) \subseteq Messages /\ InBox(queued[a]) \subseteq Messages
       /\ None \notin Messages /\ NoChange \notin Messages /\ InBox(EmptyBox) = {}
  BY Placed
<1>mail. \A a \in Agents : MailAt(a) 
  BY DEF MInv, BoxesAt
<1>queue. \A a \in Agents : QueueAt(a) 
  BY DEF MInv, BoxesAt
<1>line. \A a \in Agents : LineAt(a) 
  BY DEF MInv, BoxesAt
<1>clear. \A a \in Agents : ClearAt(a) 
  BY DEF MInv, BoxesAt
<1>job. \A a \in Agents : JobIs(a) 
  BY DEF MInv, JobAt
<1>jobline. \A a \in Agents : JobLine(a) 
  BY DEF MInv, JobAt
<1>apart. \A a, c \in Agents :
    /\ \A m \in InBox(mailbox[a]) :
         m \notin InBox(queued[c]) /\ m # job[c] /\ (m \in InBox(mailbox[c]) => a = c)
    /\ \A m \in InBox(queued[a]) : m # job[c] /\ (m \in InBox(queued[c]) => a = c)
    /\ job[a] # None /\ job[a] = job[c] => a = c
  BY AreApart DEF Apart
<1>each. \A m \in Messages : MessageAt(m)
  BY DEF MInv
<1>works. \A a \in Agents : /\ hpc[a] \in {"accept", "steering"} => job[a] \in Messages
                            /\ hpc[a] = "prompting" /\ why[a] # "start" => job[a] \in Messages
                            /\ hpc[a] \notin {"accept", "steering", "prompting"} => job[a] = None
  BY DEF IInv, TypeInv, JobInv, MInv, JobAt, JobIs
<1>why. \A a \in Agents : 
          /\ hpc[a] = "prompting" => why[a] \in {"start", "deliver", "pending"}
          /\ hpc[a] \in {"select", "accept", "steering", "pending"} => why[a] = "none"
  BY DEF IInv, HarnessInv, WhyAt, Stopping
<1>1. ASSUME NEW a \in Agents, HarnessStep(a) PROVE LineAt(b)'
  <2>1. CASE TakeDelivery(a)
    BY <2>1, <1>types, <1>in, <1>line, <1>jobline, <1>job, <1>clear, <1>works,
       MailTaken
    DEF LineAt, Before, JobLine, ClearAt, MailAt, QueueAt, TakeDelivery,
       messageVars, EmptyBox, NoCommand
  <2>2. ASSUME NEW m \in Messages, DeliverQueue(a, m) PROVE LineAt(b)'
    <3>1. PICK box :
               /\ InBox(box) = InBox(queued[a]) \cup {job[a]} /\ Filed(message, box)
               /\ hpc' = [hpc EXCEPT ![a] = "select"] /\ job' = [job EXCEPT ![a] = None]
               /\ \/ /\ queued' = [queued EXCEPT ![a] = box]
                     /\ answer' = [answer EXCEPT ![job[a]] = "ok"] /\ record' = record
                  \/ /\ queued' = queued
                     /\ answer' = [answer EXCEPT ![job[a]] = "error"]
                     /\ record' = [record EXCEPT ![job[a]] = "removed"]
      BY <2>2, DeliveryQueued DEF DeliverQueue, Accepting
    <3>2. /\ hpc[a] \in {"accept", "steering"} /\ job[a] \in Messages /\ commit[job[a]] = "yes" /\ why[a] = "none"
          /\ Fresh(job[a]) /\ message[job[a]].to = a
          /\ UNCHANGED <<why, mailbox, message, commit, given>>
      BY <2>2, <1>works, <1>job, <1>why, <1>in DEF DeliverQueue, Accepting, channelVars, JobIs
    <3>3. \A n \in Messages : n # job[a] => answer'[n] = answer[n] /\ record'[n] = record[n]
      BY <3>1, <3>2, <1>types
    <3>4. \A d \in Agents : d # a => queued'[d] = queued[d] /\ hpc'[d] = hpc[d] /\ job'[d] = job[d] /\ job[d] # job[a]
      BY <3>1, <3>2, <1>types, <1>apart, <1>in
    <3>5. /\ hpc'[a] = "select" /\ job'[a] = None
          /\ \/ queued'[a] = box /\ answer'[job[a]] = "ok" /\ record'[job[a]] = record[job[a]]
             \/ queued'[a] = queued[a] /\ answer'[job[a]] = "error" /\ record'[job[a]] = "removed"
      BY <3>1, <3>2, <1>types
    <3>6. InBox(box) = InBox(queued[a]) \cup {job[a]} /\ Filed(message, box)
      BY <3>1
    <3> QED
      BY <3>2, <3>3, <3>4, <3>5, <3>6, <1>types, <1>in, <1>line, <1>jobline, <1>job, <1>clear, <1>works DEF LineAt, Before, JobLine, ClearAt, MailAt, QueueAt
  <2>3. CASE SteerRefused(a)
    <3>1. PICK box :
               /\ InBox(box) = InBox(queued[a]) \cup {job[a]} /\ Filed(message, box)
               /\ hpc' = [hpc EXCEPT ![a] = "select"] /\ job' = [job EXCEPT ![a] = None]
               /\ \/ /\ queued' = [queued EXCEPT ![a] = box]
                     /\ answer' = [answer EXCEPT ![job[a]] = "ok"] /\ record' = record
                  \/ /\ queued' = queued
                     /\ answer' = [answer EXCEPT ![job[a]] = "error"]
                     /\ record' = [record EXCEPT ![job[a]] = "removed"]
      BY <2>3, DeliveryQueued DEF SteerRefused
    <3>2. /\ hpc[a] \in {"accept", "steering"} /\ job[a] \in Messages /\ commit[job[a]] = "yes" /\ why[a] = "none"
          /\ Fresh(job[a]) /\ message[job[a]].to = a
          /\ UNCHANGED <<why, mailbox, message, commit, given>>
      BY <2>3, <1>works, <1>job, <1>why, <1>in DEF SteerRefused, channelVars, JobIs
    <3>3. \A n \in Messages : n # job[a] => answer'[n] = answer[n] /\ record'[n] = record[n]
      BY <3>1, <3>2, <1>types
    <3>4. \A d \in Agents : d # a => queued'[d] = queued[d] /\ hpc'[d] = hpc[d] /\ job'[d] = job[d] /\ job[d] # job[a]
      BY <3>1, <3>2, <1>types, <1>apart, <1>in
    <3>5. /\ hpc'[a] = "select" /\ job'[a] = None
          /\ \/ queued'[a] = box /\ answer'[job[a]] = "ok" /\ record'[job[a]] = record[job[a]]
             \/ queued'[a] = queued[a] /\ answer'[job[a]] = "error" /\ record'[job[a]] = "removed"
      BY <3>1, <3>2, <1>types
    <3>6. InBox(box) = InBox(queued[a]) \cup {job[a]} /\ Filed(message, box)
      BY <3>1
    <3> QED
      BY <3>2, <3>3, <3>4, <3>5, <3>6, <1>types, <1>in, <1>line, <1>jobline, <1>job, <1>clear, <1>works DEF LineAt, Before, JobLine, ClearAt, MailAt, QueueAt
  <2>4. CASE StartPending(a)
    BY <2>4, <1>types, <1>in, <1>line, <1>jobline, <1>job, <1>clear, <1>works,
       QueueTaken
    DEF LineAt, Before, JobLine, ClearAt, MailAt, QueueAt, StartPending,
       channelVars, EmptyBox, CanReserve, CanStartTurn, Startable
  <2>5. CASE RejectWaiting(a)
    <3>1. PICK m \in InBox(mailbox[a]) :
               /\ InBox(mailbox'[a]) = InBox(mailbox[a]) \ {m}
               /\ Filed(message, mailbox'[a])
               /\ \A d \in Agents : d # a => mailbox'[d] = mailbox[d]
               /\ m \in Messages
               /\ \A n \in Messages : n # m => answer'[n] = answer[n] /\ record'[n] = record[n]
               /\ \/ commit[m] = "yes" /\ answer'[m] = "error" /\ record'[m] = "removed"
                  \/ commit[m] = "dropped" /\ answer'[m] = answer[m] /\ record'[m] = record[m]
      BY <2>5, WaitingRejected
    <3>2. UNCHANGED <<message, commit, given, hpc, queued, job, why, task, undo>>
      BY <2>5 DEF RejectWaiting, sessionVars, harnessVars, stepVars
    <3>3. \A d \in Agents : /\ InBox(mailbox'[d]) \subseteq InBox(mailbox[d]) 
                            /\ m \notin InBox(mailbox'[d]) /\ m \notin InBox(queued[d]) /\ m # job[d]
      BY <3>1, <1>apart
    <3> QED
      BY <3>1, <3>2, <3>3, <1>types, <1>in, <1>line, <1>jobline, <1>job, <1>clear, <1>works DEF LineAt, Before, JobLine, ClearAt, MailAt, QueueAt
  <2>6. CASE AllRejected(a)
    BY <2>6, <1>types, <1>in, <1>line, <1>jobline, <1>job, <1>clear, <1>works
    DEF LineAt, Before, JobLine, ClearAt, MailAt, QueueAt, AllRejected,
       channelVars, FailPending, EmptyBox
  <2>7. CASE HarnessClosed(a)
    <3>1. PICK as \in SUBSET Agents : CleanUp(as)
      BY <2>7, LateCleans DEF HarnessClosed
    <3>2. /\ \A d \in as : /\ mailbox'[d] = EmptyBox /\ queued'[d] = EmptyBox
                           /\ job'[d] = None /\ hpc'[d] = "gone" /\ undo'[d] = NoChange
          /\ \A d \in Agents \ as :
               /\ mailbox'[d] = mailbox[d] /\ queued'[d] = queued[d] /\ job'[d] = job[d]
               /\ hpc'[d] = hpc[d] /\ undo'[d] = undo[d] /\ why'[d] = why[d]
          /\ \A m \in Messages :
               \/ answer'[m] = answer[m]
               \/ /\ message[m].to \in as /\ commit[m] # "unsent"
                  /\ answer[m] = "none" /\ answer'[m] = "dropped"
          /\ \A d \in as : \A m \in InBox(mailbox[d]) : answer'[m] = "dropped"
      BY <3>1, CleanedUp
    <3>3. UNCHANGED <<message, commit, record, given, task>>
      BY <2>7 DEF HarnessClosed
    <3>4. CASE b \in as
      <4>1. /\ mailbox'[b] = EmptyBox /\ queued'[b] = EmptyBox
            /\ job'[b] = None /\ hpc'[b] = "gone" /\ undo'[b] = NoChange
        BY <3>2, <3>4
      <4> QED
        BY <3>3, <4>1, EmptyFiled, <1>in, <1>line DEF LineAt, Before, JobLine, ClearAt, MailAt, QueueAt
    <3>5. CASE b \notin as
      <4>1. /\ mailbox'[b] = mailbox[b] /\ queued'[b] = queued[b] /\ job'[b] = job[b]
            /\ hpc'[b] = hpc[b] /\ undo'[b] = undo[b] /\ why'[b] = why[b]
        BY <3>2, <3>5
      <4>2. \A m \in Messages : message[m].to = b => answer'[m] = answer[m]
        BY <3>2, <3>5
      <4> QED
        BY <3>3, <4>1, <4>2, <1>in, <1>types, <1>line DEF LineAt, Before, JobLine, ClearAt, MailAt, QueueAt
    <3> QED
      BY <3>4, <3>5
  <2>8. ASSUME TakeStart(a) \/ PromptAccepted(a) \/ PromptFailed(a) \/ Abandoned(a)
              \/ (\E m \in Messages : Steer(a, m)) \/ (\E m \in Messages :
              DeliverStart(a, m)) \/ SteerAdmitted(a) \/ SteerFailed(a) \/
              CapacityChanged(a) \/ StopPending(a) \/ TurnFinished(a) \/ Publish(a)
              \/ TakeStop(a) \/ UrgentRejected(a) \/ Shutdown(a) \/ FinishActive(a)
              \/ Release(a)
       PROVE  LineAt(b)'
    <3>1. UNCHANGED <<queued, mailbox, message>>
      BY <2>8
      DEF TakeStart, messageVars, PromptAccepted, channelVars, PromptFailed,
         Abandoned, Steer, DeliverStart, SteerAdmitted, SteerFailed,
         CapacityChanged, StopPending, TurnFinished, Publish, TakeStop,
         UrgentRejected, Shutdown, FinishActive, Release
    <3> QED BY <3>1, <1>types, <1>in, <1>line, <1>jobline, <1>job, <1>clear,
       <1>works  DEF LineAt, Before, JobLine, ClearAt, MailAt, QueueAt
  <2> QED BY <1>1, <2>1, <2>2, <2>3, <2>4, <2>5, <2>6, <2>7, <2>8 DEF HarnessStep
<1>2. ASSUME NEW a \in Agents, LibraryStep(a) PROVE LineAt(b)'
  <2>1. ASSUME (\E result \in Outcomes : TurnEnds(a, result)) \/ EventsEnd(a) \/
              EventsDone(a)
       PROVE  LineAt(b)'
    <3>1. UNCHANGED <<queued, mailbox, message>>
      BY <2>1
      DEF TurnEnds, channelVars, messageVars, EventsEnd, harnessVars,
         EventsDone
    <3> QED BY <3>1, <1>types, <1>in, <1>line, <1>jobline, <1>job, <1>clear,
       <1>works  DEF LineAt, Before, JobLine, ClearAt, MailAt, QueueAt
  <2> QED BY <1>2, <2>1 DEF LibraryStep
<1>3. ASSUME NEW c \in Calls, CallStep(c) \/ CallDropped(c) PROVE LineAt(b)'
  <2>1. CASE FinishLate(c)
    <3>1. PICK as \in SUBSET Agents : CleanUp(as)
      BY <2>1, LateCleans DEF FinishLate
    <3>2. /\ \A d \in as : /\ mailbox'[d] = EmptyBox /\ queued'[d] = EmptyBox
                           /\ job'[d] = None /\ hpc'[d] = "gone" /\ undo'[d] = NoChange
          /\ \A d \in Agents \ as :
               /\ mailbox'[d] = mailbox[d] /\ queued'[d] = queued[d] /\ job'[d] = job[d]
               /\ hpc'[d] = hpc[d] /\ undo'[d] = undo[d] /\ why'[d] = why[d]
          /\ \A m \in Messages :
               \/ answer'[m] = answer[m]
               \/ /\ message[m].to \in as /\ commit[m] # "unsent"
                  /\ answer[m] = "none" /\ answer'[m] = "dropped"
          /\ \A d \in as : \A m \in InBox(mailbox[d]) : answer'[m] = "dropped"
      BY <3>1, CleanedUp
    <3>3. UNCHANGED <<message, commit, record, given, task>>
      BY <2>1 DEF FinishLate
    <3>4. CASE b \in as
      <4>1. /\ mailbox'[b] = EmptyBox /\ queued'[b] = EmptyBox
            /\ job'[b] = None /\ hpc'[b] = "gone" /\ undo'[b] = NoChange
        BY <3>2, <3>4
      <4> QED
        BY <3>3, <4>1, EmptyFiled, <1>in, <1>line DEF LineAt, Before, JobLine, ClearAt, MailAt, QueueAt
    <3>5. CASE b \notin as
      <4>1. /\ mailbox'[b] = mailbox[b] /\ queued'[b] = queued[b] /\ job'[b] = job[b]
            /\ hpc'[b] = hpc[b] /\ undo'[b] = undo[b] /\ why'[b] = why[b]
        BY <3>2, <3>5
      <4>2. \A m \in Messages : message[m].to = b => answer'[m] = answer[m]
        BY <3>2, <3>5
      <4> QED
        BY <3>3, <4>1, <4>2, <1>in, <1>types, <1>line DEF LineAt, Before, JobLine, ClearAt, MailAt, QueueAt
    <3> QED
      BY <3>4, <3>5
  <2>2. ASSUME SpawnReserveId(c) \/ SpawnFails(c) \/ SpawnReturns(c) \/ (\E a \in
              Agents : SpawnInsert(c, a)) \/ (\E a \in Agents : SpawnLaunch(c, a))
              \/ StopSend(c) \/ InterruptReturns(c) \/ CloseInactive(c) \/
              FinishClose(c) \/ CloseReturns(c) \/ SendCommit(c) \/ SendReturns(c)
              \/ CallDropped(c)
       PROVE  LineAt(b)'
    <3>1. UNCHANGED <<queued, mailbox, message>>
      BY <2>2
      DEF SpawnReserveId, harnessVars, channelVars, messageVars, SpawnFails,
         SpawnReturns, OnlyCalls, SpawnInsert, SpawnLaunch, StopSend,
         InterruptReturns, CloseInactive, FinishClose, CloseReturns,
         SendCommit, SendReturns, CallDropped
    <3> QED BY <3>1, <1>types, <1>in, <1>line, <1>jobline, <1>job, <1>clear,
       <1>works  DEF LineAt, Before, JobLine, ClearAt, MailAt, QueueAt
  <2> QED BY <1>3, <2>1, <2>2 DEF CallStep
<1>4. ASSUME NEW c \in Calls, NEW session \in Sessions, CallBegins(c, session) PROVE LineAt(b)'
  <2>1. ASSUME NEW a \in Agents, NEW urgent \in BOOLEAN, NEW delegate \in BOOLEAN, SendPrepare(c, session, a, urgent, delegate) PROVE LineAt(b)'
    <3>1. PICK m \in Messages : Posted(a, m)
      BY <2>1, SendPosts
    <3>2. /\ message'[m].to = a /\ commit'[m] = "wait" /\ answer'[m] = "none" /\ given'[m] = 0
          /\ UNCHANGED <<hpc, why, job, undo, queued, task, answer, record, given>>
      BY <3>1, <1>each DEF Posted, MessageAt
    <3>3. \A n \in Messages : commit[n] # "unsent" =>
            n # m /\ n < m /\ message'[n] = message[n] /\ commit'[n] = commit[n]
      BY <3>1 DEF Posted
    <3>4. \A d \in Agents : /\ \A n \in InBox(mailbox[d]) : commit[n] # "unsent" /\ message[n].to = d
                            /\ \A n \in InBox(queued[d]) : commit[n] # "unsent" /\ message[n].to = d
                            /\ job[d] # None => commit[job[d]] # "unsent" /\ message[job[d]].to = d
      BY <1>mail, <1>queue, <1>job DEF MailAt, QueueAt, JobIs, Fresh, Accepted
    <3>5. \A d \in Agents : /\ \A n \in InBox(mailbox'[d]) : n \in InBox(mailbox[d]) \/ (n = m /\ d = a)
                            /\ Filed(message', mailbox'[d]) /\ Filed(message', queued[d])
      BY <3>1 DEF Posted
    <3> QED
      BY <3>2, <3>3, <3>4, <3>5, <1>in, <1>types, <1>line DEF LineAt, Before, JobLine, ClearAt, MailAt, QueueAt
  <2>2. ASSUME SpawnReserveTurn(c, session) \/ (\E operation \in Stops, target \in
              Sessions : StopRequest(c, session, operation, target))
       PROVE  LineAt(b)'
    <3>1. UNCHANGED <<queued, mailbox, message>>
      BY <2>2
      DEF SpawnReserveTurn, harnessVars, channelVars, messageVars, StopRequest
    <3> QED BY <3>1, <1>types, <1>in, <1>line, <1>jobline, <1>job, <1>clear,
       <1>works  DEF LineAt, Before, JobLine, ClearAt, MailAt, QueueAt
  <2> QED BY <1>4, <2>1, <2>2 DEF CallBegins
<1>5. ASSUME Disturbance PROVE LineAt(b)'
  <2>1. ASSUME (\E c \in Calls : StopTimesOut(c)) \/ (\E c \in Calls :
              JoinTimesOut(c)) \/ (\E a \in Agents : Submit(a)) \/ (\E a \in Agents
              : DriverDies(a)) \/ (\E n \in Limits : SetLimit(n))
       PROVE  LineAt(b)'
    <3>1. UNCHANGED <<queued, mailbox, message>>
      BY <2>1
      DEF StopTimesOut, OnlyCalls, channelVars, harnessVars, messageVars,
         JoinTimesOut, Submit, DriverDies, SetLimit
    <3> QED BY <3>1, <1>types, <1>in, <1>line, <1>jobline, <1>job, <1>clear,
       <1>works  DEF LineAt, Before, JobLine, ClearAt, MailAt, QueueAt
  <2> QED BY <1>5, <2>1 DEF Disturbance
<1> QED BY <1>1, <1>2, <1>3, <1>4, <1>5 DEF Next

(* A harness that stops its turn has failed its queue.                     *)
LEMMA ClearKept ==
  ASSUME IInv, MInv, NEW b \in Agents, Next
  PROVE  ClearAt(b)'
<1>types. /\ hpc \in [Agents -> HarnessPoints] /\ why \in [Agents -> Reasons]
          /\ job \in [Agents -> {None} \cup Messages]
          /\ undo \in [Agents -> {None, NoChange} \cup Messages]
          /\ task \in [Agents -> {None} \cup Messages]
          /\ mailbox \in [Agents -> Boxes] /\ queued \in [Agents -> Boxes]
          /\ commit \in [Messages -> {"unsent", "wait", "yes", "dropped"}]
          /\ answer \in [Messages -> {"none", "ok", "error", "dropped"}]
          /\ record \in [Messages -> {"none", "pending", "settled", "removed"}]
          /\ given \in [Messages -> Nat]
  BY DEF IInv, TypeInv, HarnessTypes, SessionTypes, ChannelTypes, MessageTypes
<1>in. /\ \A a \in Agents : InBox(mailbox[a]) \subseteq Messages /\ InBox(queued[a]) \subseteq Messages
       /\ None \notin Messages /\ NoChange \notin Messages /\ InBox(EmptyBox) = {}
  BY Placed
<1>clear. \A a \in Agents : ClearAt(a) 
  BY DEF MInv, BoxesAt
<1>job. \A a \in Agents : JobIs(a) 
  BY DEF MInv, JobAt
<1>apart. \A a, c \in Agents :
    /\ \A m \in InBox(mailbox[a]) :
         m \notin InBox(queued[c]) /\ m # job[c] /\ (m \in InBox(mailbox[c]) => a = c)
    /\ \A m \in InBox(queued[a]) : m # job[c] /\ (m \in InBox(queued[c]) => a = c)
    /\ job[a] # None /\ job[a] = job[c] => a = c
  BY AreApart DEF Apart
<1>works. \A a \in Agents : /\ hpc[a] \in {"accept", "steering"} => job[a] \in Messages
                            /\ hpc[a] = "prompting" /\ why[a] # "start" => job[a] \in Messages
                            /\ hpc[a] \notin {"accept", "steering", "prompting"} => job[a] = None
  BY DEF IInv, TypeInv, JobInv, MInv, JobAt, JobIs
<1>why. \A a \in Agents : 
          /\ hpc[a] = "prompting" => why[a] \in {"start", "deliver", "pending"}
          /\ hpc[a] \in {"select", "accept", "steering", "pending"} => why[a] = "none"
  BY DEF IInv, HarnessInv, WhyAt, Stopping
<1>1. ASSUME NEW a \in Agents, HarnessStep(a) PROVE ClearAt(b)'
  <2>1. CASE TakeStart(a)
    BY <2>1, <1>types, <1>in, <1>clear, <1>works
    DEF ClearAt, TakeStart, None, CanStartTurn, Prompting, IsCommand,
       Startable, Goto
  <2>2. CASE PromptAccepted(a)
    BY <2>2, <1>types, <1>in, <1>clear, <1>works
    DEF ClearAt, PromptAccepted, None, NoChange, Goto
  <2>3. CASE PromptFailed(a)
    BY <2>3, <1>types, <1>in, <1>clear, <1>works
    DEF ClearAt, PromptFailed, None, Goto
  <2>4. CASE TakeDelivery(a)
    BY <2>4, <1>types, <1>in, <1>clear, <1>works, MailTaken
    DEF ClearAt, TakeDelivery, EmptyBox, Goto, NoCommand
  <2>5. CASE Abandoned(a)
    BY <2>5, <1>types, <1>in, <1>clear, <1>works
    DEF ClearAt, Abandoned, None, Goto
  <2>6. ASSUME NEW m \in Messages, Steer(a, m) PROVE ClearAt(b)'
    BY <2>6, <1>types, <1>in, <1>clear, <1>works
    DEF ClearAt, Steer, Goto, Accepting, Steerable
  <2>7. ASSUME NEW m \in Messages, DeliverStart(a, m) PROVE ClearAt(b)'
    BY <2>7, <1>types, <1>in, <1>clear, <1>works
    DEF ClearAt, DeliverStart, None, CanStartTurn, Goto, Prompting, Accepting,
       Steerable, CanDeliver, Startable, EmptyBox, CanReserve
  <2>8. ASSUME NEW m \in Messages, DeliverQueue(a, m) PROVE ClearAt(b)'
    <3>1. PICK box :
               /\ InBox(box) = InBox(queued[a]) \cup {job[a]} /\ Filed(message, box)
               /\ hpc' = [hpc EXCEPT ![a] = "select"] /\ job' = [job EXCEPT ![a] = None]
               /\ \/ /\ queued' = [queued EXCEPT ![a] = box]
                     /\ answer' = [answer EXCEPT ![job[a]] = "ok"] /\ record' = record
                  \/ /\ queued' = queued
                     /\ answer' = [answer EXCEPT ![job[a]] = "error"]
                     /\ record' = [record EXCEPT ![job[a]] = "removed"]
      BY <2>8, DeliveryQueued DEF DeliverQueue, Accepting
    <3>2. /\ hpc[a] \in {"accept", "steering"} /\ job[a] \in Messages /\ commit[job[a]] = "yes" /\ why[a] = "none"
          /\ Fresh(job[a]) /\ message[job[a]].to = a
          /\ UNCHANGED <<why, mailbox, message, commit, given>>
      BY <2>8, <1>works, <1>job, <1>why, <1>in DEF DeliverQueue, Accepting, channelVars, JobIs
    <3>3. \A n \in Messages : n # job[a] => answer'[n] = answer[n] /\ record'[n] = record[n]
      BY <3>1, <3>2, <1>types
    <3>4. \A d \in Agents : d # a => queued'[d] = queued[d] /\ hpc'[d] = hpc[d] /\ job'[d] = job[d] /\ job[d] # job[a]
      BY <3>1, <3>2, <1>types, <1>apart, <1>in
    <3>5. /\ hpc'[a] = "select" /\ job'[a] = None
          /\ \/ queued'[a] = box /\ answer'[job[a]] = "ok" /\ record'[job[a]] = record[job[a]]
             \/ queued'[a] = queued[a] /\ answer'[job[a]] = "error" /\ record'[job[a]] = "removed"
      BY <3>1, <3>2, <1>types
    <3>6. InBox(box) = InBox(queued[a]) \cup {job[a]} /\ Filed(message, box)
      BY <3>1
    <3> QED
      BY <3>2, <3>3, <3>4, <3>5, <3>6, <1>types, <1>in, <1>clear, <1>works DEF ClearAt
  <2>9. CASE SteerAdmitted(a)
    BY <2>9, <1>types, <1>in, <1>clear, <1>works
    DEF ClearAt, SteerAdmitted, None, NoChange, Goto
  <2>10. CASE SteerRefused(a)
    <3>1. PICK box :
               /\ InBox(box) = InBox(queued[a]) \cup {job[a]} /\ Filed(message, box)
               /\ hpc' = [hpc EXCEPT ![a] = "select"] /\ job' = [job EXCEPT ![a] = None]
               /\ \/ /\ queued' = [queued EXCEPT ![a] = box]
                     /\ answer' = [answer EXCEPT ![job[a]] = "ok"] /\ record' = record
                  \/ /\ queued' = queued
                     /\ answer' = [answer EXCEPT ![job[a]] = "error"]
                     /\ record' = [record EXCEPT ![job[a]] = "removed"]
      BY <2>10, DeliveryQueued DEF SteerRefused
    <3>2. /\ hpc[a] \in {"accept", "steering"} /\ job[a] \in Messages /\ commit[job[a]] = "yes" /\ why[a] = "none"
          /\ Fresh(job[a]) /\ message[job[a]].to = a
          /\ UNCHANGED <<why, mailbox, message, commit, given>>
      BY <2>10, <1>works, <1>job, <1>why, <1>in DEF SteerRefused, channelVars, JobIs
    <3>3. \A n \in Messages : n # job[a] => answer'[n] = answer[n] /\ record'[n] = record[n]
      BY <3>1, <3>2, <1>types
    <3>4. \A d \in Agents : d # a => queued'[d] = queued[d] /\ hpc'[d] = hpc[d] /\ job'[d] = job[d] /\ job[d] # job[a]
      BY <3>1, <3>2, <1>types, <1>apart, <1>in
    <3>5. /\ hpc'[a] = "select" /\ job'[a] = None
          /\ \/ queued'[a] = box /\ answer'[job[a]] = "ok" /\ record'[job[a]] = record[job[a]]
             \/ queued'[a] = queued[a] /\ answer'[job[a]] = "error" /\ record'[job[a]] = "removed"
      BY <3>1, <3>2, <1>types
    <3>6. InBox(box) = InBox(queued[a]) \cup {job[a]} /\ Filed(message, box)
      BY <3>1
    <3> QED
      BY <3>2, <3>3, <3>4, <3>5, <3>6, <1>types, <1>in, <1>clear, <1>works DEF ClearAt
  <2>11. CASE SteerFailed(a)
    BY <2>11, <1>types, <1>in, <1>clear, <1>works
    DEF ClearAt, SteerFailed, None, Goto
  <2>12. CASE CapacityChanged(a)
    BY <2>12, <1>types, <1>in, <1>clear, <1>works
    DEF ClearAt, CapacityChanged, EmptyBox, Goto, NoCommand
  <2>13. CASE StartPending(a)
    BY <2>13, <1>types, <1>in, <1>clear, <1>works, QueueTaken
    DEF ClearAt, StartPending, EmptyBox, CanReserve, CanStartTurn, Prompting,
       Startable, Goto
  <2>14. CASE StopPending(a)
    BY <2>14, <1>types, <1>in, <1>clear, <1>works
    DEF ClearAt, StopPending, EmptyBox, CanReserve, Goto
  <2>15. CASE TurnFinished(a)
    BY <2>15, <1>types, <1>in, <1>clear, <1>works
    DEF ClearAt, TurnFinished, EmptyBox, Goto, NoCommand, TurnOver
  <2>16. CASE Publish(a)
    BY <2>16, <1>types, <1>in, <1>clear, <1>works
    DEF ClearAt, Publish, Goto
  <2>17. CASE TakeStop(a)
    BY <2>17, <1>types, <1>in, <1>clear, <1>works
    DEF ClearAt, TakeStop, Goto, IsCommand
  <2>18. CASE UrgentRejected(a)
    BY <2>18, <1>types, <1>in, <1>clear, <1>works
    DEF ClearAt, UrgentRejected, Goto
  <2>19. CASE AllRejected(a)
    BY <2>19, <1>types, <1>in, <1>clear, <1>works
    DEF ClearAt, AllRejected, Goto, FailPending, EmptyBox
  <2>20. CASE Shutdown(a)
    BY <2>20, <1>types, <1>in, <1>clear, <1>works
    DEF ClearAt, Shutdown, Goto
  <2>21. CASE FinishActive(a)
    BY <2>21, <1>types, <1>in, <1>clear, <1>works
    DEF ClearAt, FinishActive, Goto, TurnOver
  <2>22. CASE Release(a)
    BY <2>22, <1>types, <1>in, <1>clear, <1>works
    DEF ClearAt, Release, Goto
  <2>23. CASE HarnessClosed(a)
    <3>1. PICK as \in SUBSET Agents : CleanUp(as)
      BY <2>23, LateCleans DEF HarnessClosed
    <3>2. /\ \A d \in as : /\ mailbox'[d] = EmptyBox /\ queued'[d] = EmptyBox
                           /\ job'[d] = None /\ hpc'[d] = "gone" /\ undo'[d] = NoChange
          /\ \A d \in Agents \ as :
               /\ mailbox'[d] = mailbox[d] /\ queued'[d] = queued[d] /\ job'[d] = job[d]
               /\ hpc'[d] = hpc[d] /\ undo'[d] = undo[d] /\ why'[d] = why[d]
          /\ \A m \in Messages :
               \/ answer'[m] = answer[m]
               \/ /\ message[m].to \in as /\ commit[m] # "unsent"
                  /\ answer[m] = "none" /\ answer'[m] = "dropped"
          /\ \A d \in as : \A m \in InBox(mailbox[d]) : answer'[m] = "dropped"
      BY <3>1, CleanedUp
    <3>3. UNCHANGED <<message, commit, record, given, task>>
      BY <2>23 DEF HarnessClosed
    <3>4. CASE b \in as
      <4>1. /\ mailbox'[b] = EmptyBox /\ queued'[b] = EmptyBox
            /\ job'[b] = None /\ hpc'[b] = "gone" /\ undo'[b] = NoChange
        BY <3>2, <3>4
      <4> QED
        BY <3>3, <4>1, EmptyFiled, <1>in, <1>clear DEF ClearAt
    <3>5. CASE b \notin as
      <4>1. /\ mailbox'[b] = mailbox[b] /\ queued'[b] = queued[b] /\ job'[b] = job[b]
            /\ hpc'[b] = hpc[b] /\ undo'[b] = undo[b] /\ why'[b] = why[b]
        BY <3>2, <3>5
      <4>2. \A m \in Messages : message[m].to = b => answer'[m] = answer[m]
        BY <3>2, <3>5
      <4> QED
        BY <3>3, <4>1, <4>2, <1>in, <1>types, <1>clear DEF ClearAt
    <3> QED
      BY <3>4, <3>5
  <2>24. ASSUME RejectWaiting(a)
       PROVE  ClearAt(b)'
    <3>1. UNCHANGED <<hpc, queued>>
      BY <2>24
      DEF RejectWaiting, harnessVars
    <3> QED BY <3>1, <1>types, <1>in, <1>clear, <1>works  DEF ClearAt
  <2> QED BY <1>1, <2>1, <2>2, <2>3, <2>4, <2>5, <2>6, <2>7, <2>8, <2>9,
   <2>10, <2>11, <2>12, <2>13, <2>14, <2>15, <2>16, <2>17, <2>18, <2>19,
   <2>20, <2>21, <2>22, <2>23, <2>24 DEF HarnessStep
<1>2. ASSUME NEW a \in Agents, LibraryStep(a) PROVE ClearAt(b)'
  <2>1. ASSUME (\E result \in Outcomes : TurnEnds(a, result)) \/ EventsEnd(a) \/
              EventsDone(a)
       PROVE  ClearAt(b)'
    <3>1. UNCHANGED <<hpc, queued>>
      BY <2>1
      DEF TurnEnds, EventsEnd, harnessVars, EventsDone
    <3> QED BY <3>1, <1>types, <1>in, <1>clear, <1>works  DEF ClearAt
  <2> QED BY <1>2, <2>1 DEF LibraryStep
<1>3. ASSUME NEW c \in Calls, CallStep(c) \/ CallDropped(c) PROVE ClearAt(b)'
  <2>1. ASSUME NEW a \in Agents, SpawnInsert(c, a) PROVE ClearAt(b)'
    BY <2>1, <1>types, <1>in, <1>clear, <1>works
    DEF ClearAt, SpawnInsert, Goto, InsertRefused, ParentStopped, Stopped,
       Root
  <2>2. CASE FinishLate(c)
    <3>1. PICK as \in SUBSET Agents : CleanUp(as)
      BY <2>2, LateCleans DEF FinishLate
    <3>2. /\ \A d \in as : /\ mailbox'[d] = EmptyBox /\ queued'[d] = EmptyBox
                           /\ job'[d] = None /\ hpc'[d] = "gone" /\ undo'[d] = NoChange
          /\ \A d \in Agents \ as :
               /\ mailbox'[d] = mailbox[d] /\ queued'[d] = queued[d] /\ job'[d] = job[d]
               /\ hpc'[d] = hpc[d] /\ undo'[d] = undo[d] /\ why'[d] = why[d]
          /\ \A m \in Messages :
               \/ answer'[m] = answer[m]
               \/ /\ message[m].to \in as /\ commit[m] # "unsent"
                  /\ answer[m] = "none" /\ answer'[m] = "dropped"
          /\ \A d \in as : \A m \in InBox(mailbox[d]) : answer'[m] = "dropped"
      BY <3>1, CleanedUp
    <3>3. UNCHANGED <<message, commit, record, given, task>>
      BY <2>2 DEF FinishLate
    <3>4. CASE b \in as
      <4>1. /\ mailbox'[b] = EmptyBox /\ queued'[b] = EmptyBox
            /\ job'[b] = None /\ hpc'[b] = "gone" /\ undo'[b] = NoChange
        BY <3>2, <3>4
      <4> QED
        BY <3>3, <4>1, EmptyFiled, <1>in, <1>clear DEF ClearAt
    <3>5. CASE b \notin as
      <4>1. /\ mailbox'[b] = mailbox[b] /\ queued'[b] = queued[b] /\ job'[b] = job[b]
            /\ hpc'[b] = hpc[b] /\ undo'[b] = undo[b] /\ why'[b] = why[b]
        BY <3>2, <3>5
      <4>2. \A m \in Messages : message[m].to = b => answer'[m] = answer[m]
        BY <3>2, <3>5
      <4> QED
        BY <3>3, <4>1, <4>2, <1>in, <1>types, <1>clear DEF ClearAt
    <3> QED
      BY <3>4, <3>5
  <2>3. ASSUME SpawnReserveId(c) \/ SpawnFails(c) \/ SpawnReturns(c) \/ (\E a \in
              Agents : SpawnLaunch(c, a)) \/ StopSend(c) \/ InterruptReturns(c) \/
              CloseInactive(c) \/ FinishClose(c) \/ CloseReturns(c) \/ SendCommit(c)
              \/ SendReturns(c) \/ CallDropped(c)
       PROVE  ClearAt(b)'
    <3>1. UNCHANGED <<hpc, queued>>
      BY <2>3
      DEF SpawnReserveId, harnessVars, SpawnFails, SpawnReturns, OnlyCalls,
         SpawnLaunch, StopSend, InterruptReturns, CloseInactive, FinishClose,
         CloseReturns, SendCommit, SendReturns, CallDropped
    <3> QED BY <3>1, <1>types, <1>in, <1>clear, <1>works  DEF ClearAt
  <2> QED BY <1>3, <2>1, <2>2, <2>3 DEF CallStep
<1>4. ASSUME NEW c \in Calls, NEW session \in Sessions, CallBegins(c, session) PROVE ClearAt(b)'
  <2>1. ASSUME SpawnReserveTurn(c, session) \/ (\E operation \in Stops, target \in
              Sessions : StopRequest(c, session, operation, target)) \/ (\E a \in
              Agents, urgent \in BOOLEAN, delegate \in BOOLEAN : SendPrepare(c,
              session, a, urgent, delegate))
       PROVE  ClearAt(b)'
    <3>1. UNCHANGED <<hpc, queued>>
      BY <2>1
      DEF SpawnReserveTurn, harnessVars, StopRequest, SendPrepare
    <3> QED BY <3>1, <1>types, <1>in, <1>clear, <1>works  DEF ClearAt
  <2> QED BY <1>4, <2>1 DEF CallBegins
<1>5. ASSUME Disturbance PROVE ClearAt(b)'
  <2>1. ASSUME (\E c \in Calls : StopTimesOut(c)) \/ (\E c \in Calls :
              JoinTimesOut(c)) \/ (\E a \in Agents : Submit(a)) \/ (\E a \in Agents
              : DriverDies(a)) \/ (\E n \in Limits : SetLimit(n))
       PROVE  ClearAt(b)'
    <3>1. UNCHANGED <<hpc, queued>>
      BY <2>1
      DEF StopTimesOut, OnlyCalls, harnessVars, JoinTimesOut, Submit,
         DriverDies, SetLimit
    <3> QED BY <3>1, <1>types, <1>in, <1>clear, <1>works  DEF ClearAt
  <2> QED BY <1>5, <2>1 DEF Disturbance
<1> QED BY <1>1, <1>2, <1>3, <1>4, <1>5 DEF Next

(* What a harness has in hand is its own, and is not yet settled.          *)
LEMMA JobIsKept ==
  ASSUME IInv, MInv, NEW b \in Agents, Next
  PROVE  JobIs(b)'
<1>types. /\ hpc \in [Agents -> HarnessPoints] /\ why \in [Agents -> Reasons]
          /\ job \in [Agents -> {None} \cup Messages]
          /\ undo \in [Agents -> {None, NoChange} \cup Messages]
          /\ task \in [Agents -> {None} \cup Messages]
          /\ mailbox \in [Agents -> Boxes] /\ queued \in [Agents -> Boxes]
          /\ commit \in [Messages -> {"unsent", "wait", "yes", "dropped"}]
          /\ answer \in [Messages -> {"none", "ok", "error", "dropped"}]
          /\ record \in [Messages -> {"none", "pending", "settled", "removed"}]
          /\ given \in [Messages -> Nat]
  BY DEF IInv, TypeInv, HarnessTypes, SessionTypes, ChannelTypes, MessageTypes
<1>in. /\ \A a \in Agents : InBox(mailbox[a]) \subseteq Messages /\ InBox(queued[a]) \subseteq Messages
       /\ None \notin Messages /\ NoChange \notin Messages /\ InBox(EmptyBox) = {}
  BY Placed
<1>mail. \A a \in Agents : MailAt(a) 
  BY DEF MInv, BoxesAt
<1>queue. \A a \in Agents : QueueAt(a) 
  BY DEF MInv, BoxesAt
<1>job. \A a \in Agents : JobIs(a) 
  BY DEF MInv, JobAt
<1>apart. \A a, c \in Agents :
    /\ \A m \in InBox(mailbox[a]) :
         m \notin InBox(queued[c]) /\ m # job[c] /\ (m \in InBox(mailbox[c]) => a = c)
    /\ \A m \in InBox(queued[a]) : m # job[c] /\ (m \in InBox(queued[c]) => a = c)
    /\ job[a] # None /\ job[a] = job[c] => a = c
  BY AreApart DEF Apart
<1>each. \A m \in Messages : MessageAt(m)
  BY DEF MInv
<1>works. \A a \in Agents : /\ hpc[a] \in {"accept", "steering"} => job[a] \in Messages
                            /\ hpc[a] = "prompting" /\ why[a] # "start" => job[a] \in Messages
                            /\ hpc[a] \notin {"accept", "steering", "prompting"} => job[a] = None
  BY DEF IInv, TypeInv, JobInv, MInv, JobAt, JobIs
<1>why. \A a \in Agents : 
          /\ hpc[a] = "prompting" => why[a] \in {"start", "deliver", "pending"}
          /\ hpc[a] \in {"select", "accept", "steering", "pending"} => why[a] = "none"
  BY DEF IInv, HarnessInv, WhyAt, Stopping
<1>sends. \A c \in Calls : 
            /\ cpc[c] = "send_commit" => sent[c] \in Messages /\ commit[sent[c]] = "wait"
            /\ cpc[c] = "send_wait" => sent[c] \in Messages /\ commit[sent[c]] = "yes"
            /\ cpc[c] = "send_commit" => \A m \in Messages : m > sent[c] => commit[m] = "unsent"
  BY DEF IInv, TypeInv, LockInv
<1>1. ASSUME NEW a \in Agents, HarnessStep(a) PROVE JobIs(b)'
  <2>1. CASE TakeStart(a)
    BY <2>1, <1>types, <1>in, <1>job, <1>apart, <1>each, <1>works, <1>why,
       <1>sends, <1>mail, <1>queue
    DEF JobIs, Fresh, Accepted, MailAt, QueueAt, TakeStart, None, messageVars,
       CanStartTurn, Prompting, IsCommand, Startable, Goto
  <2>2. CASE PromptAccepted(a)
    BY <2>2, <1>types, <1>in, <1>job, <1>apart, <1>each, <1>works, <1>why,
       <1>sends, <1>mail, <1>queue
    DEF JobIs, Fresh, Accepted, MailAt, QueueAt, PromptAccepted, None,
       NoChange, Goto, Settle, Admit, Give
  <2>3. CASE PromptFailed(a)
    BY <2>3, <1>types, <1>in, <1>job, <1>apart, <1>each, <1>works, <1>why,
       <1>sends, <1>mail, <1>queue
    DEF JobIs, Fresh, Accepted, MailAt, QueueAt, PromptFailed, None, Goto,
       Settle, Refuse, RollBack
  <2>4. CASE TakeDelivery(a)
    BY <2>4, <1>types, <1>in, <1>job, <1>apart, <1>each, <1>works, <1>why,
       <1>sends, <1>mail, <1>queue, MailTaken
    DEF JobIs, Fresh, Accepted, MailAt, QueueAt, TakeDelivery, messageVars,
       EmptyBox, Goto, NoCommand
  <2>5. CASE Abandoned(a)
    BY <2>5, <1>types, <1>in, <1>job, <1>apart, <1>each, <1>works, <1>why,
       <1>sends, <1>mail, <1>queue
    DEF JobIs, Fresh, Accepted, MailAt, QueueAt, Abandoned, None, messageVars,
       Goto
  <2>6. ASSUME NEW m \in Messages, Steer(a, m) PROVE JobIs(b)'
    BY <2>6, <1>types, <1>in, <1>job, <1>apart, <1>each, <1>works, <1>why,
       <1>sends, <1>mail, <1>queue
    DEF JobIs, Fresh, Accepted, MailAt, QueueAt, Steer, messageVars, Goto,
       Accepting, Steerable
  <2>7. ASSUME NEW m \in Messages, DeliverStart(a, m) PROVE JobIs(b)'
    <3>1. /\ hpc[a] = "accept" /\ job[a] \in Messages /\ job[a] = m /\ commit[m] = "yes" /\ why[a] = "none"
          /\ queued[a] = EmptyBox /\ Fresh(m) /\ message[m].to = a
          /\ UNCHANGED <<mailbox, queued, message, commit, given>>
      BY <2>7, <1>works, <1>why, <1>job, <1>in DEF DeliverStart, Accepting, CanDeliver, channelVars, JobIs
    <3>2. \/ /\ hpc' = [hpc EXCEPT ![a] = "prompting"] /\ why' = [why EXCEPT ![a] = "deliver"]
             /\ job' = [job EXCEPT ![a] = m] /\ UNCHANGED <<answer, record>>
          \/ /\ hpc' = [hpc EXCEPT ![a] = "select"] /\ job' = [job EXCEPT ![a] = None] /\ UNCHANGED why
             /\ answer' = [answer EXCEPT ![m] = "error"] /\ record' = [record EXCEPT ![m] = "removed"]
      BY <2>7 DEF DeliverStart, Prompting, Goto, Refuse, RollBack
    <3>3. CASE /\ hpc' = [hpc EXCEPT ![a] = "prompting"] /\ why' = [why EXCEPT ![a] = "deliver"]
               /\ job' = [job EXCEPT ![a] = m] /\ UNCHANGED <<answer, record>>
      BY <3>1, <3>3, <1>types, <1>in, <1>job, <1>apart, <1>each, <1>works, <1>why, <1>sends, <1>mail, <1>queue DEF JobIs, Fresh, Accepted, MailAt, QueueAt
    <3>4. CASE /\ hpc' = [hpc EXCEPT ![a] = "select"] /\ job' = [job EXCEPT ![a] = None] /\ UNCHANGED why
               /\ answer' = [answer EXCEPT ![m] = "error"] /\ record' = [record EXCEPT ![m] = "removed"]
      BY <3>1, <3>4, <1>types, <1>in, <1>job, <1>apart, <1>each, <1>works, <1>why, <1>sends, <1>mail, <1>queue DEF JobIs, Fresh, Accepted, MailAt, QueueAt
    <3> QED
      BY <3>2, <3>3, <3>4
  <2>8. ASSUME NEW m \in Messages, DeliverQueue(a, m) PROVE JobIs(b)'
    <3>1. PICK box :
               /\ InBox(box) = InBox(queued[a]) \cup {job[a]} /\ Filed(message, box)
               /\ hpc' = [hpc EXCEPT ![a] = "select"] /\ job' = [job EXCEPT ![a] = None]
               /\ \/ /\ queued' = [queued EXCEPT ![a] = box]
                     /\ answer' = [answer EXCEPT ![job[a]] = "ok"] /\ record' = record
                  \/ /\ queued' = queued
                     /\ answer' = [answer EXCEPT ![job[a]] = "error"]
                     /\ record' = [record EXCEPT ![job[a]] = "removed"]
      BY <2>8, DeliveryQueued DEF DeliverQueue, Accepting
    <3>2. /\ hpc[a] \in {"accept", "steering"} /\ job[a] \in Messages /\ commit[job[a]] = "yes" /\ why[a] = "none"
          /\ Fresh(job[a]) /\ message[job[a]].to = a
          /\ UNCHANGED <<why, mailbox, message, commit, given>>
      BY <2>8, <1>works, <1>job, <1>why, <1>in DEF DeliverQueue, Accepting, channelVars, JobIs
    <3>3. \A n \in Messages : n # job[a] => answer'[n] = answer[n] /\ record'[n] = record[n]
      BY <3>1, <3>2, <1>types
    <3>4. \A d \in Agents : d # a => queued'[d] = queued[d] /\ hpc'[d] = hpc[d] /\ job'[d] = job[d] /\ job[d] # job[a]
      BY <3>1, <3>2, <1>types, <1>apart, <1>in
    <3>5. /\ hpc'[a] = "select" /\ job'[a] = None
          /\ \/ queued'[a] = box /\ answer'[job[a]] = "ok" /\ record'[job[a]] = record[job[a]]
             \/ queued'[a] = queued[a] /\ answer'[job[a]] = "error" /\ record'[job[a]] = "removed"
      BY <3>1, <3>2, <1>types
    <3>6. InBox(box) = InBox(queued[a]) \cup {job[a]} /\ Filed(message, box)
      BY <3>1
    <3> QED
      BY <3>2, <3>3, <3>4, <3>5, <3>6, <1>types, <1>in, <1>job, <1>apart, <1>each, <1>works, <1>why, <1>sends, <1>mail, <1>queue DEF JobIs, Fresh, Accepted, MailAt, QueueAt
  <2>9. CASE SteerAdmitted(a)
    BY <2>9, <1>types, <1>in, <1>job, <1>apart, <1>each, <1>works, <1>why,
       <1>sends, <1>mail, <1>queue
    DEF JobIs, Fresh, Accepted, MailAt, QueueAt, SteerAdmitted, None,
       NoChange, Goto, Settle, Admit, Give
  <2>10. CASE SteerRefused(a)
    <3>1. PICK box :
               /\ InBox(box) = InBox(queued[a]) \cup {job[a]} /\ Filed(message, box)
               /\ hpc' = [hpc EXCEPT ![a] = "select"] /\ job' = [job EXCEPT ![a] = None]
               /\ \/ /\ queued' = [queued EXCEPT ![a] = box]
                     /\ answer' = [answer EXCEPT ![job[a]] = "ok"] /\ record' = record
                  \/ /\ queued' = queued
                     /\ answer' = [answer EXCEPT ![job[a]] = "error"]
                     /\ record' = [record EXCEPT ![job[a]] = "removed"]
      BY <2>10, DeliveryQueued DEF SteerRefused
    <3>2. /\ hpc[a] \in {"accept", "steering"} /\ job[a] \in Messages /\ commit[job[a]] = "yes" /\ why[a] = "none"
          /\ Fresh(job[a]) /\ message[job[a]].to = a
          /\ UNCHANGED <<why, mailbox, message, commit, given>>
      BY <2>10, <1>works, <1>job, <1>why, <1>in DEF SteerRefused, channelVars, JobIs
    <3>3. \A n \in Messages : n # job[a] => answer'[n] = answer[n] /\ record'[n] = record[n]
      BY <3>1, <3>2, <1>types
    <3>4. \A d \in Agents : d # a => queued'[d] = queued[d] /\ hpc'[d] = hpc[d] /\ job'[d] = job[d] /\ job[d] # job[a]
      BY <3>1, <3>2, <1>types, <1>apart, <1>in
    <3>5. /\ hpc'[a] = "select" /\ job'[a] = None
          /\ \/ queued'[a] = box /\ answer'[job[a]] = "ok" /\ record'[job[a]] = record[job[a]]
             \/ queued'[a] = queued[a] /\ answer'[job[a]] = "error" /\ record'[job[a]] = "removed"
      BY <3>1, <3>2, <1>types
    <3>6. InBox(box) = InBox(queued[a]) \cup {job[a]} /\ Filed(message, box)
      BY <3>1
    <3> QED
      BY <3>2, <3>3, <3>4, <3>5, <3>6, <1>types, <1>in, <1>job, <1>apart, <1>each, <1>works, <1>why, <1>sends, <1>mail, <1>queue DEF JobIs, Fresh, Accepted, MailAt, QueueAt
  <2>11. CASE SteerFailed(a)
    BY <2>11, <1>types, <1>in, <1>job, <1>apart, <1>each, <1>works, <1>why,
       <1>sends, <1>mail, <1>queue
    DEF JobIs, Fresh, Accepted, MailAt, QueueAt, SteerFailed, None, Goto,
       Refuse, RollBack
  <2>12. CASE CapacityChanged(a)
    BY <2>12, <1>types, <1>in, <1>job, <1>apart, <1>each, <1>works, <1>why,
       <1>sends, <1>mail, <1>queue
    DEF JobIs, Fresh, Accepted, MailAt, QueueAt, CapacityChanged, stepVars,
       messageVars, EmptyBox, Goto, NoCommand
  <2>13. CASE StartPending(a)
    BY <2>13, <1>types, <1>in, <1>job, <1>apart, <1>each, <1>works, <1>why,
       <1>sends, <1>mail, <1>queue, QueueTaken
    DEF JobIs, Fresh, Accepted, MailAt, QueueAt, StartPending, EmptyBox,
       CanReserve, CanStartTurn, Settle, Prompting, Startable, Goto
  <2>14. CASE StopPending(a)
    BY <2>14, <1>types, <1>in, <1>job, <1>apart, <1>each, <1>works, <1>why,
       <1>sends, <1>mail, <1>queue
    DEF JobIs, Fresh, Accepted, MailAt, QueueAt, StopPending, stepVars,
       messageVars, EmptyBox, CanReserve, Goto
  <2>15. CASE TurnFinished(a)
    BY <2>15, <1>types, <1>in, <1>job, <1>apart, <1>each, <1>works, <1>why,
       <1>sends, <1>mail, <1>queue
    DEF JobIs, Fresh, Accepted, MailAt, QueueAt, TurnFinished, stepVars,
       messageVars, EmptyBox, Goto, NoCommand, TurnOver
  <2>16. CASE Publish(a)
    BY <2>16, <1>types, <1>in, <1>job, <1>apart, <1>each, <1>works, <1>why,
       <1>sends, <1>mail, <1>queue
    DEF JobIs, Fresh, Accepted, MailAt, QueueAt, Publish, stepVars,
       messageVars, Goto
  <2>17. CASE TakeStop(a)
    BY <2>17, <1>types, <1>in, <1>job, <1>apart, <1>each, <1>works, <1>why,
       <1>sends, <1>mail, <1>queue
    DEF JobIs, Fresh, Accepted, MailAt, QueueAt, TakeStop, messageVars, Goto,
       IsCommand
  <2>18. CASE RejectWaiting(a)
    <3>1. PICK m \in InBox(mailbox[a]) :
               /\ InBox(mailbox'[a]) = InBox(mailbox[a]) \ {m}
               /\ Filed(message, mailbox'[a])
               /\ \A d \in Agents : d # a => mailbox'[d] = mailbox[d]
               /\ m \in Messages
               /\ \A n \in Messages : n # m => answer'[n] = answer[n] /\ record'[n] = record[n]
               /\ \/ commit[m] = "yes" /\ answer'[m] = "error" /\ record'[m] = "removed"
                  \/ commit[m] = "dropped" /\ answer'[m] = answer[m] /\ record'[m] = record[m]
      BY <2>18, WaitingRejected
    <3>2. UNCHANGED <<message, commit, given, hpc, queued, job, why, task, undo>>
      BY <2>18 DEF RejectWaiting, sessionVars, harnessVars, stepVars
    <3>3. \A d \in Agents : /\ InBox(mailbox'[d]) \subseteq InBox(mailbox[d]) 
                            /\ m \notin InBox(mailbox'[d]) /\ m \notin InBox(queued[d]) /\ m # job[d]
      BY <3>1, <1>apart
    <3> QED
      BY <3>1, <3>2, <3>3, <1>types, <1>in, <1>job, <1>apart, <1>each, <1>works, <1>why, <1>sends, <1>mail, <1>queue DEF JobIs, Fresh, Accepted, MailAt, QueueAt
  <2>19. CASE UrgentRejected(a)
    BY <2>19, <1>types, <1>in, <1>job, <1>apart, <1>each, <1>works, <1>why,
       <1>sends, <1>mail, <1>queue
    DEF JobIs, Fresh, Accepted, MailAt, QueueAt, UrgentRejected, stepVars,
       messageVars, Goto
  <2>20. CASE AllRejected(a)
    BY <2>20, <1>types, <1>in, <1>job, <1>apart, <1>each, <1>works, <1>why,
       <1>sends, <1>mail, <1>queue
    DEF JobIs, Fresh, Accepted, MailAt, QueueAt, AllRejected, Goto,
       FailPending, EmptyBox
  <2>21. CASE Shutdown(a)
    BY <2>21, <1>types, <1>in, <1>job, <1>apart, <1>each, <1>works, <1>why,
       <1>sends, <1>mail, <1>queue
    DEF JobIs, Fresh, Accepted, MailAt, QueueAt, Shutdown, stepVars,
       messageVars, Goto
  <2>22. CASE FinishActive(a)
    BY <2>22, <1>types, <1>in, <1>job, <1>apart, <1>each, <1>works, <1>why,
       <1>sends, <1>mail, <1>queue
    DEF JobIs, Fresh, Accepted, MailAt, QueueAt, FinishActive, stepVars,
       messageVars, Goto, TurnOver
  <2>23. CASE Release(a)
    BY <2>23, <1>types, <1>in, <1>job, <1>apart, <1>each, <1>works, <1>why,
       <1>sends, <1>mail, <1>queue
    DEF JobIs, Fresh, Accepted, MailAt, QueueAt, Release, messageVars, Goto
  <2>24. CASE HarnessClosed(a)
    <3>1. PICK as \in SUBSET Agents : CleanUp(as)
      BY <2>24, LateCleans DEF HarnessClosed
    <3>2. /\ \A d \in as : /\ mailbox'[d] = EmptyBox /\ queued'[d] = EmptyBox
                           /\ job'[d] = None /\ hpc'[d] = "gone" /\ undo'[d] = NoChange
          /\ \A d \in Agents \ as :
               /\ mailbox'[d] = mailbox[d] /\ queued'[d] = queued[d] /\ job'[d] = job[d]
               /\ hpc'[d] = hpc[d] /\ undo'[d] = undo[d] /\ why'[d] = why[d]
          /\ \A m \in Messages :
               \/ answer'[m] = answer[m]
               \/ /\ message[m].to \in as /\ commit[m] # "unsent"
                  /\ answer[m] = "none" /\ answer'[m] = "dropped"
          /\ \A d \in as : \A m \in InBox(mailbox[d]) : answer'[m] = "dropped"
      BY <3>1, CleanedUp
    <3>3. UNCHANGED <<message, commit, record, given, task>>
      BY <2>24 DEF HarnessClosed
    <3>4. CASE b \in as
      <4>1. /\ mailbox'[b] = EmptyBox /\ queued'[b] = EmptyBox
            /\ job'[b] = None /\ hpc'[b] = "gone" /\ undo'[b] = NoChange
        BY <3>2, <3>4
      <4> QED
        BY <3>3, <4>1, EmptyFiled, <1>in, <1>job DEF JobIs, Fresh, Accepted, MailAt, QueueAt
    <3>5. CASE b \notin as
      <4>1. /\ mailbox'[b] = mailbox[b] /\ queued'[b] = queued[b] /\ job'[b] = job[b]
            /\ hpc'[b] = hpc[b] /\ undo'[b] = undo[b] /\ why'[b] = why[b]
        BY <3>2, <3>5
      <4>2. \A m \in Messages : message[m].to = b => answer'[m] = answer[m]
        BY <3>2, <3>5
      <4> QED
        BY <3>3, <4>1, <4>2, <1>in, <1>types, <1>job DEF JobIs, Fresh, Accepted, MailAt, QueueAt
    <3> QED
      BY <3>4, <3>5
  <2> QED BY <1>1, <2>1, <2>2, <2>3, <2>4, <2>5, <2>6, <2>7, <2>8, <2>9,
   <2>10, <2>11, <2>12, <2>13, <2>14, <2>15, <2>16, <2>17, <2>18, <2>19,
   <2>20, <2>21, <2>22, <2>23, <2>24 DEF HarnessStep
<1>2. ASSUME NEW a \in Agents, LibraryStep(a) PROVE JobIs(b)'
  <2>1. ASSUME (\E result \in Outcomes : TurnEnds(a, result)) \/ EventsEnd(a) \/
              EventsDone(a)
       PROVE  JobIs(b)'
    <3>1. UNCHANGED <<hpc, why, job, message, commit, answer, record, given>>
      BY <2>1
      DEF TurnEnds, stepVars, messageVars, EventsEnd, harnessVars, EventsDone
    <3> QED BY <3>1, <1>types, <1>in, <1>job, <1>apart, <1>each, <1>works,
       <1>why, <1>sends, <1>mail, <1>queue  DEF JobIs, Fresh, Accepted, MailAt, QueueAt
  <2> QED BY <1>2, <2>1 DEF LibraryStep
<1>3. ASSUME NEW c \in Calls, CallStep(c) \/ CallDropped(c) PROVE JobIs(b)'
  <2>1. ASSUME NEW a \in Agents, SpawnInsert(c, a) PROVE JobIs(b)'
    <3>1. hpc[a] = "absent"
      BY <2>1 DEF SpawnInsert, IInv, SpawnInv, HarnessInv, AbsentAt
    <3>2. job[a] = None /\ hpc'[a] = "select"
      BY <2>1, <3>1, <1>works, <1>types DEF SpawnInsert, Goto
    <3>3. \A d \in Agents : d # a => hpc'[d] = hpc[d]
      BY <2>1, <1>types DEF SpawnInsert, Goto
    <3>4. UNCHANGED <<why, job, undo, task, mailbox, queued, message, commit, answer, record, given>>
      BY <2>1 DEF SpawnInsert, stepVars, channelVars, messageVars
    <3> QED
      BY <3>2, <3>3, <3>4, <1>types, <1>in, <1>job, <1>apart, <1>each, <1>works, <1>why, <1>sends, <1>mail, <1>queue DEF JobIs, Fresh, Accepted, MailAt, QueueAt
  <2>2. CASE FinishLate(c)
    <3>1. PICK as \in SUBSET Agents : CleanUp(as)
      BY <2>2, LateCleans DEF FinishLate
    <3>2. /\ \A d \in as : /\ mailbox'[d] = EmptyBox /\ queued'[d] = EmptyBox
                           /\ job'[d] = None /\ hpc'[d] = "gone" /\ undo'[d] = NoChange
          /\ \A d \in Agents \ as :
               /\ mailbox'[d] = mailbox[d] /\ queued'[d] = queued[d] /\ job'[d] = job[d]
               /\ hpc'[d] = hpc[d] /\ undo'[d] = undo[d] /\ why'[d] = why[d]
          /\ \A m \in Messages :
               \/ answer'[m] = answer[m]
               \/ /\ message[m].to \in as /\ commit[m] # "unsent"
                  /\ answer[m] = "none" /\ answer'[m] = "dropped"
          /\ \A d \in as : \A m \in InBox(mailbox[d]) : answer'[m] = "dropped"
      BY <3>1, CleanedUp
    <3>3. UNCHANGED <<message, commit, record, given, task>>
      BY <2>2 DEF FinishLate
    <3>4. CASE b \in as
      <4>1. /\ mailbox'[b] = EmptyBox /\ queued'[b] = EmptyBox
            /\ job'[b] = None /\ hpc'[b] = "gone" /\ undo'[b] = NoChange
        BY <3>2, <3>4
      <4> QED
        BY <3>3, <4>1, EmptyFiled, <1>in, <1>job DEF JobIs, Fresh, Accepted, MailAt, QueueAt
    <3>5. CASE b \notin as
      <4>1. /\ mailbox'[b] = mailbox[b] /\ queued'[b] = queued[b] /\ job'[b] = job[b]
            /\ hpc'[b] = hpc[b] /\ undo'[b] = undo[b] /\ why'[b] = why[b]
        BY <3>2, <3>5
      <4>2. \A m \in Messages : message[m].to = b => answer'[m] = answer[m]
        BY <3>2, <3>5
      <4> QED
        BY <3>3, <4>1, <4>2, <1>in, <1>types, <1>job DEF JobIs, Fresh, Accepted, MailAt, QueueAt
    <3> QED
      BY <3>4, <3>5
  <2>3. CASE SendCommit(c)
    BY <2>3, <1>types, <1>in, <1>job, <1>apart, <1>each, <1>works, <1>why,
       <1>sends, <1>mail, <1>queue
    DEF JobIs, Fresh, Accepted, MailAt, QueueAt, SendCommit, harnessVars,
       stepVars
  <2>4. CASE SendReturns(c)
    BY <2>4, <1>types, <1>in, <1>job, <1>apart, <1>each, <1>works, <1>why,
       <1>sends, <1>mail, <1>queue
    DEF JobIs, Fresh, Accepted, MailAt, QueueAt, SendReturns, harnessVars,
       RollBack, Delivered, stepVars
  <2>5. CASE CallDropped(c)
    BY <2>5, <1>types, <1>in, <1>job, <1>apart, <1>each, <1>works, <1>why,
       <1>sends, <1>mail, <1>queue
    DEF JobIs, Fresh, Accepted, MailAt, QueueAt, CallDropped, Root,
       harnessVars, Holding, stepVars
  <2>6. ASSUME SpawnReserveId(c) \/ SpawnFails(c) \/ SpawnReturns(c) \/ (\E a \in
              Agents : SpawnLaunch(c, a)) \/ StopSend(c) \/ InterruptReturns(c) \/
              CloseInactive(c) \/ FinishClose(c) \/ CloseReturns(c)
       PROVE  JobIs(b)'
    <3>1. UNCHANGED <<hpc, why, job, message, commit, answer, record, given>>
      BY <2>6
      DEF SpawnReserveId, harnessVars, messageVars, stepVars, SpawnFails,
         SpawnReturns, OnlyCalls, SpawnLaunch, StopSend, InterruptReturns,
         CloseInactive, FinishClose, CloseReturns
    <3> QED BY <3>1, <1>types, <1>in, <1>job, <1>apart, <1>each, <1>works,
       <1>why, <1>sends, <1>mail, <1>queue  DEF JobIs, Fresh, Accepted, MailAt, QueueAt
  <2> QED BY <1>3, <2>1, <2>2, <2>3, <2>4, <2>5, <2>6 DEF CallStep
<1>4. ASSUME NEW c \in Calls, NEW session \in Sessions, CallBegins(c, session) PROVE JobIs(b)'
  <2>1. ASSUME NEW a \in Agents, NEW urgent \in BOOLEAN, NEW delegate \in BOOLEAN, SendPrepare(c, session, a, urgent, delegate) PROVE JobIs(b)'
    <3>1. PICK m \in Messages : Posted(a, m)
      BY <2>1, SendPosts
    <3>2. /\ message'[m].to = a /\ commit'[m] = "wait" /\ answer'[m] = "none" /\ given'[m] = 0
          /\ UNCHANGED <<hpc, why, job, undo, queued, task, answer, record, given>>
      BY <3>1, <1>each DEF Posted, MessageAt
    <3>3. \A n \in Messages : commit[n] # "unsent" =>
            n # m /\ n < m /\ message'[n] = message[n] /\ commit'[n] = commit[n]
      BY <3>1 DEF Posted
    <3>4. \A d \in Agents : /\ \A n \in InBox(mailbox[d]) : commit[n] # "unsent" /\ message[n].to = d
                            /\ \A n \in InBox(queued[d]) : commit[n] # "unsent" /\ message[n].to = d
                            /\ job[d] # None => commit[job[d]] # "unsent" /\ message[job[d]].to = d
      BY <1>mail, <1>queue, <1>job DEF MailAt, QueueAt, JobIs, Fresh, Accepted
    <3>5. \A d \in Agents : /\ \A n \in InBox(mailbox'[d]) : n \in InBox(mailbox[d]) \/ (n = m /\ d = a)
                            /\ Filed(message', mailbox'[d]) /\ Filed(message', queued[d])
      BY <3>1 DEF Posted
    <3> QED
      BY <3>2, <3>3, <3>4, <3>5, <1>in, <1>types, <1>job DEF JobIs, Fresh, Accepted, MailAt, QueueAt
  <2>2. ASSUME SpawnReserveTurn(c, session) \/ (\E operation \in Stops, target \in
              Sessions : StopRequest(c, session, operation, target))
       PROVE  JobIs(b)'
    <3>1. UNCHANGED <<hpc, why, job, message, commit, answer, record, given>>
      BY <2>2
      DEF SpawnReserveTurn, harnessVars, messageVars, stepVars, StopRequest
    <3> QED BY <3>1, <1>types, <1>in, <1>job, <1>apart, <1>each, <1>works,
       <1>why, <1>sends, <1>mail, <1>queue  DEF JobIs, Fresh, Accepted, MailAt, QueueAt
  <2> QED BY <1>4, <2>1, <2>2 DEF CallBegins
<1>5. ASSUME Disturbance PROVE JobIs(b)'
  <2>1. ASSUME (\E c \in Calls : StopTimesOut(c)) \/ (\E c \in Calls :
              JoinTimesOut(c)) \/ (\E a \in Agents : Submit(a)) \/ (\E a \in Agents
              : DriverDies(a)) \/ (\E n \in Limits : SetLimit(n))
       PROVE  JobIs(b)'
    <3>1. UNCHANGED <<hpc, why, job, message, commit, answer, record, given>>
      BY <2>1
      DEF StopTimesOut, OnlyCalls, harnessVars, messageVars, stepVars,
         JoinTimesOut, Submit, DriverDies, SetLimit
    <3> QED BY <3>1, <1>types, <1>in, <1>job, <1>apart, <1>each, <1>works,
       <1>why, <1>sends, <1>mail, <1>queue  DEF JobIs, Fresh, Accepted, MailAt, QueueAt
  <2> QED BY <1>5, <2>1 DEF Disturbance
<1> QED BY <1>1, <1>2, <1>3, <1>4, <1>5 DEF Next

(* What a harness has in hand was sent before what is still to come.       *)
LEMMA JobLineKept ==
  ASSUME IInv, MInv, NEW b \in Agents, Next
  PROVE  JobLine(b)'
<1>types. /\ hpc \in [Agents -> HarnessPoints] /\ why \in [Agents -> Reasons]
          /\ job \in [Agents -> {None} \cup Messages]
          /\ undo \in [Agents -> {None, NoChange} \cup Messages]
          /\ task \in [Agents -> {None} \cup Messages]
          /\ mailbox \in [Agents -> Boxes] /\ queued \in [Agents -> Boxes]
          /\ commit \in [Messages -> {"unsent", "wait", "yes", "dropped"}]
          /\ answer \in [Messages -> {"none", "ok", "error", "dropped"}]
          /\ record \in [Messages -> {"none", "pending", "settled", "removed"}]
          /\ given \in [Messages -> Nat]
  BY DEF IInv, TypeInv, HarnessTypes, SessionTypes, ChannelTypes, MessageTypes
<1>in. /\ \A a \in Agents : InBox(mailbox[a]) \subseteq Messages /\ InBox(queued[a]) \subseteq Messages
       /\ None \notin Messages /\ NoChange \notin Messages /\ InBox(EmptyBox) = {}
  BY Placed
<1>mail. \A a \in Agents : MailAt(a) 
  BY DEF MInv, BoxesAt
<1>queue. \A a \in Agents : QueueAt(a) 
  BY DEF MInv, BoxesAt
<1>line. \A a \in Agents : LineAt(a) 
  BY DEF MInv, BoxesAt
<1>job. \A a \in Agents : JobIs(a) 
  BY DEF MInv, JobAt
<1>jobline. \A a \in Agents : JobLine(a) 
  BY DEF MInv, JobAt
<1>apart. \A a, c \in Agents :
    /\ \A m \in InBox(mailbox[a]) :
         m \notin InBox(queued[c]) /\ m # job[c] /\ (m \in InBox(mailbox[c]) => a = c)
    /\ \A m \in InBox(queued[a]) : m # job[c] /\ (m \in InBox(queued[c]) => a = c)
    /\ job[a] # None /\ job[a] = job[c] => a = c
  BY AreApart DEF Apart
<1>each. \A m \in Messages : MessageAt(m)
  BY DEF MInv
<1>works. \A a \in Agents : /\ hpc[a] \in {"accept", "steering"} => job[a] \in Messages
                            /\ hpc[a] = "prompting" /\ why[a] # "start" => job[a] \in Messages
                            /\ hpc[a] \notin {"accept", "steering", "prompting"} => job[a] = None
  BY DEF IInv, TypeInv, JobInv, MInv, JobAt, JobIs
<1>why. \A a \in Agents : 
          /\ hpc[a] = "prompting" => why[a] \in {"start", "deliver", "pending"}
          /\ hpc[a] \in {"select", "accept", "steering", "pending"} => why[a] = "none"
  BY DEF IInv, HarnessInv, WhyAt, Stopping
<1>1. ASSUME NEW a \in Agents, HarnessStep(a) PROVE JobLine(b)'
  <2>1. CASE TakeStart(a)
    BY <2>1, <1>types, <1>in, <1>jobline, <1>job, <1>apart, <1>works, <1>why,
       <1>line
    DEF JobLine, Before, JobIs, LineAt, TakeStart, None, messageVars,
       CanStartTurn, Prompting, IsCommand, Startable, Goto
  <2>2. CASE PromptAccepted(a)
    BY <2>2, <1>types, <1>in, <1>jobline, <1>job, <1>apart, <1>works, <1>why,
       <1>line
    DEF JobLine, Before, JobIs, LineAt, PromptAccepted, None, channelVars,
       NoChange, Goto
  <2>3. CASE PromptFailed(a)
    BY <2>3, <1>types, <1>in, <1>jobline, <1>job, <1>apart, <1>works, <1>why,
       <1>line
    DEF JobLine, Before, JobIs, LineAt, PromptFailed, None, channelVars, Goto
  <2>4. CASE TakeDelivery(a)
    BY <2>4, <1>types, <1>in, <1>jobline, <1>job, <1>apart, <1>works, <1>why,
       <1>line, MailTaken
    DEF JobLine, Before, JobIs, LineAt, TakeDelivery, messageVars, EmptyBox,
       Goto, NoCommand
  <2>5. CASE Abandoned(a)
    BY <2>5, <1>types, <1>in, <1>jobline, <1>job, <1>apart, <1>works, <1>why,
       <1>line
    DEF JobLine, Before, JobIs, LineAt, Abandoned, None, channelVars,
       messageVars, Goto
  <2>6. ASSUME NEW m \in Messages, Steer(a, m) PROVE JobLine(b)'
    BY <2>6, <1>types, <1>in, <1>jobline, <1>job, <1>apart, <1>works, <1>why,
       <1>line
    DEF JobLine, Before, JobIs, LineAt, Steer, channelVars, messageVars, Goto,
       Accepting, Steerable
  <2>7. ASSUME NEW m \in Messages, DeliverStart(a, m) PROVE JobLine(b)'
    <3>1. /\ hpc[a] = "accept" /\ job[a] \in Messages /\ job[a] = m /\ commit[m] = "yes" /\ why[a] = "none"
          /\ queued[a] = EmptyBox /\ Fresh(m) /\ message[m].to = a
          /\ UNCHANGED <<mailbox, queued, message, commit, given>>
      BY <2>7, <1>works, <1>why, <1>job, <1>in DEF DeliverStart, Accepting, CanDeliver, channelVars, JobIs
    <3>2. \/ /\ hpc' = [hpc EXCEPT ![a] = "prompting"] /\ why' = [why EXCEPT ![a] = "deliver"]
             /\ job' = [job EXCEPT ![a] = m] /\ UNCHANGED <<answer, record>>
          \/ /\ hpc' = [hpc EXCEPT ![a] = "select"] /\ job' = [job EXCEPT ![a] = None] /\ UNCHANGED why
             /\ answer' = [answer EXCEPT ![m] = "error"] /\ record' = [record EXCEPT ![m] = "removed"]
      BY <2>7 DEF DeliverStart, Prompting, Goto, Refuse, RollBack
    <3>3. CASE /\ hpc' = [hpc EXCEPT ![a] = "prompting"] /\ why' = [why EXCEPT ![a] = "deliver"]
               /\ job' = [job EXCEPT ![a] = m] /\ UNCHANGED <<answer, record>>
      BY <3>1, <3>3, <1>types, <1>in, <1>jobline, <1>job, <1>apart, <1>works, <1>why, <1>line DEF JobLine, Before, JobIs, LineAt
    <3>4. CASE /\ hpc' = [hpc EXCEPT ![a] = "select"] /\ job' = [job EXCEPT ![a] = None] /\ UNCHANGED why
               /\ answer' = [answer EXCEPT ![m] = "error"] /\ record' = [record EXCEPT ![m] = "removed"]
      BY <3>1, <3>4, <1>types, <1>in, <1>jobline, <1>job, <1>apart, <1>works, <1>why, <1>line DEF JobLine, Before, JobIs, LineAt
    <3> QED
      BY <3>2, <3>3, <3>4
  <2>8. ASSUME NEW m \in Messages, DeliverQueue(a, m) PROVE JobLine(b)'
    <3>1. PICK box :
               /\ InBox(box) = InBox(queued[a]) \cup {job[a]} /\ Filed(message, box)
               /\ hpc' = [hpc EXCEPT ![a] = "select"] /\ job' = [job EXCEPT ![a] = None]
               /\ \/ /\ queued' = [queued EXCEPT ![a] = box]
                     /\ answer' = [answer EXCEPT ![job[a]] = "ok"] /\ record' = record
                  \/ /\ queued' = queued
                     /\ answer' = [answer EXCEPT ![job[a]] = "error"]
                     /\ record' = [record EXCEPT ![job[a]] = "removed"]
      BY <2>8, DeliveryQueued DEF DeliverQueue, Accepting
    <3>2. /\ hpc[a] \in {"accept", "steering"} /\ job[a] \in Messages /\ commit[job[a]] = "yes" /\ why[a] = "none"
          /\ Fresh(job[a]) /\ message[job[a]].to = a
          /\ UNCHANGED <<why, mailbox, message, commit, given>>
      BY <2>8, <1>works, <1>job, <1>why, <1>in DEF DeliverQueue, Accepting, channelVars, JobIs
    <3>3. \A n \in Messages : n # job[a] => answer'[n] = answer[n] /\ record'[n] = record[n]
      BY <3>1, <3>2, <1>types
    <3>4. \A d \in Agents : d # a => queued'[d] = queued[d] /\ hpc'[d] = hpc[d] /\ job'[d] = job[d] /\ job[d] # job[a]
      BY <3>1, <3>2, <1>types, <1>apart, <1>in
    <3>5. /\ hpc'[a] = "select" /\ job'[a] = None
          /\ \/ queued'[a] = box /\ answer'[job[a]] = "ok" /\ record'[job[a]] = record[job[a]]
             \/ queued'[a] = queued[a] /\ answer'[job[a]] = "error" /\ record'[job[a]] = "removed"
      BY <3>1, <3>2, <1>types
    <3>6. InBox(box) = InBox(queued[a]) \cup {job[a]} /\ Filed(message, box)
      BY <3>1
    <3> QED
      BY <3>2, <3>3, <3>4, <3>5, <3>6, <1>types, <1>in, <1>jobline, <1>job, <1>apart, <1>works, <1>why, <1>line DEF JobLine, Before, JobIs, LineAt
  <2>9. CASE SteerAdmitted(a)
    BY <2>9, <1>types, <1>in, <1>jobline, <1>job, <1>apart, <1>works, <1>why,
       <1>line
    DEF JobLine, Before, JobIs, LineAt, SteerAdmitted, None, channelVars,
       NoChange, Goto
  <2>10. CASE SteerRefused(a)
    <3>1. PICK box :
               /\ InBox(box) = InBox(queued[a]) \cup {job[a]} /\ Filed(message, box)
               /\ hpc' = [hpc EXCEPT ![a] = "select"] /\ job' = [job EXCEPT ![a] = None]
               /\ \/ /\ queued' = [queued EXCEPT ![a] = box]
                     /\ answer' = [answer EXCEPT ![job[a]] = "ok"] /\ record' = record
                  \/ /\ queued' = queued
                     /\ answer' = [answer EXCEPT ![job[a]] = "error"]
                     /\ record' = [record EXCEPT ![job[a]] = "removed"]
      BY <2>10, DeliveryQueued DEF SteerRefused
    <3>2. /\ hpc[a] \in {"accept", "steering"} /\ job[a] \in Messages /\ commit[job[a]] = "yes" /\ why[a] = "none"
          /\ Fresh(job[a]) /\ message[job[a]].to = a
          /\ UNCHANGED <<why, mailbox, message, commit, given>>
      BY <2>10, <1>works, <1>job, <1>why, <1>in DEF SteerRefused, channelVars, JobIs
    <3>3. \A n \in Messages : n # job[a] => answer'[n] = answer[n] /\ record'[n] = record[n]
      BY <3>1, <3>2, <1>types
    <3>4. \A d \in Agents : d # a => queued'[d] = queued[d] /\ hpc'[d] = hpc[d] /\ job'[d] = job[d] /\ job[d] # job[a]
      BY <3>1, <3>2, <1>types, <1>apart, <1>in
    <3>5. /\ hpc'[a] = "select" /\ job'[a] = None
          /\ \/ queued'[a] = box /\ answer'[job[a]] = "ok" /\ record'[job[a]] = record[job[a]]
             \/ queued'[a] = queued[a] /\ answer'[job[a]] = "error" /\ record'[job[a]] = "removed"
      BY <3>1, <3>2, <1>types
    <3>6. InBox(box) = InBox(queued[a]) \cup {job[a]} /\ Filed(message, box)
      BY <3>1
    <3> QED
      BY <3>2, <3>3, <3>4, <3>5, <3>6, <1>types, <1>in, <1>jobline, <1>job, <1>apart, <1>works, <1>why, <1>line DEF JobLine, Before, JobIs, LineAt
  <2>11. CASE SteerFailed(a)
    BY <2>11, <1>types, <1>in, <1>jobline, <1>job, <1>apart, <1>works, <1>why,
       <1>line
    DEF JobLine, Before, JobIs, LineAt, SteerFailed, None, channelVars, Goto
  <2>12. CASE CapacityChanged(a)
    BY <2>12, <1>types, <1>in, <1>jobline, <1>job, <1>apart, <1>works, <1>why,
       <1>line
    DEF JobLine, Before, JobIs, LineAt, CapacityChanged, stepVars,
       channelVars, messageVars, EmptyBox, Goto, NoCommand
  <2>13. CASE StartPending(a)
    BY <2>13, <1>types, <1>in, <1>jobline, <1>job, <1>apart, <1>works, <1>why,
       <1>line, QueueTaken
    DEF JobLine, Before, JobIs, LineAt, StartPending, channelVars, EmptyBox,
       CanReserve, CanStartTurn, Prompting, Startable, Goto
  <2>14. CASE StopPending(a)
    BY <2>14, <1>types, <1>in, <1>jobline, <1>job, <1>apart, <1>works, <1>why,
       <1>line
    DEF JobLine, Before, JobIs, LineAt, StopPending, stepVars, channelVars,
       messageVars, EmptyBox, CanReserve, Goto
  <2>15. CASE TurnFinished(a)
    BY <2>15, <1>types, <1>in, <1>jobline, <1>job, <1>apart, <1>works, <1>why,
       <1>line
    DEF JobLine, Before, JobIs, LineAt, TurnFinished, stepVars, channelVars,
       messageVars, EmptyBox, Goto, NoCommand, TurnOver
  <2>16. CASE Publish(a)
    BY <2>16, <1>types, <1>in, <1>jobline, <1>job, <1>apart, <1>works, <1>why,
       <1>line
    DEF JobLine, Before, JobIs, LineAt, Publish, stepVars, channelVars,
       messageVars, Goto
  <2>17. CASE TakeStop(a)
    BY <2>17, <1>types, <1>in, <1>jobline, <1>job, <1>apart, <1>works, <1>why,
       <1>line
    DEF JobLine, Before, JobIs, LineAt, TakeStop, messageVars, Goto, IsCommand
  <2>18. CASE RejectWaiting(a)
    <3>1. PICK m \in InBox(mailbox[a]) :
               /\ InBox(mailbox'[a]) = InBox(mailbox[a]) \ {m}
               /\ Filed(message, mailbox'[a])
               /\ \A d \in Agents : d # a => mailbox'[d] = mailbox[d]
               /\ m \in Messages
               /\ \A n \in Messages : n # m => answer'[n] = answer[n] /\ record'[n] = record[n]
               /\ \/ commit[m] = "yes" /\ answer'[m] = "error" /\ record'[m] = "removed"
                  \/ commit[m] = "dropped" /\ answer'[m] = answer[m] /\ record'[m] = record[m]
      BY <2>18, WaitingRejected
    <3>2. UNCHANGED <<message, commit, given, hpc, queued, job, why, task, undo>>
      BY <2>18 DEF RejectWaiting, sessionVars, harnessVars, stepVars
    <3>3. \A d \in Agents : /\ InBox(mailbox'[d]) \subseteq InBox(mailbox[d]) 
                            /\ m \notin InBox(mailbox'[d]) /\ m \notin InBox(queued[d]) /\ m # job[d]
      BY <3>1, <1>apart
    <3> QED
      BY <3>1, <3>2, <3>3, <1>types, <1>in, <1>jobline, <1>job, <1>apart, <1>works, <1>why, <1>line DEF JobLine, Before, JobIs, LineAt
  <2>19. CASE UrgentRejected(a)
    BY <2>19, <1>types, <1>in, <1>jobline, <1>job, <1>apart, <1>works, <1>why,
       <1>line
    DEF JobLine, Before, JobIs, LineAt, UrgentRejected, stepVars, channelVars,
       messageVars, Goto
  <2>20. CASE AllRejected(a)
    BY <2>20, <1>types, <1>in, <1>jobline, <1>job, <1>apart, <1>works, <1>why,
       <1>line
    DEF JobLine, Before, JobIs, LineAt, AllRejected, channelVars, Goto,
       FailPending, EmptyBox
  <2>21. CASE Shutdown(a)
    BY <2>21, <1>types, <1>in, <1>jobline, <1>job, <1>apart, <1>works, <1>why,
       <1>line
    DEF JobLine, Before, JobIs, LineAt, Shutdown, stepVars, channelVars,
       messageVars, Goto
  <2>22. CASE FinishActive(a)
    BY <2>22, <1>types, <1>in, <1>jobline, <1>job, <1>apart, <1>works, <1>why,
       <1>line
    DEF JobLine, Before, JobIs, LineAt, FinishActive, stepVars, channelVars,
       messageVars, Goto, TurnOver
  <2>23. CASE Release(a)
    BY <2>23, <1>types, <1>in, <1>jobline, <1>job, <1>apart, <1>works, <1>why,
       <1>line
    DEF JobLine, Before, JobIs, LineAt, Release, channelVars, messageVars,
       Goto
  <2>24. CASE HarnessClosed(a)
    <3>1. PICK as \in SUBSET Agents : CleanUp(as)
      BY <2>24, LateCleans DEF HarnessClosed
    <3>2. /\ \A d \in as : /\ mailbox'[d] = EmptyBox /\ queued'[d] = EmptyBox
                           /\ job'[d] = None /\ hpc'[d] = "gone" /\ undo'[d] = NoChange
          /\ \A d \in Agents \ as :
               /\ mailbox'[d] = mailbox[d] /\ queued'[d] = queued[d] /\ job'[d] = job[d]
               /\ hpc'[d] = hpc[d] /\ undo'[d] = undo[d] /\ why'[d] = why[d]
          /\ \A m \in Messages :
               \/ answer'[m] = answer[m]
               \/ /\ message[m].to \in as /\ commit[m] # "unsent"
                  /\ answer[m] = "none" /\ answer'[m] = "dropped"
          /\ \A d \in as : \A m \in InBox(mailbox[d]) : answer'[m] = "dropped"
      BY <3>1, CleanedUp
    <3>3. UNCHANGED <<message, commit, record, given, task>>
      BY <2>24 DEF HarnessClosed
    <3>4. CASE b \in as
      <4>1. /\ mailbox'[b] = EmptyBox /\ queued'[b] = EmptyBox
            /\ job'[b] = None /\ hpc'[b] = "gone" /\ undo'[b] = NoChange
        BY <3>2, <3>4
      <4> QED
        BY <3>3, <4>1, EmptyFiled, <1>in, <1>jobline DEF JobLine, Before, JobIs, LineAt
    <3>5. CASE b \notin as
      <4>1. /\ mailbox'[b] = mailbox[b] /\ queued'[b] = queued[b] /\ job'[b] = job[b]
            /\ hpc'[b] = hpc[b] /\ undo'[b] = undo[b] /\ why'[b] = why[b]
        BY <3>2, <3>5
      <4>2. \A m \in Messages : message[m].to = b => answer'[m] = answer[m]
        BY <3>2, <3>5
      <4> QED
        BY <3>3, <4>1, <4>2, <1>in, <1>types, <1>jobline DEF JobLine, Before, JobIs, LineAt
    <3> QED
      BY <3>4, <3>5
  <2> QED BY <1>1, <2>1, <2>2, <2>3, <2>4, <2>5, <2>6, <2>7, <2>8, <2>9,
   <2>10, <2>11, <2>12, <2>13, <2>14, <2>15, <2>16, <2>17, <2>18, <2>19,
   <2>20, <2>21, <2>22, <2>23, <2>24 DEF HarnessStep
<1>2. ASSUME NEW a \in Agents, LibraryStep(a) PROVE JobLine(b)'
  <2>1. ASSUME (\E result \in Outcomes : TurnEnds(a, result)) \/ EventsEnd(a) \/
              EventsDone(a)
       PROVE  JobLine(b)'
    <3>1. UNCHANGED <<hpc, job, queued, mailbox, message>>
      BY <2>1
      DEF TurnEnds, stepVars, channelVars, messageVars, EventsEnd,
         harnessVars, EventsDone
    <3> QED BY <3>1, <1>types, <1>in, <1>jobline, <1>job, <1>apart, <1>works,
       <1>why, <1>line  DEF JobLine, Before, JobIs, LineAt
  <2> QED BY <1>2, <2>1 DEF LibraryStep
<1>3. ASSUME NEW c \in Calls, CallStep(c) \/ CallDropped(c) PROVE JobLine(b)'
  <2>1. ASSUME NEW a \in Agents, SpawnInsert(c, a) PROVE JobLine(b)'
    <3>1. hpc[a] = "absent"
      BY <2>1 DEF SpawnInsert, IInv, SpawnInv, HarnessInv, AbsentAt
    <3>2. job[a] = None /\ hpc'[a] = "select"
      BY <2>1, <3>1, <1>works, <1>types DEF SpawnInsert, Goto
    <3>3. \A d \in Agents : d # a => hpc'[d] = hpc[d]
      BY <2>1, <1>types DEF SpawnInsert, Goto
    <3>4. UNCHANGED <<why, job, undo, task, mailbox, queued, message, commit, answer, record, given>>
      BY <2>1 DEF SpawnInsert, stepVars, channelVars, messageVars
    <3> QED
      BY <3>2, <3>3, <3>4, <1>types, <1>in, <1>jobline, <1>job, <1>apart, <1>works, <1>why, <1>line DEF JobLine, Before, JobIs, LineAt
  <2>2. CASE FinishLate(c)
    <3>1. PICK as \in SUBSET Agents : CleanUp(as)
      BY <2>2, LateCleans DEF FinishLate
    <3>2. /\ \A d \in as : /\ mailbox'[d] = EmptyBox /\ queued'[d] = EmptyBox
                           /\ job'[d] = None /\ hpc'[d] = "gone" /\ undo'[d] = NoChange
          /\ \A d \in Agents \ as :
               /\ mailbox'[d] = mailbox[d] /\ queued'[d] = queued[d] /\ job'[d] = job[d]
               /\ hpc'[d] = hpc[d] /\ undo'[d] = undo[d] /\ why'[d] = why[d]
          /\ \A m \in Messages :
               \/ answer'[m] = answer[m]
               \/ /\ message[m].to \in as /\ commit[m] # "unsent"
                  /\ answer[m] = "none" /\ answer'[m] = "dropped"
          /\ \A d \in as : \A m \in InBox(mailbox[d]) : answer'[m] = "dropped"
      BY <3>1, CleanedUp
    <3>3. UNCHANGED <<message, commit, record, given, task>>
      BY <2>2 DEF FinishLate
    <3>4. CASE b \in as
      <4>1. /\ mailbox'[b] = EmptyBox /\ queued'[b] = EmptyBox
            /\ job'[b] = None /\ hpc'[b] = "gone" /\ undo'[b] = NoChange
        BY <3>2, <3>4
      <4> QED
        BY <3>3, <4>1, EmptyFiled, <1>in, <1>jobline DEF JobLine, Before, JobIs, LineAt
    <3>5. CASE b \notin as
      <4>1. /\ mailbox'[b] = mailbox[b] /\ queued'[b] = queued[b] /\ job'[b] = job[b]
            /\ hpc'[b] = hpc[b] /\ undo'[b] = undo[b] /\ why'[b] = why[b]
        BY <3>2, <3>5
      <4>2. \A m \in Messages : message[m].to = b => answer'[m] = answer[m]
        BY <3>2, <3>5
      <4> QED
        BY <3>3, <4>1, <4>2, <1>in, <1>types, <1>jobline DEF JobLine, Before, JobIs, LineAt
    <3> QED
      BY <3>4, <3>5
  <2>3. ASSUME SpawnReserveId(c) \/ SpawnFails(c) \/ SpawnReturns(c) \/ (\E a \in
              Agents : SpawnLaunch(c, a)) \/ StopSend(c) \/ InterruptReturns(c) \/
              CloseInactive(c) \/ FinishClose(c) \/ CloseReturns(c) \/ SendCommit(c)
              \/ SendReturns(c) \/ CallDropped(c)
       PROVE  JobLine(b)'
    <3>1. UNCHANGED <<hpc, job, queued, mailbox, message>>
      BY <2>3
      DEF SpawnReserveId, harnessVars, channelVars, messageVars, stepVars,
         SpawnFails, SpawnReturns, OnlyCalls, SpawnLaunch, StopSend,
         InterruptReturns, CloseInactive, FinishClose, CloseReturns,
         SendCommit, SendReturns, CallDropped
    <3> QED BY <3>1, <1>types, <1>in, <1>jobline, <1>job, <1>apart, <1>works,
       <1>why, <1>line  DEF JobLine, Before, JobIs, LineAt
  <2> QED BY <1>3, <2>1, <2>2, <2>3 DEF CallStep
<1>4. ASSUME NEW c \in Calls, NEW session \in Sessions, CallBegins(c, session) PROVE JobLine(b)'
  <2>1. ASSUME NEW a \in Agents, NEW urgent \in BOOLEAN, NEW delegate \in BOOLEAN, SendPrepare(c, session, a, urgent, delegate) PROVE JobLine(b)'
    <3>1. PICK m \in Messages : Posted(a, m)
      BY <2>1, SendPosts
    <3>2. /\ message'[m].to = a /\ commit'[m] = "wait" /\ answer'[m] = "none" /\ given'[m] = 0
          /\ UNCHANGED <<hpc, why, job, undo, queued, task, answer, record, given>>
      BY <3>1, <1>each DEF Posted, MessageAt
    <3>3. \A n \in Messages : commit[n] # "unsent" =>
            n # m /\ n < m /\ message'[n] = message[n] /\ commit'[n] = commit[n]
      BY <3>1 DEF Posted
    <3>4. \A d \in Agents : /\ \A n \in InBox(mailbox[d]) : commit[n] # "unsent" /\ message[n].to = d
                            /\ \A n \in InBox(queued[d]) : commit[n] # "unsent" /\ message[n].to = d
                            /\ job[d] # None => commit[job[d]] # "unsent" /\ message[job[d]].to = d
      BY <1>mail, <1>queue, <1>job DEF MailAt, QueueAt, JobIs, Fresh, Accepted
    <3>5. \A d \in Agents : /\ \A n \in InBox(mailbox'[d]) : n \in InBox(mailbox[d]) \/ (n = m /\ d = a)
                            /\ Filed(message', mailbox'[d]) /\ Filed(message', queued[d])
      BY <3>1 DEF Posted
    <3> QED
      BY <3>2, <3>3, <3>4, <3>5, <1>in, <1>types, <1>jobline DEF JobLine, Before, JobIs, LineAt
  <2>2. ASSUME SpawnReserveTurn(c, session) \/ (\E operation \in Stops, target \in
              Sessions : StopRequest(c, session, operation, target))
       PROVE  JobLine(b)'
    <3>1. UNCHANGED <<hpc, job, queued, mailbox, message>>
      BY <2>2
      DEF SpawnReserveTurn, harnessVars, channelVars, messageVars, stepVars,
         StopRequest
    <3> QED BY <3>1, <1>types, <1>in, <1>jobline, <1>job, <1>apart, <1>works,
       <1>why, <1>line  DEF JobLine, Before, JobIs, LineAt
  <2> QED BY <1>4, <2>1, <2>2 DEF CallBegins
<1>5. ASSUME Disturbance PROVE JobLine(b)'
  <2>1. ASSUME (\E c \in Calls : StopTimesOut(c)) \/ (\E c \in Calls :
              JoinTimesOut(c)) \/ (\E a \in Agents : Submit(a)) \/ (\E a \in Agents
              : DriverDies(a)) \/ (\E n \in Limits : SetLimit(n))
       PROVE  JobLine(b)'
    <3>1. UNCHANGED <<hpc, job, queued, mailbox, message>>
      BY <2>1
      DEF StopTimesOut, OnlyCalls, channelVars, harnessVars, messageVars,
         stepVars, JoinTimesOut, Submit, DriverDies, SetLimit
    <3> QED BY <3>1, <1>types, <1>in, <1>jobline, <1>job, <1>apart, <1>works,
       <1>why, <1>line  DEF JobLine, Before, JobIs, LineAt
  <2> QED BY <1>5, <2>1 DEF Disturbance
<1> QED BY <1>1, <1>2, <1>3, <1>4, <1>5 DEF Next

(* A task that is not given yet is in hand, and can be undone.             *)
LEMMA TaskKept ==
  ASSUME IInv, MInv, NEW b \in Agents, Next
  PROVE  TaskAt(b)'
<1>types. /\ hpc \in [Agents -> HarnessPoints] /\ why \in [Agents -> Reasons]
          /\ job \in [Agents -> {None} \cup Messages]
          /\ undo \in [Agents -> {None, NoChange} \cup Messages]
          /\ task \in [Agents -> {None} \cup Messages]
          /\ mailbox \in [Agents -> Boxes] /\ queued \in [Agents -> Boxes]
          /\ commit \in [Messages -> {"unsent", "wait", "yes", "dropped"}]
          /\ answer \in [Messages -> {"none", "ok", "error", "dropped"}]
          /\ record \in [Messages -> {"none", "pending", "settled", "removed"}]
          /\ given \in [Messages -> Nat]
  BY DEF IInv, TypeInv, HarnessTypes, SessionTypes, ChannelTypes, MessageTypes
<1>in. /\ \A a \in Agents : InBox(mailbox[a]) \subseteq Messages /\ InBox(queued[a]) \subseteq Messages
       /\ None \notin Messages /\ NoChange \notin Messages /\ InBox(EmptyBox) = {}
  BY Placed
<1>mail. \A a \in Agents : MailAt(a) 
  BY DEF MInv, BoxesAt
<1>queue. \A a \in Agents : QueueAt(a) 
  BY DEF MInv, BoxesAt
<1>job. \A a \in Agents : JobIs(a) 
  BY DEF MInv, JobAt
<1>task. \A a \in Agents : TaskAt(a) 
  BY DEF MInv
<1>apart. \A a, c \in Agents :
    /\ \A m \in InBox(mailbox[a]) :
         m \notin InBox(queued[c]) /\ m # job[c] /\ (m \in InBox(mailbox[c]) => a = c)
    /\ \A m \in InBox(queued[a]) : m # job[c] /\ (m \in InBox(queued[c]) => a = c)
    /\ job[a] # None /\ job[a] = job[c] => a = c
  BY AreApart DEF Apart
<1>each. \A m \in Messages : MessageAt(m)
  BY DEF MInv
<1>works. \A a \in Agents : /\ hpc[a] \in {"accept", "steering"} => job[a] \in Messages
                            /\ hpc[a] = "prompting" /\ why[a] # "start" => job[a] \in Messages
                            /\ hpc[a] \notin {"accept", "steering", "prompting"} => job[a] = None
  BY DEF IInv, TypeInv, JobInv, MInv, JobAt, JobIs
<1>why. \A a \in Agents : 
          /\ hpc[a] = "prompting" => why[a] \in {"start", "deliver", "pending"}
          /\ hpc[a] \in {"select", "accept", "steering", "pending"} => why[a] = "none"
  BY DEF IInv, HarnessInv, WhyAt, Stopping
<1>undo. \A a \in Agents : hpc[a] \notin {"steering", "prompting"} => undo[a] = NoChange
  BY DEF MInv, TaskAt
<1>late. LateInv
  BY DEF MInv
<1>sends. \A c \in Calls : 
            /\ cpc[c] = "send_commit" => sent[c] \in Messages /\ commit[sent[c]] = "wait"
            /\ cpc[c] = "send_wait" => sent[c] \in Messages /\ commit[sent[c]] = "yes"
            /\ cpc[c] = "send_commit" => \A m \in Messages : m > sent[c] => commit[m] = "unsent"
  BY DEF IInv, TypeInv, LockInv
<1>1. ASSUME NEW a \in Agents, HarnessStep(a) PROVE TaskAt(b)'
  <2>1. CASE TakeStart(a)
    BY <2>1, <1>types, <1>in, <1>task, <1>job, <1>apart, <1>each, <1>works,
       <1>why, <1>sends, <1>undo
    DEF TaskAt, IsTask, JobIs, Fresh, Accepted, TakeStart, None, messageVars,
       CanStartTurn, Prompting, IsCommand, Startable, Goto
  <2>2. CASE PromptAccepted(a)
    BY <2>2, <1>types, <1>in, <1>task, <1>job, <1>apart, <1>each, <1>works,
       <1>why, <1>sends, <1>undo
    DEF TaskAt, IsTask, JobIs, Fresh, Accepted, PromptAccepted, None,
       sessionVars, NoChange, Goto, Give
  <2>3. CASE PromptFailed(a)
    BY <2>3, <1>types, <1>in, <1>task, <1>job, <1>apart, <1>each, <1>works,
       <1>why, <1>sends, <1>undo
    DEF TaskAt, IsTask, JobIs, Fresh, Accepted, PromptFailed, None, Goto,
       RollbackDelegation, NoChange
  <2>4. CASE TakeDelivery(a)
    BY <2>4, <1>types, <1>in, <1>task, <1>job, <1>apart, <1>each, <1>works,
       <1>why, <1>sends, <1>undo, MailTaken
    DEF TaskAt, IsTask, JobIs, Fresh, Accepted, TakeDelivery, sessionVars,
       messageVars, EmptyBox, Goto, NoCommand
  <2>5. CASE Abandoned(a)
    BY <2>5, <1>types, <1>in, <1>task, <1>job, <1>apart, <1>each, <1>works,
       <1>why, <1>sends, <1>undo
    DEF TaskAt, IsTask, JobIs, Fresh, Accepted, Abandoned, None, sessionVars,
       messageVars, Goto
  <2>6. ASSUME NEW m \in Messages, Steer(a, m) PROVE TaskAt(b)'
    <3>0. hpc[a] = "accept" /\ job[a] = m /\ m \in Messages /\ message[m].to = a /\ commit[m] = "yes"
          /\ BeginDelegation(a, m)
      BY <2>6, <1>job, <1>works, <1>in, <1>undo DEF Steer, Accepting, JobIs
    <3>1. /\ \A d \in Agents : d # a => task'[d] = task[d] /\ undo'[d] = undo[d]
          /\ task'[a] # None => IsTask(a, task'[a])
          /\ undo'[a] = NoChange /\ task'[a] # None => given[task'[a]] = 1
          /\ undo'[a] # NoChange =>
               task'[a] = m /\ (undo'[a] # None => IsTask(a, undo'[a]) /\ given[undo'[a]] = 1)
      BY <3>0, Delegated
    <3>2. /\ hpc'[a] = "steering" /\ job'[a] = m /\ m # None
          /\ \A d \in Agents : d # a => hpc'[d] = hpc[d] /\ job'[d] = job[d]
          /\ UNCHANGED <<message, commit, given>>
      BY <2>6, <3>0, <1>in, <1>types DEF Steer, Goto, messageVars
    <3> QED
      BY <3>1, <3>2, <1>task DEF TaskAt, IsTask
  <2>7. ASSUME NEW m \in Messages, DeliverStart(a, m) PROVE TaskAt(b)'
    <3>0. hpc[a] = "accept" /\ job[a] = m /\ m \in Messages /\ message[m].to = a /\ commit[m] = "yes"
          /\ undo[a] = NoChange
      BY <2>7, <1>job, <1>works, <1>in, <1>undo DEF DeliverStart, Accepting, JobIs
    <3>1. CASE CanStartTurn(a)
      <4>0. BeginDelegation(a, m)
        BY <2>7, <3>1 DEF DeliverStart
      <4>1. /\ \A d \in Agents : d # a => task'[d] = task[d] /\ undo'[d] = undo[d]
            /\ task'[a] # None => IsTask(a, task'[a])
            /\ undo'[a] = NoChange /\ task'[a] # None => given[task'[a]] = 1
            /\ undo'[a] # NoChange =>
                 task'[a] = m /\ (undo'[a] # None => IsTask(a, undo'[a]) /\ given[undo'[a]] = 1)
        BY <3>0, <4>0, Delegated
      <4>2. /\ hpc'[a] = "prompting" /\ job'[a] = m /\ m # None
            /\ \A d \in Agents : d # a => hpc'[d] = hpc[d] /\ job'[d] = job[d]
            /\ UNCHANGED <<message, commit, given>>
        BY <2>7, <3>0, <3>1, <1>in, <1>types DEF DeliverStart, Prompting, Goto
      <4> QED
        BY <4>1, <4>2, <1>task DEF TaskAt, IsTask
    <3>2. CASE ~CanStartTurn(a)
      <4>1. /\ hpc' = [hpc EXCEPT ![a] = "select"] /\ job' = [job EXCEPT ![a] = None]
            /\ UNCHANGED <<task, undo, message, commit, given>>
        BY <2>7, <3>2 DEF DeliverStart, Goto
      <4> QED
        BY <3>0, <4>1, <1>task, <1>types DEF TaskAt, IsTask
    <3> QED
      BY <3>1, <3>2
  <2>8. ASSUME NEW m \in Messages, DeliverQueue(a, m) PROVE TaskAt(b)'
    <3>1. /\ hpc[a] = "accept" /\ undo[a] = NoChange
          /\ hpc' = [hpc EXCEPT ![a] = "select"] /\ job' = [job EXCEPT ![a] = None]
          /\ UNCHANGED <<task, undo, message, commit, given>>
      BY <2>8, <1>undo DEF DeliverQueue, QueueDelivery, Goto, Accepting, sessionVars
    <3> QED
      BY <3>1, <1>task, <1>types DEF TaskAt, IsTask
  <2>9. CASE SteerAdmitted(a)
    BY <2>9, <1>types, <1>in, <1>task, <1>job, <1>apart, <1>each, <1>works,
       <1>why, <1>sends, <1>undo
    DEF TaskAt, IsTask, JobIs, Fresh, Accepted, SteerAdmitted, None, NoChange,
       Goto, Give
  <2>10. CASE SteerRefused(a)
    <3>1. hpc[a] = "steering" /\ RollbackDelegation(a)
          /\ hpc' = [hpc EXCEPT ![a] = "select"] /\ job' = [job EXCEPT ![a] = None]
          /\ UNCHANGED <<message, commit, given>>
      BY <2>10 DEF SteerRefused, QueueDelivery, Goto
    <3>2. /\ undo'[a] = NoChange
          /\ \A d \in Agents : d # a => task'[d] = task[d] /\ undo'[d] = undo[d]
          /\ task'[a] # None => IsTask(a, task'[a]) /\ given[task'[a]] = 1
      BY <3>1, RolledBack
    <3> QED
      BY <3>1, <3>2, <1>task, <1>types DEF TaskAt, IsTask
  <2>11. CASE SteerFailed(a)
    BY <2>11, <1>types, <1>in, <1>task, <1>job, <1>apart, <1>each, <1>works,
       <1>why, <1>sends, <1>undo
    DEF TaskAt, IsTask, JobIs, Fresh, Accepted, SteerFailed, None, Goto,
       RollbackDelegation, NoChange
  <2>12. CASE CapacityChanged(a)
    BY <2>12, <1>types, <1>in, <1>task, <1>job, <1>apart, <1>each, <1>works,
       <1>why, <1>sends, <1>undo
    DEF TaskAt, IsTask, JobIs, Fresh, Accepted, CapacityChanged, sessionVars,
       stepVars, messageVars, EmptyBox, Goto, NoCommand
  <2>13. CASE StartPending(a)
    <3> DEFINE m == NextOf(queued[a])
    <3>0. /\ hpc[a] = "pending" /\ undo[a] = NoChange
          /\ m \in Messages /\ message[m].to = a /\ commit[m] = "yes"
      BY <2>13, QueueTaken, <1>queue, <1>in, <1>undo DEF StartPending, QueueAt, Accepted
    <3>1. CASE CanStartTurn(a)
      <4>0. BeginDelegation(a, m)
        BY <2>13, <3>1 DEF StartPending
      <4>2. /\ hpc'[a] = "prompting" /\ job'[a] = m /\ m # None
            /\ \A d \in Agents : d # a => hpc'[d] = hpc[d] /\ job'[d] = job[d]
            /\ UNCHANGED <<message, commit, given>>
        BY <2>13, <3>0, <3>1, <1>in, <1>types DEF StartPending, Prompting, Goto
      <4> HIDE DEF m
      <4>1. /\ \A d \in Agents : d # a => task'[d] = task[d] /\ undo'[d] = undo[d]
            /\ task'[a] # None => IsTask(a, task'[a])
            /\ undo'[a] = NoChange /\ task'[a] # None => given[task'[a]] = 1
            /\ undo'[a] # NoChange =>
                 task'[a] = m /\ (undo'[a] # None => IsTask(a, undo'[a]) /\ given[undo'[a]] = 1)
        BY <3>0, <4>0, Delegated
      <4> QED
        BY <4>1, <4>2, <1>task DEF TaskAt, IsTask
    <3>2. CASE ~CanStartTurn(a)
      <4>1. UNCHANGED <<hpc, job, task, undo, message, commit, given>>
        BY <2>13, <3>2 DEF StartPending
      <4> QED
        BY <3>0, <4>1, <1>task, <1>types DEF TaskAt, IsTask
    <3> QED
      BY <3>1, <3>2
  <2>14. CASE StopPending(a)
    BY <2>14, <1>types, <1>in, <1>task, <1>job, <1>apart, <1>each, <1>works,
       <1>why, <1>sends, <1>undo
    DEF TaskAt, IsTask, JobIs, Fresh, Accepted, StopPending, sessionVars,
       stepVars, messageVars, EmptyBox, CanReserve, Goto
  <2>15. CASE TurnFinished(a)
    BY <2>15, <1>types, <1>in, <1>task, <1>job, <1>apart, <1>each, <1>works,
       <1>why, <1>sends, <1>undo
    DEF TaskAt, IsTask, JobIs, Fresh, Accepted, TurnFinished, sessionVars,
       stepVars, messageVars, EmptyBox, Goto, NoCommand, TurnOver
  <2>16. CASE Publish(a)
    BY <2>16, <1>types, <1>in, <1>task, <1>job, <1>apart, <1>each, <1>works,
       <1>why, <1>sends, <1>undo
    DEF TaskAt, IsTask, JobIs, Fresh, Accepted, Publish, stepVars,
       messageVars, Goto
  <2>17. CASE TakeStop(a)
    BY <2>17, <1>types, <1>in, <1>task, <1>job, <1>apart, <1>each, <1>works,
       <1>why, <1>sends, <1>undo
    DEF TaskAt, IsTask, JobIs, Fresh, Accepted, TakeStop, sessionVars,
       messageVars, Goto, IsCommand
  <2>18. CASE UrgentRejected(a)
    BY <2>18, <1>types, <1>in, <1>task, <1>job, <1>apart, <1>each, <1>works,
       <1>why, <1>sends, <1>undo
    DEF TaskAt, IsTask, JobIs, Fresh, Accepted, UrgentRejected, sessionVars,
       stepVars, messageVars, Goto
  <2>19. CASE AllRejected(a)
    BY <2>19, <1>types, <1>in, <1>task, <1>job, <1>apart, <1>each, <1>works,
       <1>why, <1>sends, <1>undo
    DEF TaskAt, IsTask, JobIs, Fresh, Accepted, AllRejected, sessionVars, Goto
  <2>20. CASE Shutdown(a)
    BY <2>20, <1>types, <1>in, <1>task, <1>job, <1>apart, <1>each, <1>works,
       <1>why, <1>sends, <1>undo
    DEF TaskAt, IsTask, JobIs, Fresh, Accepted, Shutdown, sessionVars,
       stepVars, messageVars, Goto
  <2>21. CASE FinishActive(a)
    BY <2>21, <1>types, <1>in, <1>task, <1>job, <1>apart, <1>each, <1>works,
       <1>why, <1>sends, <1>undo
    DEF TaskAt, IsTask, JobIs, Fresh, Accepted, FinishActive, stepVars,
       messageVars, Goto, TurnOver
  <2>22. CASE Release(a)
    BY <2>22, <1>types, <1>in, <1>task, <1>job, <1>apart, <1>each, <1>works,
       <1>why, <1>sends, <1>undo
    DEF TaskAt, IsTask, JobIs, Fresh, Accepted, Release, sessionVars,
       messageVars, Goto
  <2>23. CASE HarnessClosed(a)
    <3>1. hpc[a] = "closing" /\ CleanUp({a})
      BY <2>23 DEF HarnessClosed
    <3>2. /\ job'[a] = None /\ hpc'[a] = "gone" /\ undo'[a] = NoChange
          /\ \A d \in Agents : d # a => job'[d] = job[d] /\ hpc'[d] = hpc[d] /\ undo'[d] = undo[d]
      BY <3>1, CleanedUp
    <3>3. UNCHANGED <<message, commit, given, task>>
      BY <2>23 DEF HarnessClosed
    <3>4. undo[a] = NoChange
      BY <3>1, <1>undo
    <3> QED
      BY <3>1, <3>2, <3>3, <3>4, <1>task DEF TaskAt, IsTask
  <2>24. ASSUME RejectWaiting(a)
       PROVE  TaskAt(b)'
    <3>1. UNCHANGED <<task, hpc, job, undo, message, commit, given>>
      BY <2>24
      DEF RejectWaiting, sessionVars, harnessVars, stepVars
    <3> QED BY <3>1, <1>types, <1>in, <1>task, <1>job, <1>apart, <1>each,
       <1>works, <1>why, <1>sends, <1>undo  DEF TaskAt, IsTask, JobIs, Fresh, Accepted
  <2> QED BY <1>1, <2>1, <2>2, <2>3, <2>4, <2>5, <2>6, <2>7, <2>8, <2>9,
   <2>10, <2>11, <2>12, <2>13, <2>14, <2>15, <2>16, <2>17, <2>18, <2>19,
   <2>20, <2>21, <2>22, <2>23, <2>24 DEF HarnessStep
<1>2. ASSUME NEW a \in Agents, LibraryStep(a) PROVE TaskAt(b)'
  <2>1. ASSUME (\E result \in Outcomes : TurnEnds(a, result)) \/ EventsEnd(a) \/
              EventsDone(a)
       PROVE  TaskAt(b)'
    <3>1. UNCHANGED <<task, hpc, job, undo, message, commit, given>>
      BY <2>1
      DEF TurnEnds, sessionVars, stepVars, messageVars, EventsEnd,
         harnessVars, EventsDone
    <3> QED BY <3>1, <1>types, <1>in, <1>task, <1>job, <1>apart, <1>each,
       <1>works, <1>why, <1>sends, <1>undo  DEF TaskAt, IsTask, JobIs, Fresh, Accepted
  <2> QED BY <1>2, <2>1 DEF LibraryStep
<1>3. ASSUME NEW c \in Calls, CallStep(c) \/ CallDropped(c) PROVE TaskAt(b)'
  <2>1. ASSUME NEW a \in Agents, SpawnInsert(c, a) PROVE TaskAt(b)'
    <3>1. hpc[a] = "absent"
      BY <2>1 DEF SpawnInsert, IInv, SpawnInv, HarnessInv, AbsentAt
    <3>2. job[a] = None /\ hpc'[a] = "select"
      BY <2>1, <3>1, <1>works, <1>types DEF SpawnInsert, Goto
    <3>3. \A d \in Agents : d # a => hpc'[d] = hpc[d]
      BY <2>1, <1>types DEF SpawnInsert, Goto
    <3>4. UNCHANGED <<why, job, undo, task, mailbox, queued, message, commit, answer, record, given>>
      BY <2>1 DEF SpawnInsert, stepVars, channelVars, messageVars
    <3> QED
      BY <3>2, <3>3, <3>1, <3>4, <1>task DEF TaskAt, IsTask
  <2>2. CASE FinishLate(c)
    <3>1. PICK as \in SUBSET Agents : CleanUp(as)
      BY <2>2, LateCleans DEF FinishLate
    <3>2. /\ \A d \in as : job'[d] = None /\ hpc'[d] = "gone" /\ undo'[d] = NoChange
          /\ \A d \in Agents \ as : job'[d] = job[d] /\ hpc'[d] = hpc[d] /\ undo'[d] = undo[d]
      BY ZenonT(40), <3>1, CleanedUp
    <3>3. UNCHANGED <<message, commit, given, task>>
      BY <2>2 DEF FinishLate
    <3>4. "timeout" \in Disturbances
      BY <2>2, <1>late DEF FinishLate, LateInv
    <3>5. CASE b \in as
      <4>1. job'[b] = None /\ hpc'[b] = "gone" /\ undo'[b] = NoChange
        BY <3>2, <3>5
      <4> QED
        BY <3>3, <3>4, <4>1, <1>task DEF TaskAt, IsTask
    <3>6. CASE b \notin as
      <4>1. job'[b] = job[b] /\ hpc'[b] = hpc[b] /\ undo'[b] = undo[b]
        BY <3>2, <3>6
      <4> QED
        BY <3>3, <4>1, <1>task DEF TaskAt, IsTask
    <3> QED
      BY <3>5, <3>6
  <2>3. CASE SendCommit(c)
    BY <2>3, <1>types, <1>in, <1>task, <1>job, <1>apart, <1>each, <1>works,
       <1>why, <1>sends, <1>undo
    DEF TaskAt, IsTask, JobIs, Fresh, Accepted, SendCommit, sessionVars,
       harnessVars, stepVars
  <2>4. CASE CallDropped(c)
    BY <2>4, <1>types, <1>in, <1>task, <1>job, <1>apart, <1>each, <1>works,
       <1>why, <1>sends, <1>undo
    DEF TaskAt, IsTask, JobIs, Fresh, Accepted, CallDropped, Root,
       sessionVars, harnessVars, Holding, stepVars
  <2>5. ASSUME SpawnReserveId(c) \/ SpawnFails(c) \/ SpawnReturns(c) \/ (\E a \in
              Agents : SpawnLaunch(c, a)) \/ StopSend(c) \/ InterruptReturns(c) \/
              CloseInactive(c) \/ FinishClose(c) \/ CloseReturns(c) \/
              SendReturns(c)
       PROVE  TaskAt(b)'
    <3>1. UNCHANGED <<task, hpc, job, undo, message, commit, given>>
      BY <2>5
      DEF SpawnReserveId, harnessVars, messageVars, stepVars, SpawnFails,
         sessionVars, SpawnReturns, OnlyCalls, SpawnLaunch, StopSend,
         InterruptReturns, CloseInactive, FinishClose, CloseReturns,
         SendReturns
    <3> QED BY <3>1, <1>types, <1>in, <1>task, <1>job, <1>apart, <1>each,
       <1>works, <1>why, <1>sends, <1>undo  DEF TaskAt, IsTask, JobIs, Fresh, Accepted
  <2> QED BY <1>3, <2>1, <2>2, <2>3, <2>4, <2>5 DEF CallStep
<1>4. ASSUME NEW c \in Calls, NEW session \in Sessions, CallBegins(c, session) PROVE TaskAt(b)'
  <2>1. ASSUME NEW a \in Agents, NEW urgent \in BOOLEAN, NEW delegate \in BOOLEAN, SendPrepare(c, session, a, urgent, delegate) PROVE TaskAt(b)'
    <3>1. PICK m \in Messages : Posted(a, m)
      BY <2>1, SendPosts
    <3>2. /\ message'[m].to = a /\ commit'[m] = "wait" /\ answer'[m] = "none" /\ given'[m] = 0
          /\ UNCHANGED <<hpc, why, job, undo, queued, task, answer, record, given>>
      BY <3>1, <1>each DEF Posted, MessageAt
    <3>3. \A n \in Messages : commit[n] # "unsent" =>
            n # m /\ n < m /\ message'[n] = message[n] /\ commit'[n] = commit[n]
      BY <3>1 DEF Posted
    <3>4. \A d \in Agents : /\ \A n \in InBox(mailbox[d]) : commit[n] # "unsent" /\ message[n].to = d
                            /\ \A n \in InBox(queued[d]) : commit[n] # "unsent" /\ message[n].to = d
                            /\ job[d] # None => commit[job[d]] # "unsent" /\ message[job[d]].to = d
      BY <1>mail, <1>queue, <1>job DEF MailAt, QueueAt, JobIs, Fresh, Accepted
    <3>5. \A d \in Agents : /\ \A n \in InBox(mailbox'[d]) : n \in InBox(mailbox[d]) \/ (n = m /\ d = a)
                            /\ Filed(message', mailbox'[d]) /\ Filed(message', queued[d])
      BY <3>1 DEF Posted
    <3> QED
      BY <3>2, <3>3, <3>4, <3>5, <1>in, <1>types, <1>task DEF TaskAt, IsTask, JobIs, Fresh, Accepted
  <2>2. ASSUME SpawnReserveTurn(c, session) \/ (\E operation \in Stops, target \in
              Sessions : StopRequest(c, session, operation, target))
       PROVE  TaskAt(b)'
    <3>1. UNCHANGED <<task, hpc, job, undo, message, commit, given>>
      BY <2>2
      DEF SpawnReserveTurn, sessionVars, harnessVars, messageVars, stepVars,
         StopRequest
    <3> QED BY <3>1, <1>types, <1>in, <1>task, <1>job, <1>apart, <1>each,
       <1>works, <1>why, <1>sends, <1>undo  DEF TaskAt, IsTask, JobIs, Fresh, Accepted
  <2> QED BY <1>4, <2>1, <2>2 DEF CallBegins
<1>5. ASSUME Disturbance PROVE TaskAt(b)'
  <2>1. ASSUME (\E c \in Calls : StopTimesOut(c)) \/ (\E c \in Calls :
              JoinTimesOut(c)) \/ (\E a \in Agents : Submit(a)) \/ (\E a \in Agents
              : DriverDies(a)) \/ (\E n \in Limits : SetLimit(n))
       PROVE  TaskAt(b)'
    <3>1. UNCHANGED <<task, hpc, job, undo, message, commit, given>>
      BY <2>1
      DEF StopTimesOut, OnlyCalls, harnessVars, messageVars, sessionVars,
         stepVars, JoinTimesOut, Submit, DriverDies, SetLimit
    <3> QED BY <3>1, <1>types, <1>in, <1>task, <1>job, <1>apart, <1>each,
       <1>works, <1>why, <1>sends, <1>undo  DEF TaskAt, IsTask, JobIs, Fresh, Accepted
  <2> QED BY <1>5, <2>1 DEF Disturbance
<1> QED BY <1>1, <1>2, <1>3, <1>4, <1>5 DEF Next

(* A call gives up on a join only after a deadline.                        *)
LEMMA LateKept ==
  ASSUME IInv, MInv, NEW z \in Agents, Next
  PROVE  LateInv'
<1>late. LateInv
  BY DEF MInv
<1>cpc. cpc \in [Calls -> CallPoints]
  BY DEF IInv, TypeInv, CallTypes
<1>1. ASSUME NEW a \in Agents, HarnessStep(a) PROVE LateInv'
  <2>1. ASSUME TakeStart(a) \/ PromptAccepted(a) \/ PromptFailed(a) \/
              TakeDelivery(a) \/ Abandoned(a) \/ (\E m \in Messages : Steer(a, m))
              \/ (\E m \in Messages : DeliverStart(a, m)) \/ (\E m \in Messages :
              DeliverQueue(a, m)) \/ SteerAdmitted(a) \/ SteerRefused(a) \/
              SteerFailed(a) \/ CapacityChanged(a) \/ StartPending(a) \/
              StopPending(a) \/ TurnFinished(a) \/ Publish(a) \/ TakeStop(a) \/
              RejectWaiting(a) \/ UrgentRejected(a) \/ AllRejected(a) \/ Shutdown(a)
              \/ FinishActive(a) \/ Release(a) \/ HarnessClosed(a)
       PROVE  LateInv'
    <3>1. UNCHANGED <<cpc>>
      BY <2>1
      DEF TakeStart, PromptAccepted, PromptFailed, TakeDelivery, callVars,
         Abandoned, Steer, DeliverStart, DeliverQueue, SteerAdmitted,
         SteerRefused, SteerFailed, CapacityChanged, StartPending,
         StopPending, TurnFinished, Publish, TakeStop, RejectWaiting,
         UrgentRejected, AllRejected, Shutdown, FinishActive, Release,
         HarnessClosed
    <3> QED BY <3>1, <1>late, <1>cpc  DEF LateInv
  <2> QED BY <1>1, <2>1 DEF HarnessStep
<1>2. ASSUME NEW a \in Agents, LibraryStep(a) PROVE LateInv'
  <2>1. ASSUME (\E result \in Outcomes : TurnEnds(a, result)) \/ EventsEnd(a) \/
              EventsDone(a)
       PROVE  LateInv'
    <3>1. UNCHANGED <<cpc>>
      BY <2>1
      DEF TurnEnds, callVars, EventsEnd, EventsDone
    <3> QED BY <3>1, <1>late, <1>cpc  DEF LateInv
  <2> QED BY <1>2, <2>1 DEF LibraryStep
<1>3. ASSUME NEW c \in Calls, CallStep(c) \/ CallDropped(c) PROVE LateInv'
  <2>1. CASE SpawnReserveId(c)
    BY <2>1, <1>late, <1>cpc
    DEF LateInv, SpawnReserveId, CallAt, ParentStopped, Stopped, Root
  <2>2. CASE SpawnFails(c)
    BY <2>2, <1>late, <1>cpc
    DEF LateInv, SpawnFails, CallAt, InsertRefused, ParentStopped, Stopped,
       Root
  <2>3. CASE SpawnReturns(c)
    BY <2>3, <1>late, <1>cpc
    DEF LateInv, SpawnReturns, CallAt, Answered
  <2>4. ASSUME NEW a \in Agents, SpawnInsert(c, a) PROVE LateInv'
    BY <2>4, <1>late, <1>cpc
    DEF LateInv, SpawnInsert, CallAt, InsertRefused, ParentStopped, Stopped,
       Root
  <2>5. ASSUME NEW a \in Agents, SpawnLaunch(c, a) PROVE LateInv'
    BY <2>5, <1>late, <1>cpc
    DEF LateInv, SpawnLaunch, CallAt
  <2>6. CASE StopSend(c)
    BY <2>6, <1>late, <1>cpc
    DEF LateInv, StopSend, CallAt
  <2>7. CASE InterruptReturns(c)
    BY <2>7, <1>late, <1>cpc
    DEF LateInv, InterruptReturns, Answered, AllInactive, Returns, CallAt
  <2>8. CASE CloseInactive(c)
    BY <2>8, <1>late, <1>cpc
    DEF LateInv, CloseInactive, CallAt, Answered, AllInactive
  <2>9. CASE FinishClose(c)
    BY <2>9, <1>late, <1>cpc
    DEF LateInv, FinishClose, CallAt, AllInactive, Returns
  <2>10. CASE CloseReturns(c)
    BY <2>10, <1>late, <1>cpc
    DEF LateInv, CloseReturns, Returns, CallAt
  <2>11. CASE FinishLate(c)
    BY <2>11, <1>late, <1>cpc
    DEF LateInv, FinishLate, AllInactive, Returns, Unfinished, CallAt
  <2>12. CASE SendCommit(c)
    BY <2>12, <1>late, <1>cpc
    DEF LateInv, SendCommit, CallAt
  <2>13. CASE SendReturns(c)
    BY <2>13, <1>late, <1>cpc
    DEF LateInv, SendReturns, Returns, Delivered, CallAt
  <2>14. CASE CallDropped(c)
    BY <2>14, <1>late, <1>cpc
    DEF LateInv, CallDropped, Root, CallAt, Holding
  <2> QED BY <1>3, <2>1, <2>2, <2>3, <2>4, <2>5, <2>6, <2>7, <2>8, <2>9,
   <2>10, <2>11, <2>12, <2>13, <2>14 DEF CallStep
<1>4. ASSUME NEW c \in Calls, NEW session \in Sessions, CallBegins(c, session) PROVE LateInv'
  <2>1. CASE SpawnReserveTurn(c, session)
    BY <2>1, <1>late, <1>cpc
    DEF LateInv, SpawnReserveTurn, CanReserve, CallAt, Begins, MayCall, Root
  <2>2. ASSUME NEW operation \in Stops, NEW target \in Sessions, StopRequest(c, session, operation, target) PROVE LateInv'
    BY <2>2, <1>late, <1>cpc
    DEF LateInv, StopRequest, Root, Stops, CallAt, Begins, MayCall
  <2>3. ASSUME NEW a \in Agents, NEW urgent \in BOOLEAN, NEW delegate \in BOOLEAN, SendPrepare(c, session, a, urgent, delegate) PROVE LateInv'
    BY <2>3, <1>late, <1>cpc
    DEF LateInv, SendPrepare, CallAt, Begins, MayReceive, MayCall, Stopped,
       Root
  <2> QED BY <1>4, <2>1, <2>2, <2>3 DEF CallBegins
<1>5. ASSUME Disturbance PROVE LateInv'
  <2>1. ASSUME NEW c \in Calls, StopTimesOut(c) PROVE LateInv'
    BY <2>1, <1>late, <1>cpc
    DEF LateInv, StopTimesOut, CallAt, AllInactive, Returns
  <2>2. ASSUME NEW c \in Calls, JoinTimesOut(c) PROVE LateInv'
    BY <2>2, <1>late, <1>cpc
    DEF LateInv, JoinTimesOut, Returns, CallAt
  <2>3. ASSUME (\E a \in Agents : Submit(a)) \/ (\E a \in Agents : DriverDies(a)) \/
              (\E n \in Limits : SetLimit(n))
       PROVE  LateInv'
    <3>1. UNCHANGED <<cpc>>
      BY <2>3
      DEF Submit, callVars, DriverDies, SetLimit
    <3> QED BY <3>1, <1>late, <1>cpc  DEF LateInv
  <2> QED BY <1>5, <2>1, <2>2, <2>3 DEF Disturbance
<1> QED BY <1>1, <1>2, <1>3, <1>4, <1>5 DEF Next

(* What was given is settled, committed, and told to its sender.           *)
LEMMA MessageKept ==
  ASSUME IInv, MInv, NEW k \in Messages, Next
  PROVE  MessageAt(k)'
<1>types. /\ hpc \in [Agents -> HarnessPoints] /\ why \in [Agents -> Reasons]
          /\ job \in [Agents -> {None} \cup Messages]
          /\ undo \in [Agents -> {None, NoChange} \cup Messages]
          /\ task \in [Agents -> {None} \cup Messages]
          /\ mailbox \in [Agents -> Boxes] /\ queued \in [Agents -> Boxes]
          /\ commit \in [Messages -> {"unsent", "wait", "yes", "dropped"}]
          /\ answer \in [Messages -> {"none", "ok", "error", "dropped"}]
          /\ record \in [Messages -> {"none", "pending", "settled", "removed"}]
          /\ given \in [Messages -> Nat]
  BY DEF IInv, TypeInv, HarnessTypes, SessionTypes, ChannelTypes, MessageTypes
<1>in. /\ \A a \in Agents : InBox(mailbox[a]) \subseteq Messages /\ InBox(queued[a]) \subseteq Messages
       /\ None \notin Messages /\ NoChange \notin Messages /\ InBox(EmptyBox) = {}
  BY Placed
<1>mail. \A a \in Agents : MailAt(a) 
  BY DEF MInv, BoxesAt
<1>queue. \A a \in Agents : QueueAt(a) 
  BY DEF MInv, BoxesAt
<1>job. \A a \in Agents : JobIs(a) 
  BY DEF MInv, JobAt
<1>apart. \A a, c \in Agents :
    /\ \A m \in InBox(mailbox[a]) :
         m \notin InBox(queued[c]) /\ m # job[c] /\ (m \in InBox(mailbox[c]) => a = c)
    /\ \A m \in InBox(queued[a]) : m # job[c] /\ (m \in InBox(queued[c]) => a = c)
    /\ job[a] # None /\ job[a] = job[c] => a = c
  BY AreApart DEF Apart
<1>each. \A m \in Messages : MessageAt(m)
  BY DEF MInv
<1>works. \A a \in Agents : /\ hpc[a] \in {"accept", "steering"} => job[a] \in Messages
                            /\ hpc[a] = "prompting" /\ why[a] # "start" => job[a] \in Messages
                            /\ hpc[a] \notin {"accept", "steering", "prompting"} => job[a] = None
  BY DEF IInv, TypeInv, JobInv, MInv, JobAt, JobIs
<1>why. \A a \in Agents : 
          /\ hpc[a] = "prompting" => why[a] \in {"start", "deliver", "pending"}
          /\ hpc[a] \in {"select", "accept", "steering", "pending"} => why[a] = "none"
  BY DEF IInv, HarnessInv, WhyAt, Stopping
<1>sends. \A c \in Calls : 
            /\ cpc[c] = "send_commit" => sent[c] \in Messages /\ commit[sent[c]] = "wait"
            /\ cpc[c] = "send_wait" => sent[c] \in Messages /\ commit[sent[c]] = "yes"
            /\ cpc[c] = "send_commit" => \A m \in Messages : m > sent[c] => commit[m] = "unsent"
  BY DEF IInv, TypeInv, LockInv
<1>1. ASSUME NEW a \in Agents, HarnessStep(a) PROVE MessageAt(k)'
  <2>1. CASE PromptAccepted(a)
    BY <2>1, <1>types, <1>in, <1>each, <1>job, <1>works, <1>why, <1>sends,
       <1>mail, <1>queue
    DEF MessageAt, JobIs, MailAt, QueueAt, Fresh, Accepted, PromptAccepted,
       None, NoChange, Settle, Admit, Give
  <2>2. CASE PromptFailed(a)
    BY <2>2, <1>types, <1>in, <1>each, <1>job, <1>works, <1>why, <1>sends,
       <1>mail, <1>queue
    DEF MessageAt, JobIs, MailAt, QueueAt, Fresh, Accepted, PromptFailed,
       None, Settle, Refuse, RollBack
  <2>3. ASSUME NEW m \in Messages, DeliverStart(a, m) PROVE MessageAt(k)'
    <3>1. /\ hpc[a] = "accept" /\ job[a] \in Messages /\ job[a] = m /\ commit[m] = "yes" /\ why[a] = "none"
          /\ queued[a] = EmptyBox /\ Fresh(m) /\ message[m].to = a
          /\ UNCHANGED <<mailbox, queued, message, commit, given>>
      BY <2>3, <1>works, <1>why, <1>job, <1>in DEF DeliverStart, Accepting, CanDeliver, channelVars, JobIs
    <3>2. \/ /\ hpc' = [hpc EXCEPT ![a] = "prompting"] /\ why' = [why EXCEPT ![a] = "deliver"]
             /\ job' = [job EXCEPT ![a] = m] /\ UNCHANGED <<answer, record>>
          \/ /\ hpc' = [hpc EXCEPT ![a] = "select"] /\ job' = [job EXCEPT ![a] = None] /\ UNCHANGED why
             /\ answer' = [answer EXCEPT ![m] = "error"] /\ record' = [record EXCEPT ![m] = "removed"]
      BY <2>3 DEF DeliverStart, Prompting, Goto, Refuse, RollBack
    <3>3. CASE /\ hpc' = [hpc EXCEPT ![a] = "prompting"] /\ why' = [why EXCEPT ![a] = "deliver"]
               /\ job' = [job EXCEPT ![a] = m] /\ UNCHANGED <<answer, record>>
      BY <3>1, <3>3, <1>types, <1>in, <1>each, <1>job, <1>works, <1>why, <1>sends, <1>mail, <1>queue DEF MessageAt, JobIs, MailAt, QueueAt, Fresh, Accepted
    <3>4. CASE /\ hpc' = [hpc EXCEPT ![a] = "select"] /\ job' = [job EXCEPT ![a] = None] /\ UNCHANGED why
               /\ answer' = [answer EXCEPT ![m] = "error"] /\ record' = [record EXCEPT ![m] = "removed"]
      BY <3>1, <3>4, <1>types, <1>in, <1>each, <1>job, <1>works, <1>why, <1>sends, <1>mail, <1>queue DEF MessageAt, JobIs, MailAt, QueueAt, Fresh, Accepted
    <3> QED
      BY <3>2, <3>3, <3>4
  <2>4. ASSUME NEW m \in Messages, DeliverQueue(a, m) PROVE MessageAt(k)'
    <3>1. PICK box :
               /\ InBox(box) = InBox(queued[a]) \cup {job[a]} /\ Filed(message, box)
               /\ hpc' = [hpc EXCEPT ![a] = "select"] /\ job' = [job EXCEPT ![a] = None]
               /\ \/ /\ queued' = [queued EXCEPT ![a] = box]
                     /\ answer' = [answer EXCEPT ![job[a]] = "ok"] /\ record' = record
                  \/ /\ queued' = queued
                     /\ answer' = [answer EXCEPT ![job[a]] = "error"]
                     /\ record' = [record EXCEPT ![job[a]] = "removed"]
      BY <2>4, DeliveryQueued DEF DeliverQueue, Accepting
    <3>2. /\ hpc[a] \in {"accept", "steering"} /\ job[a] \in Messages /\ commit[job[a]] = "yes" /\ why[a] = "none"
          /\ Fresh(job[a]) /\ message[job[a]].to = a
          /\ UNCHANGED <<why, mailbox, message, commit, given>>
      BY <2>4, <1>works, <1>job, <1>why, <1>in DEF DeliverQueue, Accepting, channelVars, JobIs
    <3>3. \A n \in Messages : n # job[a] => answer'[n] = answer[n] /\ record'[n] = record[n]
      BY <3>1, <3>2, <1>types
    <3>4. \A d \in Agents : d # a => queued'[d] = queued[d] /\ hpc'[d] = hpc[d] /\ job'[d] = job[d] /\ job[d] # job[a]
      BY <3>1, <3>2, <1>types, <1>apart, <1>in
    <3>5. /\ hpc'[a] = "select" /\ job'[a] = None
          /\ \/ queued'[a] = box /\ answer'[job[a]] = "ok" /\ record'[job[a]] = record[job[a]]
             \/ queued'[a] = queued[a] /\ answer'[job[a]] = "error" /\ record'[job[a]] = "removed"
      BY <3>1, <3>2, <1>types
    <3>6. InBox(box) = InBox(queued[a]) \cup {job[a]} /\ Filed(message, box)
      BY <3>1
    <3> QED
      BY <3>2, <3>3, <3>4, <3>5, <3>6, <1>types, <1>in, <1>each, <1>job, <1>works, <1>why, <1>sends, <1>mail, <1>queue DEF MessageAt, JobIs, MailAt, QueueAt, Fresh, Accepted
  <2>5. CASE SteerAdmitted(a)
    BY <2>5, <1>types, <1>in, <1>each, <1>job, <1>works, <1>why, <1>sends,
       <1>mail, <1>queue
    DEF MessageAt, JobIs, MailAt, QueueAt, Fresh, Accepted, SteerAdmitted,
       None, NoChange, Settle, Admit, Give
  <2>6. CASE SteerRefused(a)
    <3>1. PICK box :
               /\ InBox(box) = InBox(queued[a]) \cup {job[a]} /\ Filed(message, box)
               /\ hpc' = [hpc EXCEPT ![a] = "select"] /\ job' = [job EXCEPT ![a] = None]
               /\ \/ /\ queued' = [queued EXCEPT ![a] = box]
                     /\ answer' = [answer EXCEPT ![job[a]] = "ok"] /\ record' = record
                  \/ /\ queued' = queued
                     /\ answer' = [answer EXCEPT ![job[a]] = "error"]
                     /\ record' = [record EXCEPT ![job[a]] = "removed"]
      BY <2>6, DeliveryQueued DEF SteerRefused
    <3>2. /\ hpc[a] \in {"accept", "steering"} /\ job[a] \in Messages /\ commit[job[a]] = "yes" /\ why[a] = "none"
          /\ Fresh(job[a]) /\ message[job[a]].to = a
          /\ UNCHANGED <<why, mailbox, message, commit, given>>
      BY <2>6, <1>works, <1>job, <1>why, <1>in DEF SteerRefused, channelVars, JobIs
    <3>3. \A n \in Messages : n # job[a] => answer'[n] = answer[n] /\ record'[n] = record[n]
      BY <3>1, <3>2, <1>types
    <3>4. \A d \in Agents : d # a => queued'[d] = queued[d] /\ hpc'[d] = hpc[d] /\ job'[d] = job[d] /\ job[d] # job[a]
      BY <3>1, <3>2, <1>types, <1>apart, <1>in
    <3>5. /\ hpc'[a] = "select" /\ job'[a] = None
          /\ \/ queued'[a] = box /\ answer'[job[a]] = "ok" /\ record'[job[a]] = record[job[a]]
             \/ queued'[a] = queued[a] /\ answer'[job[a]] = "error" /\ record'[job[a]] = "removed"
      BY <3>1, <3>2, <1>types
    <3>6. InBox(box) = InBox(queued[a]) \cup {job[a]} /\ Filed(message, box)
      BY <3>1
    <3> QED
      BY <3>2, <3>3, <3>4, <3>5, <3>6, <1>types, <1>in, <1>each, <1>job, <1>works, <1>why, <1>sends, <1>mail, <1>queue DEF MessageAt, JobIs, MailAt, QueueAt, Fresh, Accepted
  <2>7. CASE SteerFailed(a)
    BY <2>7, <1>types, <1>in, <1>each, <1>job, <1>works, <1>why, <1>sends,
       <1>mail, <1>queue
    DEF MessageAt, JobIs, MailAt, QueueAt, Fresh, Accepted, SteerFailed, None,
       Refuse, RollBack
  <2>8. CASE StartPending(a)
    BY <2>8, <1>types, <1>in, <1>each, <1>job, <1>works, <1>why, <1>sends,
       <1>mail, <1>queue, QueueTaken
    DEF MessageAt, JobIs, MailAt, QueueAt, Fresh, Accepted, StartPending,
       EmptyBox, CanReserve, CanStartTurn, Settle, Startable
  <2>9. CASE RejectWaiting(a)
    <3>1. PICK m \in InBox(mailbox[a]) :
               /\ InBox(mailbox'[a]) = InBox(mailbox[a]) \ {m}
               /\ Filed(message, mailbox'[a])
               /\ \A d \in Agents : d # a => mailbox'[d] = mailbox[d]
               /\ m \in Messages
               /\ \A n \in Messages : n # m => answer'[n] = answer[n] /\ record'[n] = record[n]
               /\ \/ commit[m] = "yes" /\ answer'[m] = "error" /\ record'[m] = "removed"
                  \/ commit[m] = "dropped" /\ answer'[m] = answer[m] /\ record'[m] = record[m]
      BY <2>9, WaitingRejected
    <3>2. UNCHANGED <<message, commit, given, hpc, queued, job, why, task, undo>>
      BY <2>9 DEF RejectWaiting, sessionVars, harnessVars, stepVars
    <3>3. \A d \in Agents : /\ InBox(mailbox'[d]) \subseteq InBox(mailbox[d]) 
                            /\ m \notin InBox(mailbox'[d]) /\ m \notin InBox(queued[d]) /\ m # job[d]
      BY <3>1, <1>apart
    <3> QED
      BY <3>1, <3>2, <3>3, <1>types, <1>in, <1>each, <1>job, <1>works, <1>why, <1>sends, <1>mail, <1>queue DEF MessageAt, JobIs, MailAt, QueueAt, Fresh, Accepted
  <2>10. CASE AllRejected(a)
    BY <2>10, <1>types, <1>in, <1>each, <1>job, <1>works, <1>why, <1>sends,
       <1>mail, <1>queue
    DEF MessageAt, JobIs, MailAt, QueueAt, Fresh, Accepted, AllRejected,
       FailPending, EmptyBox
  <2>11. CASE HarnessClosed(a)
    <3>1. PICK as \in SUBSET Agents : CleanUp(as)
      BY <2>11, LateCleans DEF HarnessClosed
    <3>2. /\ \A d \in as : /\ mailbox'[d] = EmptyBox /\ queued'[d] = EmptyBox
                           /\ job'[d] = None /\ hpc'[d] = "gone" /\ undo'[d] = NoChange
          /\ \A d \in Agents \ as :
               /\ mailbox'[d] = mailbox[d] /\ queued'[d] = queued[d] /\ job'[d] = job[d]
               /\ hpc'[d] = hpc[d] /\ undo'[d] = undo[d] /\ why'[d] = why[d]
          /\ \A m \in Messages :
               \/ answer'[m] = answer[m]
               \/ /\ message[m].to \in as /\ commit[m] # "unsent"
                  /\ answer[m] = "none" /\ answer'[m] = "dropped"
          /\ \A d \in as : \A m \in InBox(mailbox[d]) : answer'[m] = "dropped"
      BY <3>1, CleanedUp
    <3>3. UNCHANGED <<message, commit, record, given, task>>
      BY <2>11 DEF HarnessClosed

    <3> QED
      BY <3>2, <3>3, <1>each DEF MessageAt, JobIs, MailAt, QueueAt, Fresh, Accepted
  <2>12. ASSUME TakeStart(a) \/ TakeDelivery(a) \/ Abandoned(a) \/ (\E m \in Messages
              : Steer(a, m)) \/ CapacityChanged(a) \/ StopPending(a) \/
              TurnFinished(a) \/ Publish(a) \/ TakeStop(a) \/ UrgentRejected(a) \/
              Shutdown(a) \/ FinishActive(a) \/ Release(a)
       PROVE  MessageAt(k)'
    <3>1. UNCHANGED <<commit, answer, record, given>>
      BY <2>12
      DEF TakeStart, messageVars, TakeDelivery, Abandoned, Steer,
         CapacityChanged, StopPending, TurnFinished, Publish, TakeStop,
         UrgentRejected, Shutdown, FinishActive, Release
    <3> QED BY <3>1, <1>types, <1>in, <1>each, <1>job, <1>works, <1>why,
       <1>sends, <1>mail, <1>queue  DEF MessageAt, JobIs, MailAt, QueueAt, Fresh, Accepted
  <2> QED BY <1>1, <2>1, <2>2, <2>3, <2>4, <2>5, <2>6, <2>7, <2>8, <2>9,
   <2>10, <2>11, <2>12 DEF HarnessStep
<1>2. ASSUME NEW a \in Agents, LibraryStep(a) PROVE MessageAt(k)'
  <2>1. ASSUME (\E result \in Outcomes : TurnEnds(a, result)) \/ EventsEnd(a) \/
              EventsDone(a)
       PROVE  MessageAt(k)'
    <3>1. UNCHANGED <<commit, answer, record, given>>
      BY <2>1
      DEF TurnEnds, messageVars, EventsEnd, EventsDone
    <3> QED BY <3>1, <1>types, <1>in, <1>each, <1>job, <1>works, <1>why,
       <1>sends, <1>mail, <1>queue  DEF MessageAt, JobIs, MailAt, QueueAt, Fresh, Accepted
  <2> QED BY <1>2, <2>1 DEF LibraryStep
<1>3. ASSUME NEW c \in Calls, CallStep(c) \/ CallDropped(c) PROVE MessageAt(k)'
  <2>1. CASE FinishLate(c)
    <3>1. PICK as \in SUBSET Agents : CleanUp(as)
      BY <2>1, LateCleans DEF FinishLate
    <3>2. /\ \A d \in as : /\ mailbox'[d] = EmptyBox /\ queued'[d] = EmptyBox
                           /\ job'[d] = None /\ hpc'[d] = "gone" /\ undo'[d] = NoChange
          /\ \A d \in Agents \ as :
               /\ mailbox'[d] = mailbox[d] /\ queued'[d] = queued[d] /\ job'[d] = job[d]
               /\ hpc'[d] = hpc[d] /\ undo'[d] = undo[d] /\ why'[d] = why[d]
          /\ \A m \in Messages :
               \/ answer'[m] = answer[m]
               \/ /\ message[m].to \in as /\ commit[m] # "unsent"
                  /\ answer[m] = "none" /\ answer'[m] = "dropped"
          /\ \A d \in as : \A m \in InBox(mailbox[d]) : answer'[m] = "dropped"
      BY <3>1, CleanedUp
    <3>3. UNCHANGED <<message, commit, record, given, task>>
      BY <2>1 DEF FinishLate

    <3> QED
      BY <3>2, <3>3, <1>each DEF MessageAt, JobIs, MailAt, QueueAt, Fresh, Accepted
  <2>2. CASE SendCommit(c)
    BY <2>2, <1>types, <1>in, <1>each, <1>job, <1>works, <1>why, <1>sends,
       <1>mail, <1>queue
    DEF MessageAt, JobIs, MailAt, QueueAt, Fresh, Accepted, SendCommit
  <2>3. CASE SendReturns(c)
    BY <2>3, <1>types, <1>in, <1>each, <1>job, <1>works, <1>why, <1>sends,
       <1>mail, <1>queue
    DEF MessageAt, JobIs, MailAt, QueueAt, Fresh, Accepted, SendReturns,
       RollBack, Delivered
  <2>4. CASE CallDropped(c)
    BY <2>4, <1>types, <1>in, <1>each, <1>job, <1>works, <1>why, <1>sends,
       <1>mail, <1>queue
    DEF MessageAt, JobIs, MailAt, QueueAt, Fresh, Accepted, CallDropped, Root,
       Holding
  <2>5. ASSUME SpawnReserveId(c) \/ SpawnFails(c) \/ SpawnReturns(c) \/ (\E a \in
              Agents : SpawnInsert(c, a)) \/ (\E a \in Agents : SpawnLaunch(c, a))
              \/ StopSend(c) \/ InterruptReturns(c) \/ CloseInactive(c) \/
              FinishClose(c) \/ CloseReturns(c)
       PROVE  MessageAt(k)'
    <3>1. UNCHANGED <<commit, answer, record, given>>
      BY <2>5
      DEF SpawnReserveId, messageVars, SpawnFails, SpawnReturns, OnlyCalls,
         SpawnInsert, SpawnLaunch, StopSend, InterruptReturns, CloseInactive,
         FinishClose, CloseReturns
    <3> QED BY <3>1, <1>types, <1>in, <1>each, <1>job, <1>works, <1>why,
       <1>sends, <1>mail, <1>queue  DEF MessageAt, JobIs, MailAt, QueueAt, Fresh, Accepted
  <2> QED BY <1>3, <2>1, <2>2, <2>3, <2>4, <2>5 DEF CallStep
<1>4. ASSUME NEW c \in Calls, NEW session \in Sessions, CallBegins(c, session) PROVE MessageAt(k)'
  <2>1. ASSUME NEW a \in Agents, NEW urgent \in BOOLEAN, NEW delegate \in BOOLEAN, SendPrepare(c, session, a, urgent, delegate) PROVE MessageAt(k)'
    <3>1. PICK m \in Messages : Posted(a, m)
      BY <2>1, SendPosts
    <3>2. /\ message'[m].to = a /\ commit'[m] = "wait" /\ answer'[m] = "none" /\ given'[m] = 0
          /\ UNCHANGED <<hpc, why, job, undo, queued, task, answer, record, given>>
      BY <3>1, <1>each DEF Posted, MessageAt
    <3>3. \A n \in Messages : commit[n] # "unsent" =>
            n # m /\ n < m /\ message'[n] = message[n] /\ commit'[n] = commit[n]
      BY <3>1 DEF Posted
    <3>4. \A d \in Agents : /\ \A n \in InBox(mailbox[d]) : commit[n] # "unsent" /\ message[n].to = d
                            /\ \A n \in InBox(queued[d]) : commit[n] # "unsent" /\ message[n].to = d
                            /\ job[d] # None => commit[job[d]] # "unsent" /\ message[job[d]].to = d
      BY <1>mail, <1>queue, <1>job DEF MailAt, QueueAt, JobIs, Fresh, Accepted
    <3>5. \A d \in Agents : /\ \A n \in InBox(mailbox'[d]) : n \in InBox(mailbox[d]) \/ (n = m /\ d = a)
                            /\ Filed(message', mailbox'[d]) /\ Filed(message', queued[d])
      BY <3>1 DEF Posted
    <3> QED
      BY <3>2, <3>3, <3>4, <3>5, <1>in, <1>types, <1>each DEF MessageAt, JobIs, MailAt, QueueAt, Fresh, Accepted
  <2>2. ASSUME SpawnReserveTurn(c, session) \/ (\E operation \in Stops, target \in
              Sessions : StopRequest(c, session, operation, target))
       PROVE  MessageAt(k)'
    <3>1. UNCHANGED <<commit, answer, record, given>>
      BY <2>2
      DEF SpawnReserveTurn, messageVars, StopRequest
    <3> QED BY <3>1, <1>types, <1>in, <1>each, <1>job, <1>works, <1>why,
       <1>sends, <1>mail, <1>queue  DEF MessageAt, JobIs, MailAt, QueueAt, Fresh, Accepted
  <2> QED BY <1>4, <2>1, <2>2 DEF CallBegins
<1>5. ASSUME Disturbance PROVE MessageAt(k)'
  <2>1. ASSUME (\E c \in Calls : StopTimesOut(c)) \/ (\E c \in Calls :
              JoinTimesOut(c)) \/ (\E a \in Agents : Submit(a)) \/ (\E a \in Agents
              : DriverDies(a)) \/ (\E n \in Limits : SetLimit(n))
       PROVE  MessageAt(k)'
    <3>1. UNCHANGED <<commit, answer, record, given>>
      BY <2>1
      DEF StopTimesOut, OnlyCalls, messageVars, JoinTimesOut, Submit,
         DriverDies, SetLimit
    <3> QED BY <3>1, <1>types, <1>in, <1>each, <1>job, <1>works, <1>why,
       <1>sends, <1>mail, <1>queue  DEF MessageAt, JobIs, MailAt, QueueAt, Fresh, Accepted
  <2> QED BY <1>5, <2>1 DEF Disturbance
<1> QED BY <1>1, <1>2, <1>3, <1>4, <1>5 DEF Next

(* A message that is pending is in its child's hands.                      *)
LEMMA HeldKept ==
  ASSUME IInv, MInv, NEW b \in Agents, Next
  PROVE  HeldAt(b)'
<1>types. /\ hpc \in [Agents -> HarnessPoints] /\ why \in [Agents -> Reasons]
          /\ job \in [Agents -> {None} \cup Messages]
          /\ undo \in [Agents -> {None, NoChange} \cup Messages]
          /\ task \in [Agents -> {None} \cup Messages]
          /\ mailbox \in [Agents -> Boxes] /\ queued \in [Agents -> Boxes]
          /\ commit \in [Messages -> {"unsent", "wait", "yes", "dropped"}]
          /\ answer \in [Messages -> {"none", "ok", "error", "dropped"}]
          /\ record \in [Messages -> {"none", "pending", "settled", "removed"}]
          /\ given \in [Messages -> Nat]
  BY DEF IInv, TypeInv, HarnessTypes, SessionTypes, ChannelTypes, MessageTypes
<1>in. /\ \A a \in Agents : InBox(mailbox[a]) \subseteq Messages /\ InBox(queued[a]) \subseteq Messages
       /\ None \notin Messages /\ NoChange \notin Messages /\ InBox(EmptyBox) = {}
  BY Placed
<1>mail. \A a \in Agents : MailAt(a) 
  BY DEF MInv, BoxesAt
<1>queue. \A a \in Agents : QueueAt(a) 
  BY DEF MInv, BoxesAt
<1>clear. \A a \in Agents : ClearAt(a) 
  BY DEF MInv, BoxesAt
<1>job. \A a \in Agents : JobIs(a) 
  BY DEF MInv, JobAt
<1>apart. \A a, c \in Agents :
    /\ \A m \in InBox(mailbox[a]) :
         m \notin InBox(queued[c]) /\ m # job[c] /\ (m \in InBox(mailbox[c]) => a = c)
    /\ \A m \in InBox(queued[a]) : m # job[c] /\ (m \in InBox(queued[c]) => a = c)
    /\ job[a] # None /\ job[a] = job[c] => a = c
  BY AreApart DEF Apart
<1>each. \A m \in Messages : MessageAt(m)
  BY DEF MInv
<1>works. \A a \in Agents : /\ hpc[a] \in {"accept", "steering"} => job[a] \in Messages
                            /\ hpc[a] = "prompting" /\ why[a] # "start" => job[a] \in Messages
                            /\ hpc[a] \notin {"accept", "steering", "prompting"} => job[a] = None
  BY DEF IInv, TypeInv, JobInv, MInv, JobAt, JobIs
<1>why. \A a \in Agents : 
          /\ hpc[a] = "prompting" => why[a] \in {"start", "deliver", "pending"}
          /\ hpc[a] \in {"select", "accept", "steering", "pending"} => why[a] = "none"
  BY DEF IInv, HarnessInv, WhyAt, Stopping
<1>held. \A a \in Agents : HeldAt(a)
  BY DEF MInv
<1>late. LateInv
  BY DEF MInv
<1>sends. \A c \in Calls : 
            /\ cpc[c] = "send_commit" => sent[c] \in Messages /\ commit[sent[c]] = "wait"
            /\ cpc[c] = "send_wait" => sent[c] \in Messages /\ commit[sent[c]] = "yes"
            /\ cpc[c] = "send_commit" => \A m \in Messages : m > sent[c] => commit[m] = "unsent"
  BY DEF IInv, TypeInv, LockInv
<1>1. ASSUME NEW a \in Agents, HarnessStep(a) PROVE HeldAt(b)'
  <2>1. CASE TakeStart(a)
    <3>1. hpc[a] = "select" /\ job[a] = None
      BY <2>1, <1>works DEF TakeStart, IsCommand
    <3>2. /\ hpc'[a] # "gone" /\ job'[a] = None
          /\ \A d \in Agents : d # a => hpc'[d] = hpc[d] /\ job'[d] = job[d]
      BY <2>1, <3>1, <1>types DEF TakeStart, Prompting, Goto
    <3>3. UNCHANGED <<mailbox, queued, message, commit, answer, record>>
      BY <2>1 DEF TakeStart, messageVars
    <3> QED
      BY <3>1, <3>2, <3>3, <1>held DEF HeldAt
  <2>2. CASE PromptAccepted(a)
    BY <2>2, <1>types, <1>in, <1>held, <1>job, <1>each, <1>works, <1>why,
       <1>sends, <1>mail, <1>queue, <1>clear
    DEF HeldAt, MessageAt, JobIs, MailAt, QueueAt, Fresh, Accepted,
       PromptAccepted, None, channelVars, NoChange, Goto, Settle, Admit
  <2>3. CASE PromptFailed(a)
    BY <2>3, <1>types, <1>in, <1>held, <1>job, <1>each, <1>works, <1>why,
       <1>sends, <1>mail, <1>queue, <1>clear
    DEF HeldAt, MessageAt, JobIs, MailAt, QueueAt, Fresh, Accepted,
       PromptFailed, None, channelVars, Goto, Settle, Refuse, RollBack
  <2>4. CASE TakeDelivery(a)
    BY <2>4, <1>types, <1>in, <1>held, <1>job, <1>each, <1>works, <1>why,
       <1>sends, <1>mail, <1>queue, <1>clear, MailTaken
    DEF HeldAt, MessageAt, JobIs, MailAt, QueueAt, Fresh, Accepted,
       TakeDelivery, messageVars, EmptyBox, Goto, NoCommand
  <2>5. CASE Abandoned(a)
    BY <2>5, <1>types, <1>in, <1>held, <1>job, <1>each, <1>works, <1>why,
       <1>sends, <1>mail, <1>queue, <1>clear
    DEF HeldAt, MessageAt, JobIs, MailAt, QueueAt, Fresh, Accepted, Abandoned,
       None, channelVars, messageVars, Goto
  <2>6. ASSUME NEW m \in Messages, Steer(a, m) PROVE HeldAt(b)'
    BY <2>6, <1>types, <1>in, <1>held, <1>job, <1>each, <1>works, <1>why,
       <1>sends, <1>mail, <1>queue, <1>clear
    DEF HeldAt, MessageAt, JobIs, MailAt, QueueAt, Fresh, Accepted, Steer,
       channelVars, messageVars, Goto, Accepting, Steerable
  <2>7. ASSUME NEW m \in Messages, DeliverStart(a, m) PROVE HeldAt(b)'
    <3>1. /\ hpc[a] = "accept" /\ job[a] \in Messages /\ job[a] = m /\ commit[m] = "yes" /\ why[a] = "none"
          /\ queued[a] = EmptyBox /\ Fresh(m) /\ message[m].to = a
          /\ UNCHANGED <<mailbox, queued, message, commit, given>>
      BY <2>7, <1>works, <1>why, <1>job, <1>in DEF DeliverStart, Accepting, CanDeliver, channelVars, JobIs
    <3>2. \/ /\ hpc' = [hpc EXCEPT ![a] = "prompting"] /\ why' = [why EXCEPT ![a] = "deliver"]
             /\ job' = [job EXCEPT ![a] = m] /\ UNCHANGED <<answer, record>>
          \/ /\ hpc' = [hpc EXCEPT ![a] = "select"] /\ job' = [job EXCEPT ![a] = None] /\ UNCHANGED why
             /\ answer' = [answer EXCEPT ![m] = "error"] /\ record' = [record EXCEPT ![m] = "removed"]
      BY <2>7 DEF DeliverStart, Prompting, Goto, Refuse, RollBack
    <3>3. CASE /\ hpc' = [hpc EXCEPT ![a] = "prompting"] /\ why' = [why EXCEPT ![a] = "deliver"]
               /\ job' = [job EXCEPT ![a] = m] /\ UNCHANGED <<answer, record>>
      BY <3>1, <3>3, <1>types, <1>in, <1>held, <1>job, <1>each, <1>works, <1>why, <1>sends, <1>mail, <1>queue, <1>clear DEF HeldAt, MessageAt, JobIs, MailAt, QueueAt, Fresh, Accepted
    <3>4. CASE /\ hpc' = [hpc EXCEPT ![a] = "select"] /\ job' = [job EXCEPT ![a] = None] /\ UNCHANGED why
               /\ answer' = [answer EXCEPT ![m] = "error"] /\ record' = [record EXCEPT ![m] = "removed"]
      BY <3>1, <3>4, <1>types, <1>in, <1>held, <1>job, <1>each, <1>works, <1>why, <1>sends, <1>mail, <1>queue, <1>clear DEF HeldAt, MessageAt, JobIs, MailAt, QueueAt, Fresh, Accepted
    <3> QED
      BY <3>2, <3>3, <3>4
  <2>8. ASSUME NEW m \in Messages, DeliverQueue(a, m) PROVE HeldAt(b)'
    <3>1. PICK box :
               /\ InBox(box) = InBox(queued[a]) \cup {job[a]} /\ Filed(message, box)
               /\ hpc' = [hpc EXCEPT ![a] = "select"] /\ job' = [job EXCEPT ![a] = None]
               /\ \/ /\ queued' = [queued EXCEPT ![a] = box]
                     /\ answer' = [answer EXCEPT ![job[a]] = "ok"] /\ record' = record
                  \/ /\ queued' = queued
                     /\ answer' = [answer EXCEPT ![job[a]] = "error"]
                     /\ record' = [record EXCEPT ![job[a]] = "removed"]
      BY <2>8, DeliveryQueued DEF DeliverQueue, Accepting
    <3>2. /\ hpc[a] \in {"accept", "steering"} /\ job[a] \in Messages /\ commit[job[a]] = "yes" /\ why[a] = "none"
          /\ Fresh(job[a]) /\ message[job[a]].to = a
          /\ UNCHANGED <<why, mailbox, message, commit, given>>
      BY <2>8, <1>works, <1>job, <1>why, <1>in DEF DeliverQueue, Accepting, channelVars, JobIs
    <3>3. \A n \in Messages : n # job[a] => answer'[n] = answer[n] /\ record'[n] = record[n]
      BY <3>1, <3>2, <1>types
    <3>4. \A d \in Agents : d # a => queued'[d] = queued[d] /\ hpc'[d] = hpc[d] /\ job'[d] = job[d] /\ job[d] # job[a]
      BY <3>1, <3>2, <1>types, <1>apart, <1>in
    <3>5. /\ hpc'[a] = "select" /\ job'[a] = None
          /\ \/ queued'[a] = box /\ answer'[job[a]] = "ok" /\ record'[job[a]] = record[job[a]]
             \/ queued'[a] = queued[a] /\ answer'[job[a]] = "error" /\ record'[job[a]] = "removed"
      BY <3>1, <3>2, <1>types
    <3>6. InBox(box) = InBox(queued[a]) \cup {job[a]} /\ Filed(message, box)
      BY <3>1
    <3> QED
      BY <3>2, <3>3, <3>4, <3>5, <3>6, <1>types, <1>in, <1>held, <1>job, <1>each, <1>works, <1>why, <1>sends, <1>mail, <1>queue, <1>clear DEF HeldAt, MessageAt, JobIs, MailAt, QueueAt, Fresh, Accepted
  <2>9. CASE SteerAdmitted(a)
    BY <2>9, <1>types, <1>in, <1>held, <1>job, <1>each, <1>works, <1>why,
       <1>sends, <1>mail, <1>queue, <1>clear
    DEF HeldAt, MessageAt, JobIs, MailAt, QueueAt, Fresh, Accepted,
       SteerAdmitted, None, channelVars, NoChange, Goto, Settle, Admit
  <2>10. CASE SteerRefused(a)
    <3>1. PICK box :
               /\ InBox(box) = InBox(queued[a]) \cup {job[a]} /\ Filed(message, box)
               /\ hpc' = [hpc EXCEPT ![a] = "select"] /\ job' = [job EXCEPT ![a] = None]
               /\ \/ /\ queued' = [queued EXCEPT ![a] = box]
                     /\ answer' = [answer EXCEPT ![job[a]] = "ok"] /\ record' = record
                  \/ /\ queued' = queued
                     /\ answer' = [answer EXCEPT ![job[a]] = "error"]
                     /\ record' = [record EXCEPT ![job[a]] = "removed"]
      BY <2>10, DeliveryQueued DEF SteerRefused
    <3>2. /\ hpc[a] \in {"accept", "steering"} /\ job[a] \in Messages /\ commit[job[a]] = "yes" /\ why[a] = "none"
          /\ Fresh(job[a]) /\ message[job[a]].to = a
          /\ UNCHANGED <<why, mailbox, message, commit, given>>
      BY <2>10, <1>works, <1>job, <1>why, <1>in DEF SteerRefused, channelVars, JobIs
    <3>3. \A n \in Messages : n # job[a] => answer'[n] = answer[n] /\ record'[n] = record[n]
      BY <3>1, <3>2, <1>types
    <3>4. \A d \in Agents : d # a => queued'[d] = queued[d] /\ hpc'[d] = hpc[d] /\ job'[d] = job[d] /\ job[d] # job[a]
      BY <3>1, <3>2, <1>types, <1>apart, <1>in
    <3>5. /\ hpc'[a] = "select" /\ job'[a] = None
          /\ \/ queued'[a] = box /\ answer'[job[a]] = "ok" /\ record'[job[a]] = record[job[a]]
             \/ queued'[a] = queued[a] /\ answer'[job[a]] = "error" /\ record'[job[a]] = "removed"
      BY <3>1, <3>2, <1>types
    <3>6. InBox(box) = InBox(queued[a]) \cup {job[a]} /\ Filed(message, box)
      BY <3>1
    <3> QED
      BY <3>2, <3>3, <3>4, <3>5, <3>6, <1>types, <1>in, <1>held, <1>job, <1>each, <1>works, <1>why, <1>sends, <1>mail, <1>queue, <1>clear DEF HeldAt, MessageAt, JobIs, MailAt, QueueAt, Fresh, Accepted
  <2>11. CASE SteerFailed(a)
    BY <2>11, <1>types, <1>in, <1>held, <1>job, <1>each, <1>works, <1>why,
       <1>sends, <1>mail, <1>queue, <1>clear
    DEF HeldAt, MessageAt, JobIs, MailAt, QueueAt, Fresh, Accepted,
       SteerFailed, None, channelVars, Goto, Refuse, RollBack
  <2>12. CASE CapacityChanged(a)
    BY <2>12, <1>types, <1>in, <1>held, <1>job, <1>each, <1>works, <1>why,
       <1>sends, <1>mail, <1>queue, <1>clear
    DEF HeldAt, MessageAt, JobIs, MailAt, QueueAt, Fresh, Accepted,
       CapacityChanged, stepVars, channelVars, messageVars, EmptyBox, Goto,
       NoCommand
  <2>13. CASE StartPending(a)
    <3> DEFINE m == NextOf(queued[a])
    <3>0. /\ hpc[a] = "pending" /\ job[a] = None
          /\ m \in InBox(queued[a]) /\ m \in Messages /\ message[m].to = a /\ commit[m] = "yes"
          /\ InBox(Without(queued[a])) = InBox(queued[a]) \ {m}
          /\ queued' = [queued EXCEPT ![a] = Without(queued[a])]
          /\ UNCHANGED <<mailbox, message, commit, answer>>
      BY <2>13, QueueTaken, <1>queue, <1>works, <1>in DEF StartPending, QueueAt, Accepted, channelVars
    <3>1. \/ /\ hpc' = [hpc EXCEPT ![a] = "prompting"] /\ job' = [job EXCEPT ![a] = m] /\ UNCHANGED record
          \/ /\ record' = [record EXCEPT ![m] = "settled"] /\ UNCHANGED <<hpc, job>>
      BY <2>13 DEF StartPending, Prompting, Goto, Settle
    <3> HIDE DEF m
    <3>2. \A d \in Agents : d # a => queued'[d] = queued[d] /\ hpc'[d] = hpc[d] /\ job'[d] = job[d]
      BY <3>0, <3>1, <1>types
    <3>3. InBox(queued'[a]) = InBox(queued[a]) \ {m} /\ hpc'[a] # "gone"
      BY <3>0, <3>1, <1>types
    <3>4. \A n \in Messages : n # m => record'[n] = record[n]
      BY <3>1, <1>types
    <3>5. job'[a] = m \/ record'[m] = "settled"
      BY <3>0, <3>1, <1>types
    <3>6. hpc[a] # "gone" /\ job[a] = None
      BY <3>0
    <3>7. CASE b = a
      BY <3>0, <3>3, <3>4, <3>5, <3>6, <3>7, <1>held, <1>in DEF HeldAt
    <3>8. CASE b # a
      BY <3>0, <3>2, <3>4, <3>8, <1>held DEF HeldAt
    <3> QED
      BY <3>7, <3>8
  <2>14. CASE StopPending(a)
    BY <2>14, <1>types, <1>in, <1>held, <1>job, <1>each, <1>works, <1>why,
       <1>sends, <1>mail, <1>queue, <1>clear
    DEF HeldAt, MessageAt, JobIs, MailAt, QueueAt, Fresh, Accepted,
       StopPending, stepVars, channelVars, messageVars, EmptyBox, CanReserve,
       Goto
  <2>15. CASE TurnFinished(a)
    BY <2>15, <1>types, <1>in, <1>held, <1>job, <1>each, <1>works, <1>why,
       <1>sends, <1>mail, <1>queue, <1>clear
    DEF HeldAt, MessageAt, JobIs, MailAt, QueueAt, Fresh, Accepted,
       TurnFinished, stepVars, channelVars, messageVars, EmptyBox, Goto,
       NoCommand, TurnOver
  <2>16. CASE Publish(a)
    BY <2>16, <1>types, <1>in, <1>held, <1>job, <1>each, <1>works, <1>why,
       <1>sends, <1>mail, <1>queue, <1>clear
    DEF HeldAt, MessageAt, JobIs, MailAt, QueueAt, Fresh, Accepted, Publish,
       stepVars, channelVars, messageVars, Goto
  <2>17. CASE TakeStop(a)
    BY <2>17, <1>types, <1>in, <1>held, <1>job, <1>each, <1>works, <1>why,
       <1>sends, <1>mail, <1>queue, <1>clear
    DEF HeldAt, MessageAt, JobIs, MailAt, QueueAt, Fresh, Accepted, TakeStop,
       messageVars, Goto, IsCommand
  <2>18. CASE RejectWaiting(a)
    <3>1. PICK m \in InBox(mailbox[a]) :
               /\ InBox(mailbox'[a]) = InBox(mailbox[a]) \ {m}
               /\ Filed(message, mailbox'[a])
               /\ \A d \in Agents : d # a => mailbox'[d] = mailbox[d]
               /\ m \in Messages
               /\ \A n \in Messages : n # m => answer'[n] = answer[n] /\ record'[n] = record[n]
               /\ \/ commit[m] = "yes" /\ answer'[m] = "error" /\ record'[m] = "removed"
                  \/ commit[m] = "dropped" /\ answer'[m] = answer[m] /\ record'[m] = record[m]
      BY <2>18, WaitingRejected
    <3>2. UNCHANGED <<message, commit, given, hpc, queued, job, why, task, undo>>
      BY <2>18 DEF RejectWaiting, sessionVars, harnessVars, stepVars
    <3>3. \A d \in Agents : /\ InBox(mailbox'[d]) \subseteq InBox(mailbox[d]) 
                            /\ m \notin InBox(mailbox'[d]) /\ m \notin InBox(queued[d]) /\ m # job[d]
      BY <3>1, <1>apart
    <3> QED
      BY <3>1, <3>2, <3>3, <1>types, <1>in, <1>held, <1>job, <1>each, <1>works, <1>why, <1>sends, <1>mail, <1>queue, <1>clear DEF HeldAt, MessageAt, JobIs, MailAt, QueueAt, Fresh, Accepted
  <2>19. CASE UrgentRejected(a)
    BY <2>19, <1>types, <1>in, <1>held, <1>job, <1>each, <1>works, <1>why,
       <1>sends, <1>mail, <1>queue, <1>clear
    DEF HeldAt, MessageAt, JobIs, MailAt, QueueAt, Fresh, Accepted,
       UrgentRejected, stepVars, channelVars, messageVars, Goto
  <2>20. CASE AllRejected(a)
    BY <2>20, <1>types, <1>in, <1>held, <1>job, <1>each, <1>works, <1>why,
       <1>sends, <1>mail, <1>queue, <1>clear
    DEF HeldAt, MessageAt, JobIs, MailAt, QueueAt, Fresh, Accepted,
       AllRejected, channelVars, Goto, FailPending, EmptyBox
  <2>21. CASE Shutdown(a)
    BY <2>21, <1>types, <1>in, <1>held, <1>job, <1>each, <1>works, <1>why,
       <1>sends, <1>mail, <1>queue, <1>clear
    DEF HeldAt, MessageAt, JobIs, MailAt, QueueAt, Fresh, Accepted, Shutdown,
       stepVars, channelVars, messageVars, Goto
  <2>22. CASE FinishActive(a)
    BY <2>22, <1>types, <1>in, <1>held, <1>job, <1>each, <1>works, <1>why,
       <1>sends, <1>mail, <1>queue, <1>clear
    DEF HeldAt, MessageAt, JobIs, MailAt, QueueAt, Fresh, Accepted,
       FinishActive, stepVars, channelVars, messageVars, Goto, TurnOver
  <2>23. CASE Release(a)
    BY <2>23, <1>types, <1>in, <1>held, <1>job, <1>each, <1>works, <1>why,
       <1>sends, <1>mail, <1>queue, <1>clear
    DEF HeldAt, MessageAt, JobIs, MailAt, QueueAt, Fresh, Accepted, Release,
       channelVars, messageVars, Goto
  <2>24. CASE HarnessClosed(a)
    <3>1. PICK as \in SUBSET Agents : CleanUp(as) /\ (as = {a} \/ "timeout" \in Disturbances)
      <4>1. CleanUp({a}) /\ {a} \in SUBSET Agents
        BY <2>24 DEF HarnessClosed
      <4> QED
        BY <4>1
    <3>2. /\ \A d \in as : hpc'[d] = "gone"
          /\ \A d \in Agents \ as :
               mailbox'[d] = mailbox[d] /\ queued'[d] = queued[d] /\ job'[d] = job[d] /\ hpc'[d] = hpc[d]
          /\ \A m \in Messages : answer[m] = "dropped" => answer'[m] = "dropped"
          /\ \A d \in as : \A m \in InBox(mailbox[d]) : answer'[m] = "dropped"
      BY ZenonT(40), <3>1, CleanedUp
    <3>x. \A m \in Messages : message[m].to \notin as => answer'[m] = answer[m]
      BY <3>1, CleanedUp
    <3>3. UNCHANGED <<message, commit, record>>
      BY <2>24 DEF HarnessClosed
    <3>4. CASE b \in as
      <4>1. hpc'[b] = "gone" /\ \A m \in InBox(mailbox[b]) : answer'[m] = "dropped"
        BY <3>2, <3>4
      <4>2. "timeout" \in Disturbances \/ (queued[b] = EmptyBox /\ job[b] = None)
        <5>1. CASE "timeout" \in Disturbances
          BY <5>1
        <5>2. CASE as = {a}
          <6>1. b = a /\ hpc[a] = "closing"
            BY <2>24, <3>4, <5>2 DEF HarnessClosed
          <6> QED
            BY <6>1, <1>clear, <1>works DEF ClearAt
        <5> QED
          BY <3>1, <5>1, <5>2
      <4> QED
        BY <3>2, <3>3, <4>1, <4>2, <1>in, <1>held DEF HeldAt
    <3>5. CASE b \notin as
      <4>1. /\ mailbox'[b] = mailbox[b] /\ queued'[b] = queued[b] /\ job'[b] = job[b] /\ hpc'[b] = hpc[b]
        BY <3>2, <3>5
      <4>2. \A m \in Messages : message[m].to = b => answer'[m] = answer[m]
        BY <3>5, <3>x
      <4> QED
        BY <3>3, <4>1, <4>2, <1>held DEF HeldAt
    <3> QED
      BY <3>4, <3>5
  <2> QED BY <1>1, <2>1, <2>2, <2>3, <2>4, <2>5, <2>6, <2>7, <2>8, <2>9,
   <2>10, <2>11, <2>12, <2>13, <2>14, <2>15, <2>16, <2>17, <2>18, <2>19,
   <2>20, <2>21, <2>22, <2>23, <2>24 DEF HarnessStep
<1>2. ASSUME NEW a \in Agents, LibraryStep(a) PROVE HeldAt(b)'
  <2>1. ASSUME (\E result \in Outcomes : TurnEnds(a, result)) \/ EventsEnd(a) \/
              EventsDone(a)
       PROVE  HeldAt(b)'
    <3>1. UNCHANGED <<hpc, job, queued, mailbox, message, commit, answer, record>>
      BY <2>1
      DEF TurnEnds, stepVars, channelVars, messageVars, EventsEnd,
         harnessVars, EventsDone
    <3> QED BY <3>1, <1>types, <1>in, <1>held, <1>job, <1>each, <1>works,
       <1>why, <1>sends, <1>mail, <1>queue, <1>clear  DEF HeldAt, MessageAt, JobIs, MailAt, QueueAt, Fresh, Accepted
  <2> QED BY <1>2, <2>1 DEF LibraryStep
<1>3. ASSUME NEW c \in Calls, CallStep(c) \/ CallDropped(c) PROVE HeldAt(b)'
  <2>1. ASSUME NEW a \in Agents, SpawnInsert(c, a) PROVE HeldAt(b)'
    <3>1. hpc[a] = "absent"
      BY <2>1 DEF SpawnInsert, IInv, SpawnInv, HarnessInv, AbsentAt
    <3>2. job[a] = None /\ hpc'[a] = "select"
      BY <2>1, <3>1, <1>works, <1>types DEF SpawnInsert, Goto
    <3>3. \A d \in Agents : d # a => hpc'[d] = hpc[d]
      BY <2>1, <1>types DEF SpawnInsert, Goto
    <3>4. UNCHANGED <<why, job, undo, task, mailbox, queued, message, commit, answer, record, given>>
      BY <2>1 DEF SpawnInsert, stepVars, channelVars, messageVars
    <3> QED
      BY <3>2, <3>3, <3>1, <3>4, <1>held DEF HeldAt
  <2>2. CASE FinishLate(c)
    <3>1. PICK as \in SUBSET Agents : CleanUp(as)
      BY <2>2, LateCleans
    <3>2. /\ \A d \in as : hpc'[d] = "gone"
          /\ \A d \in Agents \ as :
               mailbox'[d] = mailbox[d] /\ queued'[d] = queued[d] /\ job'[d] = job[d] /\ hpc'[d] = hpc[d]
          /\ \A m \in Messages : answer[m] = "dropped" => answer'[m] = "dropped"
          /\ \A d \in as : \A m \in InBox(mailbox[d]) : answer'[m] = "dropped"
      BY ZenonT(40), <3>1, CleanedUp
    <3>x. \A m \in Messages : message[m].to \notin as => answer'[m] = answer[m]
      BY <3>1, CleanedUp
    <3>3. UNCHANGED <<message, commit, record>>
      BY <2>2 DEF FinishLate
    <3>4. CASE b \in as
      <4>1. hpc'[b] = "gone" /\ \A m \in InBox(mailbox[b]) : answer'[m] = "dropped"
        BY <3>2, <3>4
      <4>2. "timeout" \in Disturbances \/ (queued[b] = EmptyBox /\ job[b] = None)
        BY <2>2, <1>late DEF FinishLate, LateInv
      <4> QED
        BY <3>2, <3>3, <4>1, <4>2, <1>in, <1>held DEF HeldAt
    <3>5. CASE b \notin as
      <4>1. /\ mailbox'[b] = mailbox[b] /\ queued'[b] = queued[b] /\ job'[b] = job[b] /\ hpc'[b] = hpc[b]
        BY <3>2, <3>5
      <4>2. \A m \in Messages : message[m].to = b => answer'[m] = answer[m]
        BY <3>5, <3>x
      <4> QED
        BY <3>3, <4>1, <4>2, <1>held DEF HeldAt
    <3> QED
      BY <3>4, <3>5
  <2>3. CASE SendCommit(c)
    BY <2>3, <1>types, <1>in, <1>held, <1>job, <1>each, <1>works, <1>why,
       <1>sends, <1>mail, <1>queue, <1>clear
    DEF HeldAt, MessageAt, JobIs, MailAt, QueueAt, Fresh, Accepted,
       SendCommit, harnessVars, channelVars, stepVars
  <2>4. CASE SendReturns(c)
    BY <2>4, <1>types, <1>in, <1>held, <1>job, <1>each, <1>works, <1>why,
       <1>sends, <1>mail, <1>queue, <1>clear
    DEF HeldAt, MessageAt, JobIs, MailAt, QueueAt, Fresh, Accepted,
       SendReturns, harnessVars, channelVars, RollBack, Delivered, stepVars
  <2>5. CASE CallDropped(c)
    BY <2>5, <1>types, <1>in, <1>held, <1>job, <1>each, <1>works, <1>why,
       <1>sends, <1>mail, <1>queue, <1>clear
    DEF HeldAt, MessageAt, JobIs, MailAt, QueueAt, Fresh, Accepted,
       CallDropped, Root, harnessVars, channelVars, Holding, stepVars
  <2>6. ASSUME SpawnReserveId(c) \/ SpawnFails(c) \/ SpawnReturns(c) \/ (\E a \in
              Agents : SpawnLaunch(c, a)) \/ StopSend(c) \/ InterruptReturns(c) \/
              CloseInactive(c) \/ FinishClose(c) \/ CloseReturns(c)
       PROVE  HeldAt(b)'
    <3>1. UNCHANGED <<hpc, job, queued, mailbox, message, commit, answer, record>>
      BY <2>6
      DEF SpawnReserveId, harnessVars, channelVars, messageVars, stepVars,
         SpawnFails, SpawnReturns, OnlyCalls, SpawnLaunch, StopSend,
         InterruptReturns, CloseInactive, FinishClose, CloseReturns
    <3> QED BY <3>1, <1>types, <1>in, <1>held, <1>job, <1>each, <1>works,
       <1>why, <1>sends, <1>mail, <1>queue, <1>clear  DEF HeldAt, MessageAt, JobIs, MailAt, QueueAt, Fresh, Accepted
  <2> QED BY <1>3, <2>1, <2>2, <2>3, <2>4, <2>5, <2>6 DEF CallStep
<1>4. ASSUME NEW c \in Calls, NEW session \in Sessions, CallBegins(c, session) PROVE HeldAt(b)'
  <2>1. ASSUME NEW a \in Agents, NEW urgent \in BOOLEAN, NEW delegate \in BOOLEAN, SendPrepare(c, session, a, urgent, delegate) PROVE HeldAt(b)'
    <3>1. PICK m \in Messages : Posted(a, m)
      BY <2>1, SendPosts
    <3>2. /\ message'[m].to = a /\ m \in InBox(mailbox'[a])
          /\ \A n \in Messages : n # m => message'[n] = message[n] /\ commit'[n] = commit[n]
          /\ \A d \in Agents : InBox(mailbox[d]) \subseteq InBox(mailbox'[d])
          /\ UNCHANGED <<hpc, job, queued, answer, record>>
      BY <3>1 DEF Posted
    <3> QED
      BY <3>2, <1>held DEF HeldAt
  <2>2. ASSUME SpawnReserveTurn(c, session) \/ (\E operation \in Stops, target \in
              Sessions : StopRequest(c, session, operation, target))
       PROVE  HeldAt(b)'
    <3>1. UNCHANGED <<hpc, job, queued, mailbox, message, commit, answer, record>>
      BY <2>2
      DEF SpawnReserveTurn, harnessVars, channelVars, messageVars, stepVars,
         StopRequest
    <3> QED BY <3>1, <1>types, <1>in, <1>held, <1>job, <1>each, <1>works,
       <1>why, <1>sends, <1>mail, <1>queue, <1>clear  DEF HeldAt, MessageAt, JobIs, MailAt, QueueAt, Fresh, Accepted
  <2> QED BY <1>4, <2>1, <2>2 DEF CallBegins
<1>5. ASSUME Disturbance PROVE HeldAt(b)'
  <2>1. ASSUME (\E c \in Calls : StopTimesOut(c)) \/ (\E c \in Calls :
              JoinTimesOut(c)) \/ (\E a \in Agents : Submit(a)) \/ (\E a \in Agents
              : DriverDies(a)) \/ (\E n \in Limits : SetLimit(n))
       PROVE  HeldAt(b)'
    <3>1. UNCHANGED <<hpc, job, queued, mailbox, message, commit, answer, record>>
      BY <2>1
      DEF StopTimesOut, OnlyCalls, channelVars, harnessVars, messageVars,
         stepVars, JoinTimesOut, Submit, DriverDies, SetLimit
    <3> QED BY <3>1, <1>types, <1>in, <1>held, <1>job, <1>each, <1>works,
       <1>why, <1>sends, <1>mail, <1>queue, <1>clear  DEF HeldAt, MessageAt, JobIs, MailAt, QueueAt, Fresh, Accepted
  <2> QED BY <1>5, <2>1 DEF Disturbance
<1> QED BY <1>1, <1>2, <1>3, <1>4, <1>5 DEF Next

(* What is pending was sent after what was given.                          *)
LEMMA OrderKept ==
  ASSUME IInv, MInv, NEW k \in Messages, NEW l \in Messages, Next
  PROVE  OrderAt(k, l)'
<1>types. /\ hpc \in [Agents -> HarnessPoints] /\ why \in [Agents -> Reasons]
          /\ job \in [Agents -> {None} \cup Messages]
          /\ undo \in [Agents -> {None, NoChange} \cup Messages]
          /\ task \in [Agents -> {None} \cup Messages]
          /\ mailbox \in [Agents -> Boxes] /\ queued \in [Agents -> Boxes]
          /\ commit \in [Messages -> {"unsent", "wait", "yes", "dropped"}]
          /\ answer \in [Messages -> {"none", "ok", "error", "dropped"}]
          /\ record \in [Messages -> {"none", "pending", "settled", "removed"}]
          /\ given \in [Messages -> Nat]
  BY DEF IInv, TypeInv, HarnessTypes, SessionTypes, ChannelTypes, MessageTypes
<1>in. /\ \A a \in Agents : InBox(mailbox[a]) \subseteq Messages /\ InBox(queued[a]) \subseteq Messages
       /\ None \notin Messages /\ NoChange \notin Messages /\ InBox(EmptyBox) = {}
  BY Placed
<1>mail. \A a \in Agents : MailAt(a) 
  BY DEF MInv, BoxesAt
<1>queue. \A a \in Agents : QueueAt(a) 
  BY DEF MInv, BoxesAt
<1>job. \A a \in Agents : JobIs(a) 
  BY DEF MInv, JobAt
<1>jobline. \A a \in Agents : JobLine(a) 
  BY DEF MInv, JobAt
<1>apart. \A a, c \in Agents :
    /\ \A m \in InBox(mailbox[a]) :
         m \notin InBox(queued[c]) /\ m # job[c] /\ (m \in InBox(mailbox[c]) => a = c)
    /\ \A m \in InBox(queued[a]) : m # job[c] /\ (m \in InBox(queued[c]) => a = c)
    /\ job[a] # None /\ job[a] = job[c] => a = c
  BY AreApart DEF Apart
<1>each. \A m \in Messages : MessageAt(m)
  BY DEF MInv
<1>works. \A a \in Agents : /\ hpc[a] \in {"accept", "steering"} => job[a] \in Messages
                            /\ hpc[a] = "prompting" /\ why[a] # "start" => job[a] \in Messages
                            /\ hpc[a] \notin {"accept", "steering", "prompting"} => job[a] = None
  BY DEF IInv, TypeInv, JobInv, MInv, JobAt, JobIs
<1>why. \A a \in Agents : 
          /\ hpc[a] = "prompting" => why[a] \in {"start", "deliver", "pending"}
          /\ hpc[a] \in {"select", "accept", "steering", "pending"} => why[a] = "none"
  BY DEF IInv, HarnessInv, WhyAt, Stopping
<1>held. \A a \in Agents : HeldAt(a)
  BY DEF MInv
<1>order. \A m, n \in Messages : OrderAt(m, n)
  BY DEF MInv
<1>sends. \A c \in Calls : 
            /\ cpc[c] = "send_commit" => sent[c] \in Messages /\ commit[sent[c]] = "wait"
            /\ cpc[c] = "send_wait" => sent[c] \in Messages /\ commit[sent[c]] = "yes"
            /\ cpc[c] = "send_commit" => \A m \in Messages : m > sent[c] => commit[m] = "unsent"
  BY DEF IInv, TypeInv, LockInv
<1>1. ASSUME NEW a \in Agents, HarnessStep(a) PROVE OrderAt(k, l)'
  <2>1. CASE PromptAccepted(a)
    BY <2>1, <1>types, <1>in, <1>order, <1>job, <1>jobline, <1>held, <1>each,
       <1>works, <1>why, <1>sends
    DEF OrderAt, MessageAt, JobIs, JobLine, MailAt, QueueAt, Fresh, Accepted,
       HeldAt, Before, PromptAccepted, None, NoChange, Settle, Give
  <2>2. CASE PromptFailed(a)
    BY <2>2, <1>types, <1>in, <1>order, <1>job, <1>jobline, <1>held, <1>each,
       <1>works, <1>why, <1>sends
    DEF OrderAt, MessageAt, JobIs, JobLine, MailAt, QueueAt, Fresh, Accepted,
       HeldAt, Before, PromptFailed, None, Settle, Refuse, RollBack
  <2>3. ASSUME NEW m \in Messages, DeliverStart(a, m) PROVE OrderAt(k, l)'
    <3>1. /\ hpc[a] = "accept" /\ job[a] \in Messages /\ job[a] = m /\ commit[m] = "yes" /\ why[a] = "none"
          /\ queued[a] = EmptyBox /\ Fresh(m) /\ message[m].to = a
          /\ UNCHANGED <<mailbox, queued, message, commit, given>>
      BY <2>3, <1>works, <1>why, <1>job, <1>in DEF DeliverStart, Accepting, CanDeliver, channelVars, JobIs
    <3>2. \/ /\ hpc' = [hpc EXCEPT ![a] = "prompting"] /\ why' = [why EXCEPT ![a] = "deliver"]
             /\ job' = [job EXCEPT ![a] = m] /\ UNCHANGED <<answer, record>>
          \/ /\ hpc' = [hpc EXCEPT ![a] = "select"] /\ job' = [job EXCEPT ![a] = None] /\ UNCHANGED why
             /\ answer' = [answer EXCEPT ![m] = "error"] /\ record' = [record EXCEPT ![m] = "removed"]
      BY <2>3 DEF DeliverStart, Prompting, Goto, Refuse, RollBack
    <3>3. CASE /\ hpc' = [hpc EXCEPT ![a] = "prompting"] /\ why' = [why EXCEPT ![a] = "deliver"]
               /\ job' = [job EXCEPT ![a] = m] /\ UNCHANGED <<answer, record>>
      BY <3>1, <3>3, <1>types, <1>in, <1>order, <1>job, <1>jobline, <1>held, <1>each, <1>works, <1>why, <1>sends DEF OrderAt, MessageAt, JobIs, JobLine, MailAt, QueueAt, Fresh, Accepted, HeldAt, Before
    <3>4. CASE /\ hpc' = [hpc EXCEPT ![a] = "select"] /\ job' = [job EXCEPT ![a] = None] /\ UNCHANGED why
               /\ answer' = [answer EXCEPT ![m] = "error"] /\ record' = [record EXCEPT ![m] = "removed"]
      BY <3>1, <3>4, <1>types, <1>in, <1>order, <1>job, <1>jobline, <1>held, <1>each, <1>works, <1>why, <1>sends DEF OrderAt, MessageAt, JobIs, JobLine, MailAt, QueueAt, Fresh, Accepted, HeldAt, Before
    <3> QED
      BY <3>2, <3>3, <3>4
  <2>4. ASSUME NEW m \in Messages, DeliverQueue(a, m) PROVE OrderAt(k, l)'
    <3>1. PICK box :
               /\ InBox(box) = InBox(queued[a]) \cup {job[a]} /\ Filed(message, box)
               /\ hpc' = [hpc EXCEPT ![a] = "select"] /\ job' = [job EXCEPT ![a] = None]
               /\ \/ /\ queued' = [queued EXCEPT ![a] = box]
                     /\ answer' = [answer EXCEPT ![job[a]] = "ok"] /\ record' = record
                  \/ /\ queued' = queued
                     /\ answer' = [answer EXCEPT ![job[a]] = "error"]
                     /\ record' = [record EXCEPT ![job[a]] = "removed"]
      BY <2>4, DeliveryQueued DEF DeliverQueue, Accepting
    <3>2. /\ hpc[a] \in {"accept", "steering"} /\ job[a] \in Messages /\ commit[job[a]] = "yes" /\ why[a] = "none"
          /\ Fresh(job[a]) /\ message[job[a]].to = a
          /\ UNCHANGED <<why, mailbox, message, commit, given>>
      BY <2>4, <1>works, <1>job, <1>why, <1>in DEF DeliverQueue, Accepting, channelVars, JobIs
    <3>3. \A n \in Messages : n # job[a] => answer'[n] = answer[n] /\ record'[n] = record[n]
      BY <3>1, <3>2, <1>types
    <3>4. \A d \in Agents : d # a => queued'[d] = queued[d] /\ hpc'[d] = hpc[d] /\ job'[d] = job[d] /\ job[d] # job[a]
      BY <3>1, <3>2, <1>types, <1>apart, <1>in
    <3>5. /\ hpc'[a] = "select" /\ job'[a] = None
          /\ \/ queued'[a] = box /\ answer'[job[a]] = "ok" /\ record'[job[a]] = record[job[a]]
             \/ queued'[a] = queued[a] /\ answer'[job[a]] = "error" /\ record'[job[a]] = "removed"
      BY <3>1, <3>2, <1>types
    <3>6. InBox(box) = InBox(queued[a]) \cup {job[a]} /\ Filed(message, box)
      BY <3>1
    <3> QED
      BY <3>2, <3>3, <3>4, <3>5, <3>6, <1>types, <1>in, <1>order, <1>job, <1>jobline, <1>held, <1>each, <1>works, <1>why, <1>sends DEF OrderAt, MessageAt, JobIs, JobLine, MailAt, QueueAt, Fresh, Accepted, HeldAt, Before
  <2>5. CASE SteerAdmitted(a)
    BY <2>5, <1>types, <1>in, <1>order, <1>job, <1>jobline, <1>held, <1>each,
       <1>works, <1>why, <1>sends
    DEF OrderAt, MessageAt, JobIs, JobLine, MailAt, QueueAt, Fresh, Accepted,
       HeldAt, Before, SteerAdmitted, None, NoChange, Settle, Give
  <2>6. CASE SteerRefused(a)
    <3>1. PICK box :
               /\ InBox(box) = InBox(queued[a]) \cup {job[a]} /\ Filed(message, box)
               /\ hpc' = [hpc EXCEPT ![a] = "select"] /\ job' = [job EXCEPT ![a] = None]
               /\ \/ /\ queued' = [queued EXCEPT ![a] = box]
                     /\ answer' = [answer EXCEPT ![job[a]] = "ok"] /\ record' = record
                  \/ /\ queued' = queued
                     /\ answer' = [answer EXCEPT ![job[a]] = "error"]
                     /\ record' = [record EXCEPT ![job[a]] = "removed"]
      BY <2>6, DeliveryQueued DEF SteerRefused
    <3>2. /\ hpc[a] \in {"accept", "steering"} /\ job[a] \in Messages /\ commit[job[a]] = "yes" /\ why[a] = "none"
          /\ Fresh(job[a]) /\ message[job[a]].to = a
          /\ UNCHANGED <<why, mailbox, message, commit, given>>
      BY <2>6, <1>works, <1>job, <1>why, <1>in DEF SteerRefused, channelVars, JobIs
    <3>3. \A n \in Messages : n # job[a] => answer'[n] = answer[n] /\ record'[n] = record[n]
      BY <3>1, <3>2, <1>types
    <3>4. \A d \in Agents : d # a => queued'[d] = queued[d] /\ hpc'[d] = hpc[d] /\ job'[d] = job[d] /\ job[d] # job[a]
      BY <3>1, <3>2, <1>types, <1>apart, <1>in
    <3>5. /\ hpc'[a] = "select" /\ job'[a] = None
          /\ \/ queued'[a] = box /\ answer'[job[a]] = "ok" /\ record'[job[a]] = record[job[a]]
             \/ queued'[a] = queued[a] /\ answer'[job[a]] = "error" /\ record'[job[a]] = "removed"
      BY <3>1, <3>2, <1>types
    <3>6. InBox(box) = InBox(queued[a]) \cup {job[a]} /\ Filed(message, box)
      BY <3>1
    <3> QED
      BY <3>2, <3>3, <3>4, <3>5, <3>6, <1>types, <1>in, <1>order, <1>job, <1>jobline, <1>held, <1>each, <1>works, <1>why, <1>sends DEF OrderAt, MessageAt, JobIs, JobLine, MailAt, QueueAt, Fresh, Accepted, HeldAt, Before
  <2>7. CASE SteerFailed(a)
    BY <2>7, <1>types, <1>in, <1>order, <1>job, <1>jobline, <1>held, <1>each,
       <1>works, <1>why, <1>sends
    DEF OrderAt, MessageAt, JobIs, JobLine, MailAt, QueueAt, Fresh, Accepted,
       HeldAt, Before, SteerFailed, None, Refuse, RollBack
  <2>8. CASE StartPending(a)
    BY <2>8, <1>types, <1>in, <1>order, <1>job, <1>jobline, <1>held, <1>each,
       <1>works, <1>why, <1>sends, QueueTaken
    DEF OrderAt, MessageAt, JobIs, JobLine, MailAt, QueueAt, Fresh, Accepted,
       HeldAt, Before, StartPending, EmptyBox, CanReserve, CanStartTurn,
       Settle, Startable
  <2>9. CASE RejectWaiting(a)
    <3>1. PICK m \in InBox(mailbox[a]) :
               /\ InBox(mailbox'[a]) = InBox(mailbox[a]) \ {m}
               /\ Filed(message, mailbox'[a])
               /\ \A d \in Agents : d # a => mailbox'[d] = mailbox[d]
               /\ m \in Messages
               /\ \A n \in Messages : n # m => answer'[n] = answer[n] /\ record'[n] = record[n]
               /\ \/ commit[m] = "yes" /\ answer'[m] = "error" /\ record'[m] = "removed"
                  \/ commit[m] = "dropped" /\ answer'[m] = answer[m] /\ record'[m] = record[m]
      BY <2>9, WaitingRejected
    <3>2. UNCHANGED <<message, commit, given, hpc, queued, job, why, task, undo>>
      BY <2>9 DEF RejectWaiting, sessionVars, harnessVars, stepVars
    <3>3. \A d \in Agents : /\ InBox(mailbox'[d]) \subseteq InBox(mailbox[d]) 
                            /\ m \notin InBox(mailbox'[d]) /\ m \notin InBox(queued[d]) /\ m # job[d]
      BY <3>1, <1>apart
    <3> QED
      BY <3>1, <3>2, <3>3, <1>types, <1>in, <1>order, <1>job, <1>jobline, <1>held, <1>each, <1>works, <1>why, <1>sends DEF OrderAt, MessageAt, JobIs, JobLine, MailAt, QueueAt, Fresh, Accepted, HeldAt, Before
  <2>10. CASE AllRejected(a)
    BY <2>10, <1>types, <1>in, <1>order, <1>job, <1>jobline, <1>held, <1>each,
       <1>works, <1>why, <1>sends
    DEF OrderAt, MessageAt, JobIs, JobLine, MailAt, QueueAt, Fresh, Accepted,
       HeldAt, Before, AllRejected, FailPending, EmptyBox
  <2>11. ASSUME TakeStart(a) \/ TakeDelivery(a) \/ Abandoned(a) \/ (\E m \in Messages
              : Steer(a, m)) \/ CapacityChanged(a) \/ StopPending(a) \/
              TurnFinished(a) \/ Publish(a) \/ TakeStop(a) \/ UrgentRejected(a) \/
              Shutdown(a) \/ FinishActive(a) \/ Release(a) \/ HarnessClosed(a)
       PROVE  OrderAt(k, l)'
    <3>1. UNCHANGED <<message, record, given>>
      BY <2>11
      DEF TakeStart, messageVars, TakeDelivery, Abandoned, Steer,
         CapacityChanged, StopPending, TurnFinished, Publish, TakeStop,
         UrgentRejected, Shutdown, FinishActive, Release, HarnessClosed
    <3> QED BY <3>1, <1>types, <1>in, <1>order, <1>job, <1>jobline, <1>held,
       <1>each, <1>works, <1>why, <1>sends  DEF OrderAt, MessageAt, JobIs, JobLine, MailAt, QueueAt, Fresh,
         Accepted, HeldAt, Before
  <2> QED BY <1>1, <2>1, <2>2, <2>3, <2>4, <2>5, <2>6, <2>7, <2>8, <2>9,
   <2>10, <2>11 DEF HarnessStep
<1>2. ASSUME NEW a \in Agents, LibraryStep(a) PROVE OrderAt(k, l)'
  <2>1. ASSUME (\E result \in Outcomes : TurnEnds(a, result)) \/ EventsEnd(a) \/
              EventsDone(a)
       PROVE  OrderAt(k, l)'
    <3>1. UNCHANGED <<message, record, given>>
      BY <2>1
      DEF TurnEnds, messageVars, EventsEnd, EventsDone
    <3> QED BY <3>1, <1>types, <1>in, <1>order, <1>job, <1>jobline, <1>held,
       <1>each, <1>works, <1>why, <1>sends  DEF OrderAt, MessageAt, JobIs, JobLine, MailAt, QueueAt, Fresh,
         Accepted, HeldAt, Before
  <2> QED BY <1>2, <2>1 DEF LibraryStep
<1>3. ASSUME NEW c \in Calls, CallStep(c) \/ CallDropped(c) PROVE OrderAt(k, l)'
  <2>1. CASE SendCommit(c)
    BY <2>1, <1>types, <1>in, <1>order, <1>job, <1>jobline, <1>held, <1>each,
       <1>works, <1>why, <1>sends
    DEF OrderAt, MessageAt, JobIs, JobLine, MailAt, QueueAt, Fresh, Accepted,
       HeldAt, Before, Messages, SendCommit
  <2>2. CASE SendReturns(c)
    BY <2>2, <1>types, <1>in, <1>order, <1>job, <1>jobline, <1>held, <1>each,
       <1>works, <1>why, <1>sends
    DEF OrderAt, MessageAt, JobIs, JobLine, MailAt, QueueAt, Fresh, Accepted,
       HeldAt, Before, SendReturns, RollBack, Delivered
  <2>3. ASSUME SpawnReserveId(c) \/ SpawnFails(c) \/ SpawnReturns(c) \/ (\E a \in
              Agents : SpawnInsert(c, a)) \/ (\E a \in Agents : SpawnLaunch(c, a))
              \/ StopSend(c) \/ InterruptReturns(c) \/ CloseInactive(c) \/
              FinishClose(c) \/ CloseReturns(c) \/ FinishLate(c) \/ CallDropped(c)
       PROVE  OrderAt(k, l)'
    <3>1. UNCHANGED <<message, record, given>>
      BY <2>3
      DEF SpawnReserveId, messageVars, SpawnFails, SpawnReturns, OnlyCalls,
         SpawnInsert, SpawnLaunch, StopSend, InterruptReturns, CloseInactive,
         FinishClose, CloseReturns, FinishLate, CallDropped
    <3> QED BY <3>1, <1>types, <1>in, <1>order, <1>job, <1>jobline, <1>held,
       <1>each, <1>works, <1>why, <1>sends  DEF OrderAt, MessageAt, JobIs, JobLine, MailAt, QueueAt, Fresh,
         Accepted, HeldAt, Before
  <2> QED BY <1>3, <2>1, <2>2, <2>3 DEF CallStep
<1>4. ASSUME NEW c \in Calls, NEW session \in Sessions, CallBegins(c, session) PROVE OrderAt(k, l)'
  <2>1. ASSUME NEW a \in Agents, NEW urgent \in BOOLEAN, NEW delegate \in BOOLEAN, SendPrepare(c, session, a, urgent, delegate) PROVE OrderAt(k, l)'
    <3>1. PICK m \in Messages : Posted(a, m)
      BY <2>1, SendPosts
    <3>2. /\ message'[m].to = a /\ commit'[m] = "wait" /\ answer'[m] = "none" /\ given'[m] = 0
          /\ UNCHANGED <<hpc, why, job, undo, queued, task, answer, record, given>>
      BY <3>1, <1>each DEF Posted, MessageAt
    <3>3. \A n \in Messages : commit[n] # "unsent" =>
            n # m /\ n < m /\ message'[n] = message[n] /\ commit'[n] = commit[n]
      BY <3>1 DEF Posted
    <3>4. \A d \in Agents : /\ \A n \in InBox(mailbox[d]) : commit[n] # "unsent" /\ message[n].to = d
                            /\ \A n \in InBox(queued[d]) : commit[n] # "unsent" /\ message[n].to = d
                            /\ job[d] # None => commit[job[d]] # "unsent" /\ message[job[d]].to = d
      BY <1>mail, <1>queue, <1>job DEF MailAt, QueueAt, JobIs, Fresh, Accepted
    <3>5. \A d \in Agents : /\ \A n \in InBox(mailbox'[d]) : n \in InBox(mailbox[d]) \/ (n = m /\ d = a)
                            /\ Filed(message', mailbox'[d]) /\ Filed(message', queued[d])
      BY <3>1 DEF Posted
    <3> QED
      BY <3>2, <3>3, <3>4, <3>5, <1>in, <1>types, <1>order, <1>each DEF OrderAt, MessageAt, JobIs, JobLine, MailAt, QueueAt, Fresh, Accepted, HeldAt, Before
  <2>2. ASSUME SpawnReserveTurn(c, session) \/ (\E operation \in Stops, target \in
              Sessions : StopRequest(c, session, operation, target))
       PROVE  OrderAt(k, l)'
    <3>1. UNCHANGED <<message, record, given>>
      BY <2>2
      DEF SpawnReserveTurn, messageVars, StopRequest
    <3> QED BY <3>1, <1>types, <1>in, <1>order, <1>job, <1>jobline, <1>held,
       <1>each, <1>works, <1>why, <1>sends  DEF OrderAt, MessageAt, JobIs, JobLine, MailAt, QueueAt, Fresh,
         Accepted, HeldAt, Before
  <2> QED BY <1>4, <2>1, <2>2 DEF CallBegins
<1>5. ASSUME Disturbance PROVE OrderAt(k, l)'
  <2>1. ASSUME (\E c \in Calls : StopTimesOut(c)) \/ (\E c \in Calls :
              JoinTimesOut(c)) \/ (\E a \in Agents : Submit(a)) \/ (\E a \in Agents
              : DriverDies(a)) \/ (\E n \in Limits : SetLimit(n))
       PROVE  OrderAt(k, l)'
    <3>1. UNCHANGED <<message, record, given>>
      BY <2>1
      DEF StopTimesOut, OnlyCalls, messageVars, JoinTimesOut, Submit,
         DriverDies, SetLimit
    <3> QED BY <3>1, <1>types, <1>in, <1>order, <1>job, <1>jobline, <1>held,
       <1>each, <1>works, <1>why, <1>sends  DEF OrderAt, MessageAt, JobIs, JobLine, MailAt, QueueAt, Fresh,
         Accepted, HeldAt, Before
  <2> QED BY <1>5, <2>1 DEF Disturbance
<1> QED BY <1>1, <1>2, <1>3, <1>4, <1>5 DEF Next

-----------------------------------------------------------------------------
LEMMA BoxesKept ==
  ASSUME IInv, MInv, NEW b \in Agents, Next
  PROVE  BoxesAt(b)'
BY FiledKept, MailKept, QueueKept, LineKept, ClearKept DEF BoxesAt

LEMMA MInvKept ==
  ASSUME IInv, MInv, Next
  PROVE  MInv'
<1>1. ASSUME NEW b \in Agents PROVE BoxesAt(b)'
  BY BoxesKept
<1>2. ASSUME NEW b \in Agents PROVE JobAt(b)'
  BY JobIsKept, JobLineKept DEF JobAt
<1>3. ASSUME NEW b \in Agents PROVE TaskAt(b)'
  BY TaskKept
<1>4. ASSUME NEW b \in Agents PROVE HeldAt(b)'
  BY HeldKept
<1>5. ASSUME NEW k \in Messages PROVE MessageAt(k)'
  BY MessageKept
<1>6. ASSUME NEW k \in Messages, NEW l \in Messages PROVE OrderAt(k, l)'
  BY OrderKept
<1>7. LateInv'
  <2>1. PICK z : z \in Agents
    BY SubagentAssumption DEF Agents
  <2> QED
    BY <2>1, LateKept
<1> QED
  BY <1>1, <1>2, <1>3, <1>4, <1>5, <1>6, <1>7 DEF MInv

LEMMA MInvStutters ==
  ASSUME MInv, UNCHANGED vars
  PROVE  MInv'
<1>1. UNCHANGED <<hpc, why, job, undo, task, queued, mailbox, message, commit, answer, record, given, cpc>>
  BY DEF vars, sessionVars, harnessVars, stepVars, channelVars, messageVars, callVars
<1>2. ASSUME NEW b \in Agents PROVE BoxesAt(b)'
  BY <1>1 DEF MInv, BoxesAt, FiledAt, MailAt, QueueAt, LineAt, ClearAt, Fresh, Accepted
<1>3. ASSUME NEW b \in Agents PROVE JobAt(b)'
  BY <1>1 DEF MInv, JobAt, JobIs, JobLine, Fresh, Accepted
<1>4. ASSUME NEW b \in Agents PROVE TaskAt(b)' /\ HeldAt(b)'
  BY <1>1 DEF MInv, TaskAt, IsTask, HeldAt
<1>5. ASSUME NEW k \in Messages PROVE MessageAt(k)'
  BY <1>1 DEF MInv, MessageAt
<1>6. ASSUME NEW k \in Messages, NEW l \in Messages PROVE OrderAt(k, l)'
  BY <1>1 DEF MInv, OrderAt
<1>7. LateInv'
  BY <1>1 DEF MInv, LateInv
<1> QED
  BY <1>2, <1>3, <1>4, <1>5, <1>6, <1>7 DEF MInv

LEMMA MInvStarts == Init => MInv
<1> SUFFICES ASSUME Init PROVE MInv
  OBVIOUS
<1>1. /\ \A a \in Agents : /\ hpc[a] = "absent" /\ job[a] = None /\ undo[a] = NoChange
                           /\ task[a] = None
                           /\ mailbox[a] = EmptyBox /\ queued[a] = EmptyBox
      /\ \A m \in Messages : /\ commit[m] = "unsent" /\ answer[m] = "none"
                             /\ record[m] = "none" /\ given[m] = 0
      /\ \A c \in Calls : cpc[c] = "idle"
  BY DEF Init
<1>2. ASSUME NEW b \in Agents PROVE BoxesAt(b)
  BY <1>1, EmptyFiled, EmptyBoxIs DEF BoxesAt, FiledAt, MailAt, QueueAt, LineAt, ClearAt
<1>3. ASSUME NEW b \in Agents PROVE JobAt(b) /\ TaskAt(b)
  BY <1>1 DEF JobAt, JobIs, JobLine, TaskAt
<1>4. ASSUME NEW b \in Agents PROVE HeldAt(b)
  BY <1>1 DEF HeldAt
<1>5. ASSUME NEW k \in Messages PROVE MessageAt(k)
  BY <1>1 DEF MessageAt
<1>6. ASSUME NEW k \in Messages, NEW l \in Messages PROVE OrderAt(k, l)
  BY <1>1 DEF OrderAt
<1>7. LateInv
  BY <1>1 DEF LateInv
<1> QED
  BY <1>2, <1>3, <1>4, <1>5, <1>6, <1>7 DEF MInv

(* Where every message is, from its draft to its end (messaging.rs and the *)
(* delivery paths of harness.rs): the inductive invariant of what follows. *)
THEOREM MessageInvariant == Spec => []MInv
<1>1. Init => MInv
  BY MInvStarts
<1>2. IInv /\ MInv /\ [Next]_vars => MInv'
  BY MInvKept, MInvStutters
<1> QED
  BY <1>1, <1>2, Invariant, PTL DEF Spec
-----------------------------------------------------------------------------
(* A message whose delivery is pending is in the hands of its recipient's  *)
(* harness (accept_delivery, queue_delivery, reject_waiting_deliveries).   *)
THEOREM PendingMessagesAreHeld == Spec => []PendingIsHeld
<1>1. IInv /\ MInv => PendingIsHeld
  <2> SUFFICES ASSUME IInv, MInv, NEW m \in Messages, record[m] = "pending"
               PROVE  LET a == message[m].to IN
                      \/ m \in InBox(mailbox[a]) \cup InBox(queued[a]) \cup {job[a]}
                      \/ hpc[a] = "gone" /\ (answer[m] = "dropped" \/ "timeout" \in Disturbances)
    BY DEF PendingIsHeld
  <2>1. message[m].to \in Agents
    BY DEF IInv, TypeInv, MessageTypes, Envelope
  <2>2. HeldAt(message[m].to)
    BY <2>1 DEF MInv
  <2> QED
    BY <2>2 DEF HeldAt
<1> QED
  BY <1>1, Invariant, MessageInvariant, PTL

(* A message is given at most once, only when it is committed, and never   *)
(* when its sender was told that it failed (accept_delivery, release).     *)
THEOREM MessagesAreGivenOnce == Spec => []DeliveredOnce
<1>1. IInv /\ MInv => DeliveredOnce
  <2> SUFFICES ASSUME IInv, MInv, NEW m \in Messages
               PROVE  /\ given[m] <= 1
                      /\ given[m] = 1 => commit[m] = "yes" /\ answer[m] \in {"none", "ok"}
    BY DEF DeliveredOnce
  <2>1. MessageAt(m) /\ given[m] \in Nat
    BY DEF MInv, IInv, TypeInv, MessageTypes
  <2> QED
    BY <2>1 DEF MessageAt
<1> QED
  BY <1>1, Invariant, MessageInvariant, PTL

(* Deferred messages reach a child in the order in which they were sent,   *)
(* through the channel, the harness's hands and the queue (next_event,     *)
(* queue_delivery, start_pending).                                         *)
THEOREM DeferredMessagesKeepOrder == Spec => []DeferredInOrder
<1>1. IInv /\ MInv => DeferredInOrder
  <2> SUFFICES ASSUME IInv, MInv, NEW m \in Messages, NEW n \in Messages,
                      m < n, message[m].to = message[n].to,
                      ~message[m].urgent, ~message[n].urgent, given[n] = 1,
                      record[m] = "pending"
               PROVE  FALSE
    BY DEF DeferredInOrder
  <2>1. n < m
    BY DEF MInv, OrderAt
  <2> QED
    BY <2>1 DEF Messages
<1> QED
  BY <1>1, Invariant, MessageInvariant, PTL

(* A child's task is one it was given or is being given: a delegation that *)
(* fails leaves no trace (begin_delegation, rollback_delegation).          *)
THEOREM TasksWereGiven == Spec => []TaskWasGiven
<1>1. IInv /\ MInv => TaskWasGiven
  <2> SUFFICES ASSUME IInv, MInv, NEW a \in Agents, task[a] # None
               PROVE  /\ message[task[a]].to = a /\ message[task[a]].delegate
                      /\ \/ given[task[a]] = 1 \/ job[a] = task[a]
                         \/ hpc[a] = "gone" /\ "timeout" \in Disturbances
    BY DEF TaskWasGiven
  <2>1. TaskAt(a)
    BY DEF MInv
  <2> QED
    BY <2>1 DEF TaskAt, IsTask
<1> QED
  BY <1>1, Invariant, MessageInvariant, PTL
==============================================================================
