---------------------------- MODULE PromptsProofs ----------------------------
(***************************************************************************)
(* Proofs about the prompts of one pane, for any number of prompts,        *)
(* messages, turns, interrupts and shell commands: the turns a pane counts *)
(* are those it started, and a compaction runs alone.                      *)
(***************************************************************************)
EXTENDS Prompts, FiniteSetTheorems, SequenceTheorems, TLAPS

-----------------------------------------------------------------------------
(* Sequences, by their lengths and places.                                 *)
IsSequence(s) == s \in Seq({s[i] : i \in DOMAIN s})

LEMMA SequenceIs ==
  ASSUME NEW s, IsSequence(s)
  PROVE  /\ Len(s) \in Nat /\ DOMAIN s = 1 .. Len(s)
         /\ s # << >> <=> Len(s) # 0
BY DEF IsSequence

LEMMA EmptyIsSequence == IsSequence(<< >>) /\ Len(<< >>) = 0
BY DEF IsSequence

LEMMA OneIsSequence ==
  ASSUME NEW x PROVE IsSequence(<<x>>) /\ Len(<<x>>) = 1 /\ <<x>>[1] = x
<1>1. DOMAIN <<x>> = {1} /\ <<x>>[1] = x
  OBVIOUS
<1>2. <<x>> \in Seq({x})
  OBVIOUS
<1>3. {<<x>>[i] : i \in DOMAIN <<x>>} = {x}
  BY <1>1
<1> QED
  BY <1>1, <1>2, <1>3 DEF IsSequence

LEMMA AppendIs ==
  ASSUME NEW s, IsSequence(s), NEW x
  PROVE  LET t == Append(s, x) IN
         /\ IsSequence(t) /\ Len(t) = Len(s) + 1
         /\ DOMAIN t = DOMAIN s \cup {Len(s) + 1}
         /\ \A i \in DOMAIN s : t[i] = s[i]
         /\ t[Len(s) + 1] = x
<1> DEFINE A == {s[i] : i \in DOMAIN s} \cup {x}
           t == Append(s, x)
<1>1. s \in Seq(A) /\ x \in A
  BY DEF IsSequence
<1>2. t \in Seq(A) /\ Len(t) = Len(s) + 1
  BY <1>1
<1>3. /\ Len(s) \in Nat /\ DOMAIN s = 1 .. Len(s) /\ DOMAIN t = 1 .. Len(t)
      /\ \A i \in 1 .. Len(s) : t[i] = s[i]
      /\ t[Len(s) + 1] = x
  BY <1>1, <1>2
<1>4. A = {t[i] : i \in DOMAIN t}
  <2>1. \A i \in DOMAIN t : t[i] \in A
    BY <1>2, <1>3
  <2>2. \A a \in A : \E i \in DOMAIN t : t[i] = a
    <3>1. x = t[Len(s) + 1] /\ Len(s) + 1 \in DOMAIN t
      BY <1>2, <1>3
    <3>2. \A i \in DOMAIN s : s[i] = t[i] /\ i \in DOMAIN t
      BY <1>2, <1>3
    <3> QED
      BY <3>1, <3>2
  <2> HIDE DEF A, t
  <2> QED
    BY <2>1, <2>2
<1> HIDE DEF A, t
<1> QED
  BY <1>2, <1>3, <1>4 DEF IsSequence, t

LEMMA TailIs ==
  ASSUME NEW s, IsSequence(s), s # << >>
  PROVE  /\ IsSequence(Tail(s)) /\ Len(Tail(s)) = Len(s) - 1
         /\ Len(s) \in Nat \ {0} /\ Head(s) = s[1]
         /\ \A i \in 1 .. Len(s) - 1 : Tail(s)[i] = s[i + 1]
<1> DEFINE A == {s[i] : i \in DOMAIN s}
           t == Tail(s)
<1>1. s \in Seq(A) /\ Len(s) \in Nat \ {0} /\ Head(s) = s[1]
  BY DEF IsSequence
<1>2. /\ t \in Seq(A) /\ Len(t) = Len(s) - 1
      /\ \A i \in 1 .. Len(s) - 1 : t[i] = s[i + 1]
  BY <1>1
<1> HIDE DEF t, A
<1>3. t \in Seq({t[i] : i \in DOMAIN t})
  <2>1. DOMAIN t = 1 .. Len(t) /\ Len(t) \in Nat /\ t = [i \in 1 .. Len(t) |-> t[i]]
    BY <1>2
  <2> QED
    BY <2>1
<1> QED
  BY <1>1, <1>2, <1>3 DEF IsSequence, t
-----------------------------------------------------------------------------
(* How often a mark stands in a sequence of marks, after its first k.      *)
Places(marks, k, m) == {i \in DOMAIN marks : i > k /\ marks[i] = m}
Times(marks, k, m)  == Cardinality(Places(marks, k, m))

IsMarks(marks, n) == n \in Nat /\ DOMAIN marks = 1 .. n

Same(a, b) == IF a = b THEN 1 ELSE 0

LEMMA PlacesAreFinite ==
  ASSUME NEW marks, NEW n, IsMarks(marks, n), NEW k, NEW m
  PROVE  IsFiniteSet(Places(marks, k, m)) /\ Times(marks, k, m) \in Nat
<1>1. IsFiniteSet(1 .. n)
  BY FS_Interval DEF IsMarks
<1>2. Places(marks, k, m) \subseteq 1 .. n
  BY DEF Places, IsMarks
<1> QED
  BY <1>1, <1>2, FS_Subset, FS_CardinalityType DEF Times

(* Same more mark.                                                          *)
LEMMA MarkIsAdded ==
  ASSUME NEW old, NEW n, IsMarks(old, n), NEW new, DOMAIN new = 1 .. n + 1,
         \A i \in 1 .. n : new[i] = old[i], NEW k \in 0 .. n, NEW m
  PROVE  /\ IsMarks(new, n + 1)
         /\ Times(new, k, m) = Times(old, k, m) + Same(new[n + 1], m)
<1>1. n \in Nat /\ n + 1 \notin DOMAIN old /\ n + 1 > k /\ DOMAIN new = DOMAIN old \cup {n + 1}
  BY DEF IsMarks
<1>2. IsFiniteSet(Places(old, k, m)) /\ Times(old, k, m) \in Nat
  BY PlacesAreFinite
<1>3. CASE new[n + 1] = m
  <2>1. Places(new, k, m) = Places(old, k, m) \cup {n + 1} /\ n + 1 \notin Places(old, k, m)
    BY <1>1, <1>3 DEF Places, IsMarks
  <2>2. Cardinality(Places(old, k, m) \cup {n + 1}) = Cardinality(Places(old, k, m)) + 1
    BY <1>2, <2>1, FS_AddElement
  <2> QED
    BY <1>1, <1>2, <1>3, <2>1, <2>2 DEF Times, Same, IsMarks
<1>4. CASE new[n + 1] # m
  <2>1. Places(new, k, m) = Places(old, k, m)
    BY <1>1, <1>4 DEF Places, IsMarks
  <2> QED
    BY <1>1, <1>2, <1>4, <2>1 DEF Times, Same, IsMarks
<1> QED
  BY <1>3, <1>4

(* Same mark less, the first.                                               *)
AreTheRest(new, old, n) ==
  DOMAIN new = 1 .. n - 1 /\ \A i \in 1 .. n - 1 : new[i] = old[i + 1]

LEMMA MarkIsTaken ==
  ASSUME NEW old, NEW n, IsMarks(old, n), n # 0, NEW new, AreTheRest(new, old, n)
  PROVE  /\ IsMarks(new, n - 1)
         /\ \A k \in 0 .. n - 1 : \A m : Times(new, k, m) = Times(old, k + 1, m)
         /\ \A m : Times(old, 0, m) = Times(new, 0, m) + Same(old[1], m)
<1> USE DEF AreTheRest
<1>1. n \in Nat \ {0} /\ n - 1 \in Nat
  BY DEF IsMarks
<1>2. IsMarks(new, n - 1)
  BY <1>1 DEF IsMarks
<1>3. ASSUME NEW k \in 0 .. n - 1, NEW m PROVE Times(new, k, m) = Times(old, k + 1, m)
  <2> DEFINE S == Places(new, k, m)
             T == Places(old, k + 1, m)
             f == [i \in S |-> i + 1]
  <2>1. IsFiniteSet(S)
    BY <1>2, PlacesAreFinite
  <2>2. \A i \in S : i \in 1 .. n - 1 /\ i + 1 \in T
    BY <1>1 DEF Places, IsMarks
  <2>3. \A j \in T : j - 1 \in S /\ j = (j - 1) + 1
    BY <1>1 DEF Places, IsMarks
  <2> HIDE DEF S, T
  <2>4. f \in Bijection(S, T)
    BY <2>2, <2>3 DEF Bijection, Injection, Surjection, IsInjective
  <2>5. ExistsBijection(S, T)
    BY <2>4 DEF ExistsBijection
  <2> QED
    BY <2>1, <2>5, FS_Bijection DEF Times, S, T
<1>4. ASSUME NEW m PROVE Times(old, 0, m) = Times(old, 1, m) + Same(old[1], m)
  <2>1. IsFiniteSet(Places(old, 1, m)) /\ Times(old, 1, m) \in Nat
    BY PlacesAreFinite
  <2>2. CASE old[1] = m
    <3>1. Places(old, 0, m) = Places(old, 1, m) \cup {1} /\ 1 \notin Places(old, 1, m)
      BY <1>1, <2>2 DEF Places, IsMarks
    <3> QED
      BY <2>1, <2>2, <3>1, FS_AddElement DEF Times, Same
  <2>3. CASE old[1] # m
    <3>1. Places(old, 0, m) = Places(old, 1, m)
      BY <1>1, <2>3 DEF Places, IsMarks
    <3> QED
      BY <2>1, <2>3, <3>1 DEF Times, Same
  <2> QED
    BY <2>2, <2>3
<1>5. \A m : Times(new, 0, m) = Times(old, 1, m)
  <2>1. 0 \in 0 .. n - 1 /\ 0 + 1 = 1
    BY <1>1
  <2> QED
    BY <1>3, <2>1
<1> QED
  BY <1>2, <1>3, <1>4, <1>5
-----------------------------------------------------------------------------
(* What the channels say of turns: a report of the worker is marked by the *)
(* end it tells of, a submission by its kind.                              *)
ReportMark(u)  == IF u.event = "finished" THEN u.end ELSE u.event
CommandMark(c) == IF c.command = "submit" THEN c.kind ELSE c.command

Reports(us) == [i \in DOMAIN us |-> ReportMark(us[i])]
Asks(cs)    == [i \in DOMAIN cs |-> CommandMark(cs[i])]
Events(ss)  == [i \in DOMAIN ss |-> ss[i].event]

(* The turns of the conversation, and those the agent still works on.      *)
Talks(ts) == {t \in DOMAIN ts : ts[t].kind = "conversation"}
Live(ts)  == {t \in Talks(ts) : ts[t].phase # "over"}

Ledgers == [turns : Nat, worker : Nat, agent : Nat]

(* The two sums of TurnsAreCounted, of t turns, live of which are live; w, *)
(* r and p reports of an end, a rejection and a start for a steer; e ends  *)
(* the agent tells of; q submissions sent, h held back; and the ledger.    *)
Agree(t, live, w, r, p, e, q, h, turns_, worker, agent) ==
  /\ worker = 0 \/ agent = 0
  /\ t + w + worker = live + e + agent
  /\ turns_ + p = t + w + worker + q + h + r

Balanced(ts, l, us, ss, cs, hs) ==
  Agree(Cardinality(Talks(ts)), Cardinality(Live(ts)), Times(Reports(us), 0, "worker"),
        Times(Reports(us), 0, "rejected"), Times(Reports(us), 0, "steer_promoted"),
        Times(Events(ss), 0, "terminal"), Times(Asks(cs), 0, "conversation"), Len(hs),
        l.turns, l.worker, l.agent)

(* A turn that a steer started is told of before its end is: so a pane     *)
(* that counts no turn holds no submission back and ends none.             *)
ToldInOrder(ts, us) ==
  \A k \in 0 .. Len(us) :
    Times(Reports(us), k, "steer_promoted")
      <= Cardinality(Talks(ts)) + Times(Reports(us), k, "worker")

IsRequest(c) == c.command \in {"submit", "steer"}

IsReport(u)  == IF u.event = "finished" THEN u.end \in {"worker", "rejected"}
                                        ELSE u.event \notin {"worker", "rejected"}
IsCommand(c) == IF c.command = "submit" THEN c.kind \in {"conversation", "auxiliary"}
                                        ELSE c.command # "conversation"

Channels(us, ss, cs, hs) ==
  /\ IsSequence(us) /\ IsSequence(ss) /\ IsSequence(cs) /\ IsSequence(hs)
  /\ \A i \in DOMAIN us : IsReport(us[i])
  /\ \A i \in DOMAIN cs : IsCommand(cs[i])
  /\ hs # << >> => /\ Len(hs) = 1
                   /\ hs[1].command = "submit" /\ hs[1].kind = "conversation"

(* No two turns and requests share an id.                                  *)
IdsDiffer(ts, cs, hs, n) ==
  /\ n \in Nat /\ IsFiniteSet(DOMAIN ts)
  /\ \A t \in DOMAIN ts : t \in Nat /\ t < n
  /\ \A i \in DOMAIN cs : IsRequest(cs[i]) =>
       cs[i].id \in Nat /\ cs[i].id < n /\ cs[i].id \notin DOMAIN ts
  /\ \A i, j \in DOMAIN cs :
       IsRequest(cs[i]) /\ IsRequest(cs[j]) /\ cs[i].id = cs[j].id => i = j
  /\ \A i \in DOMAIN hs :
       /\ hs[i].id \in Nat /\ hs[i].id < n /\ hs[i].id \notin DOMAIN ts
       /\ \A j \in DOMAIN cs : IsRequest(cs[j]) => cs[j].id # hs[i].id

IsTurn(turn) ==
  /\ turn = [kind |-> turn.kind, phase |-> turn.phase, steers |-> turn.steers,
             applied |-> turn.applied]
  /\ turn.kind \in {"conversation", "auxiliary"}
  /\ turn.phase \in {"running", "stopping", "over"}

AreTurns(ts) ==
  ts = [t \in DOMAIN ts |-> ts[t]] /\ \A t \in DOMAIN ts : IsTurn(ts[t])

Counts(ts, l, us, ss, cs, hs, n) ==
  /\ l \in Ledgers /\ AreTurns(ts)
  /\ Channels(us, ss, cs, hs)
  /\ IdsDiffer(ts, cs, hs, n)
  /\ Balanced(ts, l, us, ss, cs, hs)
  /\ ToldInOrder(ts, us)

CountInv == Counts(turns, ledger, updates, stream, commands, held, next_turn)

AloneInv ==
  /\ compacting \in {"none", "running", "done"}
  /\ compacting = "running" => turns = << >>
-----------------------------------------------------------------------------
(* A report, an event and a request are sent, or taken.                    *)
LEMMA ReportsAre ==
  ASSUME NEW us, IsSequence(us)
  PROVE  /\ Len(us) \in Nat /\ IsMarks(Reports(us), Len(us))
         /\ IsMarks(Asks(us), Len(us)) /\ IsMarks(Events(us), Len(us))
         /\ \A k, m : Times(Reports(us), k, m) \in Nat
         /\ \A k, m : Times(Asks(us), k, m) \in Nat
         /\ \A k, m : Times(Events(us), k, m) \in Nat
<1>1. Len(us) \in Nat /\ DOMAIN us = 1 .. Len(us)
  BY SequenceIs
<1>2. IsMarks(Reports(us), Len(us)) /\ IsMarks(Asks(us), Len(us)) /\ IsMarks(Events(us), Len(us))
  BY <1>1 DEF IsMarks, Reports, Asks, Events
<1> QED
  BY <1>1, <1>2, PlacesAreFinite

ReportsGrow(us, vs, u) ==
  /\ IsSequence(vs) /\ Len(vs) = Len(us) + 1
  /\ \A k \in 0 .. Len(us) : \A m :
       Times(Reports(vs), k, m) = Times(Reports(us), k, m) + Same(ReportMark(u), m)
  /\ \A m : Times(Reports(vs), Len(us) + 1, m) = 0

LEMMA ReportAdded ==
  ASSUME NEW us, IsSequence(us), NEW u
  PROVE  ReportsGrow(us, Append(us, u), u)
<1> DEFINE vs == Append(us, u)
<1>1. /\ IsSequence(vs) /\ Len(vs) = Len(us) + 1 /\ DOMAIN vs = DOMAIN us \cup {Len(us) + 1}
      /\ \A i \in DOMAIN us : vs[i] = us[i]
      /\ vs[Len(us) + 1] = u
  BY AppendIs
<1> HIDE DEF vs
<1>2. /\ Len(us) \in Nat /\ DOMAIN us = 1 .. Len(us) /\ DOMAIN vs = 1 .. Len(us) + 1
      /\ IsMarks(Reports(us), Len(us)) /\ IsMarks(Reports(vs), Len(us) + 1)
  BY <1>1, SequenceIs, ReportsAre
<1>3. /\ DOMAIN Reports(vs) = 1 .. Len(us) + 1
      /\ \A i \in 1 .. Len(us) : Reports(vs)[i] = Reports(us)[i]
      /\ Reports(vs)[Len(us) + 1] = ReportMark(u)
  BY <1>1, <1>2 DEF Reports
<1>4. \A k \in 0 .. Len(us) : \A m :
        Times(Reports(vs), k, m) = Times(Reports(us), k, m) + Same(ReportMark(u), m)
  BY <1>2, <1>3, MarkIsAdded
<1>5. ASSUME NEW m PROVE Times(Reports(vs), Len(us) + 1, m) = 0
  <2>1. Places(Reports(vs), Len(us) + 1, m) = {}
    BY <1>2, <1>3 DEF Places
  <2> QED
    BY <2>1, FS_EmptySet DEF Times
<1> QED
  BY <1>1, <1>4, <1>5 DEF ReportsGrow, vs

ReportsShrink(us, vs) ==
  /\ IsSequence(vs) /\ Len(vs) = Len(us) - 1 /\ Len(us) \in Nat \ {0}
  /\ \A k \in 0 .. Len(us) - 1 : \A m :
       Times(Reports(vs), k, m) = Times(Reports(us), k + 1, m)
  /\ \A m : Times(Reports(us), 0, m)
              = Times(Reports(vs), 0, m) + Same(ReportMark(Head(us)), m)

LEMMA ReportTaken ==
  ASSUME NEW us, IsSequence(us), us # << >>
  PROVE  ReportsShrink(us, Tail(us))
<1> DEFINE vs == Tail(us)
<1>1. /\ IsSequence(vs) /\ Len(vs) = Len(us) - 1
      /\ Len(us) \in Nat \ {0} /\ Head(us) = us[1]
      /\ \A i \in 1 .. Len(us) - 1 : vs[i] = us[i + 1]
  BY TailIs
<1> HIDE DEF vs
<1>2. /\ DOMAIN us = 1 .. Len(us) /\ DOMAIN vs = 1 .. Len(us) - 1
      /\ IsMarks(Reports(us), Len(us))
  BY <1>1, SequenceIs, ReportsAre
<1>3. /\ DOMAIN Reports(vs) = 1 .. Len(us) - 1
      /\ \A i \in 1 .. Len(us) - 1 : Reports(vs)[i] = Reports(us)[i + 1]
      /\ Reports(us)[1] = ReportMark(Head(us))
  BY <1>1, <1>2 DEF Reports
<1>4. Len(us) # 0 /\ AreTheRest(Reports(vs), Reports(us), Len(us))
  BY <1>1, <1>3 DEF AreTheRest
<1>5. \A k \in 0 .. Len(us) - 1 : \A m : Times(Reports(vs), k, m) = Times(Reports(us), k + 1, m)
  BY <1>2, <1>4, MarkIsTaken
<1>6. \A m : Times(Reports(us), 0, m) = Times(Reports(vs), 0, m) + Same(Reports(us)[1], m)
  BY <1>2, <1>4, MarkIsTaken
<1> QED
  BY <1>1, <1>3, <1>5, <1>6 DEF ReportsShrink, vs

EventsGrow(us, vs, u) ==
  /\ IsSequence(vs)
  /\ \A m : Times(Events(vs), 0, m) = Times(Events(us), 0, m) + Same(u.event, m)

LEMMA EventAdded ==
  ASSUME NEW us, IsSequence(us), NEW u
  PROVE  EventsGrow(us, Append(us, u), u)
<1> DEFINE vs == Append(us, u)
<1>1. /\ IsSequence(vs) /\ Len(vs) = Len(us) + 1 /\ DOMAIN vs = DOMAIN us \cup {Len(us) + 1}
      /\ \A i \in DOMAIN us : vs[i] = us[i]
      /\ vs[Len(us) + 1] = u
  BY AppendIs
<1> HIDE DEF vs
<1>2. /\ Len(us) \in Nat /\ DOMAIN us = 1 .. Len(us) /\ DOMAIN vs = 1 .. Len(us) + 1
      /\ IsMarks(Events(us), Len(us)) /\ 0 \in 0 .. Len(us)
  BY <1>1, SequenceIs, ReportsAre
<1>3. /\ DOMAIN Events(vs) = 1 .. Len(us) + 1
      /\ \A i \in 1 .. Len(us) : Events(vs)[i] = Events(us)[i]
      /\ Events(vs)[Len(us) + 1] = u.event
  BY <1>1, <1>2 DEF Events
<1> QED
  BY <1>1, <1>2, <1>3, MarkIsAdded DEF EventsGrow, vs

EventsShrink(us, vs) ==
  /\ IsSequence(vs)
  /\ \A m : Times(Events(us), 0, m) = Times(Events(vs), 0, m) + Same(Head(us).event, m)

LEMMA EventTaken ==
  ASSUME NEW us, IsSequence(us), us # << >>
  PROVE  EventsShrink(us, Tail(us))
<1> DEFINE vs == Tail(us)
<1>1. /\ IsSequence(vs) /\ Len(vs) = Len(us) - 1
      /\ Len(us) \in Nat \ {0} /\ Head(us) = us[1]
      /\ \A i \in 1 .. Len(us) - 1 : vs[i] = us[i + 1]
  BY TailIs
<1> HIDE DEF vs
<1>2. /\ DOMAIN us = 1 .. Len(us) /\ DOMAIN vs = 1 .. Len(us) - 1
      /\ IsMarks(Events(us), Len(us)) /\ 0 \in 0 .. Len(us) - 1 /\ 0 + 1 = 1
  BY <1>1, SequenceIs, ReportsAre
<1>3. /\ DOMAIN Events(vs) = 1 .. Len(us) - 1
      /\ \A i \in 1 .. Len(us) - 1 : Events(vs)[i] = Events(us)[i + 1]
      /\ Events(us)[1] = Head(us).event
  BY <1>1, <1>2 DEF Events
<1>4. Len(us) # 0 /\ AreTheRest(Events(vs), Events(us), Len(us))
  BY <1>1, <1>3 DEF AreTheRest
<1> QED
  BY <1>1, <1>2, <1>3, <1>4, MarkIsTaken DEF EventsShrink, vs

AsksGrow(us, vs, u) ==
  /\ IsSequence(vs) /\ DOMAIN vs = DOMAIN us \cup {Len(us) + 1}
  /\ Len(us) + 1 \notin DOMAIN us /\ vs[Len(us) + 1] = u
  /\ \A i \in DOMAIN us : vs[i] = us[i]
  /\ \A m : Times(Asks(vs), 0, m) = Times(Asks(us), 0, m) + Same(CommandMark(u), m)

LEMMA AskAdded ==
  ASSUME NEW us, IsSequence(us), NEW u
  PROVE  AsksGrow(us, Append(us, u), u)
<1> DEFINE vs == Append(us, u)
<1>1. /\ IsSequence(vs) /\ Len(vs) = Len(us) + 1 /\ DOMAIN vs = DOMAIN us \cup {Len(us) + 1}
      /\ \A i \in DOMAIN us : vs[i] = us[i]
      /\ vs[Len(us) + 1] = u
  BY AppendIs
<1> HIDE DEF vs
<1>2. /\ Len(us) \in Nat /\ DOMAIN us = 1 .. Len(us) /\ DOMAIN vs = 1 .. Len(us) + 1
      /\ IsMarks(Asks(us), Len(us)) /\ 0 \in 0 .. Len(us)
  BY <1>1, SequenceIs, ReportsAre
<1>3. /\ DOMAIN Asks(vs) = 1 .. Len(us) + 1
      /\ \A i \in 1 .. Len(us) : Asks(vs)[i] = Asks(us)[i]
      /\ Asks(vs)[Len(us) + 1] = CommandMark(u)
  BY <1>1, <1>2 DEF Asks
<1>4. \A m : Times(Asks(vs), 0, m) = Times(Asks(us), 0, m) + Same(CommandMark(u), m)
  BY <1>2, <1>3, MarkIsAdded
<1>5. Len(us) + 1 \notin DOMAIN us
  BY <1>2
<1> QED
  BY <1>1, <1>4, <1>5 DEF AsksGrow, vs

AsksShrink(us, vs) ==
  /\ IsSequence(vs) /\ Head(us) = us[1] /\ 1 \in DOMAIN us
  /\ \A i \in DOMAIN vs : i \in Nat /\ i + 1 \in DOMAIN us /\ i + 1 # 1 /\ vs[i] = us[i + 1]
  /\ \A m : Times(Asks(us), 0, m)
              = Times(Asks(vs), 0, m) + Same(CommandMark(Head(us)), m)

LEMMA AskTaken ==
  ASSUME NEW us, IsSequence(us), us # << >>
  PROVE  AsksShrink(us, Tail(us))
<1> DEFINE vs == Tail(us)
<1>1. /\ IsSequence(vs) /\ Len(vs) = Len(us) - 1
      /\ Len(us) \in Nat \ {0} /\ Head(us) = us[1]
      /\ \A i \in 1 .. Len(us) - 1 : vs[i] = us[i + 1]
  BY TailIs
<1> HIDE DEF vs
<1>2. /\ DOMAIN us = 1 .. Len(us) /\ DOMAIN vs = 1 .. Len(us) - 1
      /\ IsMarks(Asks(us), Len(us)) /\ 0 \in 0 .. Len(us) - 1 /\ 0 + 1 = 1
  BY <1>1, SequenceIs, ReportsAre
<1>3. /\ DOMAIN Asks(vs) = 1 .. Len(us) - 1
      /\ \A i \in 1 .. Len(us) - 1 : Asks(vs)[i] = Asks(us)[i + 1]
      /\ Asks(us)[1] = CommandMark(Head(us))
  BY <1>1, <1>2 DEF Asks
<1>4. Len(us) # 0 /\ AreTheRest(Asks(vs), Asks(us), Len(us))
  BY <1>1, <1>3 DEF AreTheRest
<1>5. \A i \in DOMAIN vs : i \in Nat /\ i + 1 \in DOMAIN us /\ i + 1 # 1 /\ vs[i] = us[i + 1]
  BY <1>1, <1>2
<1>6. 1 \in DOMAIN us
  BY <1>1, <1>2
<1> QED
  BY <1>1, <1>2, <1>3, <1>4, <1>5, <1>6, MarkIsTaken DEF AsksShrink, vs

-----------------------------------------------------------------------------
(* The turns of the conversation are counted.                              *)
LEMMA TurnsAreFinite ==
  ASSUME NEW ts, IsFiniteSet(DOMAIN ts)
  PROVE  /\ IsFiniteSet(Talks(ts)) /\ Cardinality(Talks(ts)) \in Nat
         /\ IsFiniteSet(Live(ts)) /\ Cardinality(Live(ts)) \in Nat
<1>1. Talks(ts) \subseteq DOMAIN ts /\ Live(ts) \subseteq DOMAIN ts
  BY DEF Talks, Live
<1> QED
  BY <1>1, FS_Subset, FS_CardinalityType

Joined(ts, id, kind) ==
  [t \in DOMAIN ts \cup {id} |-> IF t = id THEN Started(kind) ELSE ts[t]]

TalkAdded(ts, new, kind) ==
  /\ Cardinality(Talks(new)) = Cardinality(Talks(ts)) + Same(kind, "conversation")
  /\ Cardinality(Live(new)) = Cardinality(Live(ts)) + Same(kind, "conversation")

LEMMA TurnAdded ==
  ASSUME NEW ts, AreTurns(ts), IsFiniteSet(DOMAIN ts), NEW id, id \notin DOMAIN ts,
         NEW kind \in {"conversation", "auxiliary"}, NEW new, new = Joined(ts, id, kind)
  PROVE  /\ AreTurns(new) /\ DOMAIN new = DOMAIN ts \cup {id}
         /\ TalkAdded(ts, new, kind)
<1>1. /\ DOMAIN new = DOMAIN ts \cup {id} /\ new[id] = Started(kind)
      /\ \A t \in DOMAIN ts : new[t] = ts[t]
      /\ new = [t \in DOMAIN new |-> new[t]]
  BY DEF Joined
<1>2. IsTurn(Started(kind)) /\ Started(kind).kind = kind /\ Started(kind).phase = "running"
  BY DEF IsTurn, Started
<1>3. AreTurns(new)
  BY <1>1, <1>2 DEF AreTurns
<1>4. /\ IsFiniteSet(Talks(ts)) /\ Cardinality(Talks(ts)) \in Nat
      /\ IsFiniteSet(Live(ts)) /\ Cardinality(Live(ts)) \in Nat
      /\ id \notin Talks(ts) /\ id \notin Live(ts)
  BY TurnsAreFinite DEF Talks, Live
<1>5. CASE kind = "conversation"
  <2>1. Talks(new) = Talks(ts) \cup {id} /\ Live(new) = Live(ts) \cup {id}
    BY <1>1, <1>2, <1>5 DEF Talks, Live
  <2>2. /\ Cardinality(Talks(ts) \cup {id}) = Cardinality(Talks(ts)) + 1
        /\ Cardinality(Live(ts) \cup {id}) = Cardinality(Live(ts)) + 1
    BY <1>4, FS_AddElement
  <2> QED
    BY <1>1, <1>3, <1>5, <2>1, <2>2 DEF Same, TalkAdded
<1>6. CASE kind # "conversation"
  <2>1. Talks(new) = Talks(ts) /\ Live(new) = Live(ts)
    BY <1>1, <1>2, <1>6 DEF Talks, Live
  <2> QED
    BY <1>1, <1>3, <1>4, <1>6, <2>1 DEF Same, TalkAdded
<1> QED
  BY <1>5, <1>6

LEMMA TurnRemoved ==
  ASSUME NEW ts, AreTurns(ts), IsFiniteSet(DOMAIN ts), NEW t \in DOMAIN ts,
         ts[t].phase = "over", NEW new, new = [s \in DOMAIN ts \ {t} |-> ts[s]]
  PROVE  /\ AreTurns(new) /\ DOMAIN new = DOMAIN ts \ {t} /\ IsFiniteSet(DOMAIN new)
         /\ Cardinality(Talks(ts)) = Cardinality(Talks(new)) + Same(ts[t].kind, "conversation")
         /\ Cardinality(Live(ts)) = Cardinality(Live(new))
<1>1. /\ DOMAIN new = DOMAIN ts \ {t} /\ \A s \in DOMAIN new : new[s] = ts[s]
      /\ new = [s \in DOMAIN new |-> new[s]]
  OBVIOUS
<1>2. AreTurns(new) /\ IsFiniteSet(DOMAIN new)
  BY <1>1, FS_Subset DEF AreTurns
<1>3. Live(new) = Live(ts) /\ t \notin Talks(new)
  BY <1>1 DEF Talks, Live
<1>4. IsFiniteSet(Talks(new)) /\ Cardinality(Talks(new)) \in Nat
  BY <1>2, TurnsAreFinite
<1>5. CASE ts[t].kind = "conversation"
  <2>1. Talks(ts) = Talks(new) \cup {t}
    BY <1>1, <1>5 DEF Talks
  <2>2. Cardinality(Talks(new) \cup {t}) = Cardinality(Talks(new)) + 1
    BY <1>3, <1>4, FS_AddElement
  <2> QED
    BY <1>1, <1>2, <1>3, <1>5, <2>1, <2>2 DEF Same
<1>6. CASE ts[t].kind # "conversation"
  <2>1. Talks(ts) = Talks(new)
    BY <1>1, <1>6 DEF Talks
  <2> QED
    BY <1>1, <1>2, <1>3, <1>4, <1>6, <2>1 DEF Same
<1> QED
  BY <1>5, <1>6

WithOver(ts, t) == [ts EXCEPT ![t].phase = "over"]

LEMMA TurnOver ==
  ASSUME NEW ts, AreTurns(ts), IsFiniteSet(DOMAIN ts), NEW t \in DOMAIN ts,
         ts[t].phase # "over", NEW new, new = WithOver(ts, t)
  PROVE  /\ AreTurns(new) /\ DOMAIN new = DOMAIN ts
         /\ Cardinality(Talks(ts)) = Cardinality(Talks(new))
         /\ Cardinality(Live(ts)) = Cardinality(Live(new)) + Same(ts[t].kind, "conversation")
<1>1. /\ DOMAIN new = DOMAIN ts /\ new = [s \in DOMAIN new |-> new[s]]
      /\ \A s \in DOMAIN ts : s # t => new[s] = ts[s]
      /\ new[t] = [ts[t] EXCEPT !.phase = "over"]
  BY DEF AreTurns, WithOver
<1>2. IsTurn(ts[t])
  BY DEF AreTurns
<1>3. IsTurn(new[t]) /\ new[t].kind = ts[t].kind /\ new[t].phase = "over"
  BY <1>1, <1>2 DEF IsTurn
<1>4. AreTurns(new)
  BY <1>1, <1>3 DEF AreTurns
<1>5. /\ Talks(new) = Talks(ts) /\ t \notin Live(new)
      /\ \A s : s \in Live(ts) <=> s \in Live(new) \/ (s = t /\ ts[t].kind = "conversation")
  <2>1. /\ DOMAIN new = DOMAIN ts
        /\ \A s \in DOMAIN ts :
             new[s].kind = ts[s].kind /\ (s # t => new[s].phase = ts[s].phase)
        /\ new[t].phase = "over"
    BY <1>1, <1>3
  <2>2. Talks(new) = Talks(ts) /\ t \notin Live(new)
    BY <2>1 DEF Talks, Live
  <2>3. ASSUME NEW s
        PROVE  s \in Live(ts) <=> s \in Live(new) \/ (s = t /\ ts[t].kind = "conversation")
    BY <2>1 DEF Talks, Live
  <2> QED
    BY <2>2, <2>3
<1>6. IsFiniteSet(Live(new)) /\ Cardinality(Live(new)) \in Nat
  BY <1>1, TurnsAreFinite
<1>7. CASE ts[t].kind = "conversation"
  <2>1. Live(ts) = Live(new) \cup {t}
    BY <1>5, <1>7
  <2>2. Cardinality(Live(new) \cup {t}) = Cardinality(Live(new)) + 1
    BY <1>5, <1>6, FS_AddElement
  <2> QED
    BY <1>1, <1>4, <1>5, <1>7, <2>1, <2>2 DEF Same
<1>8. CASE ts[t].kind # "conversation"
  <2>1. Live(ts) = Live(new)
    BY <1>5, <1>8
  <2> QED
    BY <1>1, <1>4, <1>5, <1>6, <1>8, <2>1 DEF Same
<1> QED
  BY <1>7, <1>8

(* Turns that go on: a steer more or less, or cancelled.                   *)
GoesOn(new, old) ==
  new.kind = old.kind /\ (new.phase = "over" <=> old.phase = "over")

LEMMA TurnsGoOn ==
  ASSUME NEW ts, NEW new, DOMAIN new = DOMAIN ts,
         \A t \in DOMAIN ts : GoesOn(new[t], ts[t])
  PROVE  Talks(new) = Talks(ts) /\ Live(new) = Live(ts)
BY DEF Talks, Live, GoesOn
-----------------------------------------------------------------------------
(* The order of the reports.                                               *)
LEMMA ToldAdded ==
  ASSUME NEW ts, NEW us, IsSequence(us), ToldInOrder(ts, us), NEW new, NEW u,
         NEW vs, vs = Append(us, u),
         Cardinality(Talks(ts)) \in Nat, Cardinality(Talks(new)) \in Nat,
         Cardinality(Talks(ts)) + Same(ReportMark(u), "steer_promoted")
           <= Cardinality(Talks(new)) + Same(ReportMark(u), "worker")
  PROVE  ToldInOrder(new, vs)
<1>1. /\ IsSequence(vs) /\ Len(vs) = Len(us) + 1
      /\ \A k \in 0 .. Len(us) : \A m :
           Times(Reports(vs), k, m) = Times(Reports(us), k, m) + Same(ReportMark(u), m)
      /\ \A m : Times(Reports(vs), Len(us) + 1, m) = 0
  BY ReportAdded DEF ReportsGrow
<1>2. Len(us) \in Nat /\ \A k, m : Times(Reports(us), k, m) \in Nat
  BY ReportsAre
<1>3. ASSUME NEW k \in 0 .. Len(vs)
      PROVE  Times(Reports(vs), k, "steer_promoted")
               <= Cardinality(Talks(new)) + Times(Reports(vs), k, "worker")
  <2>1. CASE k \in 0 .. Len(us)
    <3>1. Times(Reports(us), k, "steer_promoted")
            <= Cardinality(Talks(ts)) + Times(Reports(us), k, "worker")
      BY <2>1 DEF ToldInOrder
    <3>2. /\ Times(Reports(vs), k, "steer_promoted")
               = Times(Reports(us), k, "steer_promoted") + Same(ReportMark(u), "steer_promoted")
          /\ Times(Reports(vs), k, "worker")
               = Times(Reports(us), k, "worker") + Same(ReportMark(u), "worker")
      BY <1>1, <2>1
    <3> QED
      BY <1>2, <3>1, <3>2 DEF Same
  <2>2. CASE k = Len(us) + 1
    BY <1>1, <2>2
  <2> QED
    BY <1>1, <1>2, <2>1, <2>2
<1> QED
  BY <1>3 DEF ToldInOrder

LEMMA ToldTaken ==
  ASSUME NEW ts, NEW us, IsSequence(us), us # << >>, ToldInOrder(ts, us),
         NEW vs, vs = Tail(us)
  PROVE  ToldInOrder(ts, vs)
<1>1. /\ IsSequence(vs) /\ Len(vs) = Len(us) - 1 /\ Len(us) \in Nat \ {0}
      /\ \A k \in 0 .. Len(us) - 1 : \A m :
           Times(Reports(vs), k, m) = Times(Reports(us), k + 1, m)
  BY ReportTaken DEF ReportsShrink
<1>2. \A k \in 0 .. Len(vs) : k \in 0 .. Len(us) - 1 /\ k + 1 \in 0 .. Len(us)
  BY <1>1
<1> QED
  BY <1>1, <1>2 DEF ToldInOrder

LEMMA ToldStill ==
  ASSUME NEW ts, NEW us, IsSequence(us), ToldInOrder(ts, us), NEW new,
         Cardinality(Talks(ts)) \in Nat, Cardinality(Talks(new)) \in Nat,
         Cardinality(Talks(ts)) <= Cardinality(Talks(new))
  PROVE  ToldInOrder(new, us)
<1>1. \A k, m : Times(Reports(us), k, m) \in Nat
  BY ReportsAre
<1>2. ASSUME NEW k \in 0 .. Len(us)
      PROVE  Times(Reports(us), k, "steer_promoted")
               <= Cardinality(Talks(new)) + Times(Reports(us), k, "worker")
  <2>1. Times(Reports(us), k, "steer_promoted")
          <= Cardinality(Talks(ts)) + Times(Reports(us), k, "worker")
    BY DEF ToldInOrder
  <2> QED
    BY <1>1, <2>1
<1> QED
  BY <1>2 DEF ToldInOrder
-----------------------------------------------------------------------------
(* The channels and the ids.                                               *)
LEMMA ChannelsGrow ==
  ASSUME NEW us, NEW ss, NEW cs, NEW hs, Channels(us, ss, cs, hs), NEW x
  PROVE  /\ IsReport(x) => Channels(Append(us, x), ss, cs, hs)
         /\ Channels(us, Append(ss, x), cs, hs)
         /\ IsCommand(x) => Channels(us, ss, Append(cs, x), hs)
<1>1. /\ IsSequence(Append(us, x)) /\ IsSequence(Append(ss, x)) /\ IsSequence(Append(cs, x))
      /\ DOMAIN Append(us, x) = DOMAIN us \cup {Len(us) + 1}
      /\ \A i \in DOMAIN us : Append(us, x)[i] = us[i]
      /\ Append(us, x)[Len(us) + 1] = x
      /\ DOMAIN Append(cs, x) = DOMAIN cs \cup {Len(cs) + 1}
      /\ \A i \in DOMAIN cs : Append(cs, x)[i] = cs[i]
      /\ Append(cs, x)[Len(cs) + 1] = x
  BY AppendIs DEF Channels
<1> QED
  BY <1>1 DEF Channels

LEMMA ChannelsShrink ==
  ASSUME NEW us, NEW ss, NEW cs, NEW hs, Channels(us, ss, cs, hs)
  PROVE  /\ us # << >> => IsReport(Head(us)) /\ Channels(Tail(us), ss, cs, hs)
         /\ ss # << >> => Channels(us, Tail(ss), cs, hs)
         /\ cs # << >> => IsCommand(Head(cs)) /\ Channels(us, ss, Tail(cs), hs)
<1>1. ASSUME NEW s, IsSequence(s), s # << >>
      PROVE  /\ IsSequence(Tail(s)) /\ 1 \in DOMAIN s /\ Head(s) = s[1]
             /\ \A i \in DOMAIN Tail(s) : i + 1 \in DOMAIN s /\ Tail(s)[i] = s[i + 1]
  <2>1. /\ IsSequence(Tail(s)) /\ Len(Tail(s)) = Len(s) - 1
        /\ Len(s) \in Nat \ {0} /\ Head(s) = s[1]
        /\ \A i \in 1 .. Len(s) - 1 : Tail(s)[i] = s[i + 1]
    BY <1>1, TailIs
  <2>2. DOMAIN s = 1 .. Len(s) /\ DOMAIN Tail(s) = 1 .. Len(s) - 1
    BY <1>1, <2>1, SequenceIs
  <2> QED
    BY <2>1, <2>2
<1>2. CASE us # << >>
  BY <1>1, <1>2 DEF Channels
<1>3. CASE ss # << >>
  BY <1>1, <1>3 DEF Channels
<1>4. CASE cs # << >>
  BY <1>1, <1>4 DEF Channels
<1> QED
  BY <1>2, <1>3, <1>4

(* An id that no turn and no request has.                                  *)
Fresh(id, ts, cs, hs, n) ==
  /\ id \in Nat /\ id < n /\ id \notin DOMAIN ts
  /\ \A j \in DOMAIN cs : IsRequest(cs[j]) => cs[j].id # id
  /\ \A i \in DOMAIN hs : hs[i].id # id

LEMMA RequestTaken ==
  ASSUME NEW ts, NEW cs, NEW hs, NEW n, IdsDiffer(ts, cs, hs, n), IsSequence(cs), cs # << >>
  PROVE  /\ IdsDiffer(ts, Tail(cs), hs, n)
         /\ IsRequest(Head(cs)) => Fresh(Head(cs).id, ts, Tail(cs), hs, n)
<1> DEFINE ds == Tail(cs)
<1>1. /\ Head(cs) = cs[1] /\ 1 \in DOMAIN cs
      /\ \A i \in DOMAIN ds : i \in Nat /\ i + 1 \in DOMAIN cs /\ i + 1 # 1 /\ ds[i] = cs[i + 1]
  BY AskTaken DEF AsksShrink
<1> HIDE DEF ds
<1>2. \A i, j \in DOMAIN ds : i + 1 = j + 1 => i = j
  BY <1>1
<1>3. IdsDiffer(ts, ds, hs, n)
  BY <1>1, <1>2 DEF IdsDiffer
<1>4. ASSUME IsRequest(Head(cs)) PROVE Fresh(Head(cs).id, ts, ds, hs, n)
  BY <1>1, <1>4 DEF IdsDiffer, Fresh
<1> QED
  BY <1>3, <1>4 DEF ds

LEMMA TurnGetsId ==
  ASSUME NEW ts, NEW cs, NEW hs, NEW n, IdsDiffer(ts, cs, hs, n),
         NEW id, Fresh(id, ts, cs, hs, n), NEW new, DOMAIN new = DOMAIN ts \cup {id}
  PROVE  IdsDiffer(new, cs, hs, n)
<1>1. IsFiniteSet(DOMAIN new)
  BY FS_AddElement DEF IdsDiffer
<1> QED
  BY <1>1 DEF IdsDiffer, Fresh

LEMMA FewerTurns ==
  ASSUME NEW ts, NEW cs, NEW hs, NEW n, IdsDiffer(ts, cs, hs, n),
         NEW new, DOMAIN new \subseteq DOMAIN ts
  PROVE  IdsDiffer(new, cs, hs, n)
<1>1. IsFiniteSet(DOMAIN new)
  BY FS_Subset DEF IdsDiffer
<1> QED
  BY <1>1 DEF IdsDiffer

LEMMA RequestAdded ==
  ASSUME NEW ts, NEW cs, NEW hs, NEW n, IdsDiffer(ts, cs, hs, n), IsSequence(cs),
         NEW c, NEW m \in {n, n + 1}, IsRequest(c) => c.id = n /\ m = n + 1
  PROVE  IdsDiffer(ts, Append(cs, c), hs, m)
<1> DEFINE ds == Append(cs, c)
           e  == Len(cs) + 1
<1>1. /\ DOMAIN ds = DOMAIN cs \cup {e} /\ e \notin DOMAIN cs /\ ds[e] = c
      /\ \A i \in DOMAIN cs : ds[i] = cs[i]
  BY AskAdded DEF AsksGrow
<1> HIDE DEF ds, e
<1>2. n \in Nat /\ m \in Nat /\ \A i \in Nat : i < n => i < m /\ i # n
  BY DEF IdsDiffer
<1>3. /\ IsFiniteSet(DOMAIN ts)
      /\ \A t \in DOMAIN ts : t \in Nat /\ t < m /\ t # n
  BY <1>2 DEF IdsDiffer
<1>4. \A i \in DOMAIN ds : IsRequest(ds[i]) =>
        /\ ds[i].id \in Nat /\ ds[i].id < m /\ ds[i].id \notin DOMAIN ts
        /\ i # e => ds[i].id # n
  BY <1>1, <1>2, <1>3 DEF IdsDiffer
<1>5. ASSUME NEW i \in DOMAIN ds, NEW j \in DOMAIN ds,
             IsRequest(ds[i]), IsRequest(ds[j]), ds[i].id = ds[j].id
      PROVE  i = j
  BY <1>1, <1>4, <1>5 DEF IdsDiffer
<1>6. ASSUME NEW i \in DOMAIN hs
      PROVE  /\ hs[i].id \in Nat /\ hs[i].id < m /\ hs[i].id \notin DOMAIN ts
             /\ \A j \in DOMAIN ds : IsRequest(ds[j]) => ds[j].id # hs[i].id
  BY <1>1, <1>2 DEF IdsDiffer
<1> QED
  BY <1>2, <1>3, <1>4, <1>5, <1>6 DEF IdsDiffer, ds

LEMMA RequestHeld ==
  ASSUME NEW ts, NEW cs, NEW n, IdsDiffer(ts, cs, << >>, n), NEW c, c.id = n
  PROVE  IdsDiffer(ts, cs, <<c>>, n + 1)
<1>1. n \in Nat /\ n + 1 \in Nat /\ \A i \in Nat : i < n => i < n + 1 /\ i # n
  BY DEF IdsDiffer
<1>2. DOMAIN <<c>> = {1} /\ <<c>>[1] = c
  OBVIOUS
<1> QED
  BY <1>1, <1>2 DEF IdsDiffer

LEMMA RequestReleased ==
  ASSUME NEW ts, NEW cs, NEW hs, NEW n, IdsDiffer(ts, cs, hs, n), IsSequence(cs), 1 \in DOMAIN hs
  PROVE  IdsDiffer(ts, Append(cs, hs[1]), << >>, n)
<1> DEFINE ds == Append(cs, hs[1])
           e  == Len(cs) + 1
<1>1. /\ DOMAIN ds = DOMAIN cs \cup {e} /\ e \notin DOMAIN cs /\ ds[e] = hs[1]
      /\ \A i \in DOMAIN cs : ds[i] = cs[i]
  BY AskAdded DEF AsksGrow
<1> HIDE DEF ds, e
<1>2. \A i \in DOMAIN ds : IsRequest(ds[i]) =>
        /\ ds[i].id \in Nat /\ ds[i].id < n /\ ds[i].id \notin DOMAIN ts
        /\ i # e => ds[i].id # hs[1].id
  BY <1>1 DEF IdsDiffer
<1>3. ASSUME NEW i \in DOMAIN ds, NEW j \in DOMAIN ds,
             IsRequest(ds[i]), IsRequest(ds[j]), ds[i].id = ds[j].id
      PROVE  i = j
  BY <1>1, <1>2, <1>3 DEF IdsDiffer
<1>4. DOMAIN << >> = {}
  OBVIOUS
<1> QED
  BY <1>2, <1>3, <1>4 DEF IdsDiffer, ds
-----------------------------------------------------------------------------
(* The sums, of any numbers.                                               *)
LEMMA EventSums ==
  ASSUME NEW t \in Nat, NEW live \in Nat, NEW w \in Nat, NEW r \in Nat, NEW p \in Nat,
         NEW e \in Nat, NEW q \in Nat, NEW h \in Nat,
         NEW x \in Nat, NEW y \in Nat, NEW z \in Nat,
         Agree(t, live, w, r, p, e, q, h, x, y, z),
         NEW live2 \in Nat, NEW e2 \in Nat, live2 + e2 = live + e
  PROVE  Agree(t, live2, w, r, p, e2, q, h, x, y, z)
BY DEF Agree

LEMMA SubmitSums ==
  ASSUME NEW t \in Nat, NEW live \in Nat, NEW w \in Nat, NEW r \in Nat, NEW p \in Nat,
         NEW e \in Nat, NEW q \in Nat, NEW h \in Nat,
         NEW x \in Nat, NEW y \in Nat, NEW z \in Nat,
         Agree(t, live, w, r, p, e, q, h, x, y, z)
  PROVE  /\ Agree(t, live, w, r, p, e, q + 1, h, x + 1, y, z)
         /\ Agree(t, live, w, r, p, e, q, h + 1, x + 1, y, z)
         /\ Agree(t, live, w, r, p, e, q + h, 0, x, y, z)
BY DEF Agree

LEMMA TerminalSums ==
  ASSUME NEW t \in Nat, NEW live \in Nat, NEW w \in Nat, NEW r \in Nat, NEW p \in Nat,
         NEW e \in Nat, NEW q \in Nat, NEW h \in Nat,
         NEW x \in Nat, NEW y \in Nat, NEW z \in Nat,
         Agree(t, live, w, r, p, e + 1, q, h, x, y, z), p <= t + w
  PROVE  /\ y > 0 => x > 0 /\ Agree(t, live, w, r, p, e, q, h, x - 1, y - 1, z)
         /\ y = 0 => Agree(t, live, w, r, p, e, q, h, x, y, z + 1)
BY DEF Agree

LEMMA WorkerSums ==
  ASSUME NEW t \in Nat, NEW live \in Nat, NEW w \in Nat, NEW r \in Nat, NEW p \in Nat,
         NEW e \in Nat, NEW q \in Nat, NEW h \in Nat,
         NEW x \in Nat, NEW y \in Nat, NEW z \in Nat,
         Agree(t, live, w + 1, r, p, e, q, h, x, y, z), p <= t + w
  PROVE  /\ z > 0 => x > 0 /\ Agree(t, live, w, r, p, e, q, h, x - 1, y, z - 1)
         /\ z = 0 => Agree(t, live, w, r, p, e, q, h, x, y + 1, z)
BY DEF Agree

LEMMA RejectedSums ==
  ASSUME NEW t \in Nat, NEW live \in Nat, NEW w \in Nat, NEW r \in Nat, NEW p \in Nat,
         NEW e \in Nat, NEW q \in Nat, NEW h \in Nat,
         NEW x \in Nat, NEW y \in Nat, NEW z \in Nat,
         Agree(t, live, w, r + 1, p, e, q, h, x, y, z), p <= t + w
  PROVE  x > 0 /\ Agree(t, live, w, r, p, e, q, h, x - 1, y, z)
BY DEF Agree

LEMMA PromotedSums ==
  ASSUME NEW t \in Nat, NEW live \in Nat, NEW w \in Nat, NEW r \in Nat, NEW p \in Nat,
         NEW e \in Nat, NEW q \in Nat, NEW h \in Nat,
         NEW x \in Nat, NEW y \in Nat, NEW z \in Nat,
         Agree(t, live, w, r, p + 1, e, q, h, x, y, z)
  PROVE  Agree(t, live, w, r, p, e, q, h, x + 1, y, z)
BY DEF Agree

LEMMA AskedSums ==
  ASSUME NEW t \in Nat, NEW live \in Nat, NEW w \in Nat, NEW r \in Nat, NEW p \in Nat,
         NEW e \in Nat, NEW q \in Nat, NEW h \in Nat,
         NEW x \in Nat, NEW y \in Nat, NEW z \in Nat,
         Agree(t, live, w, r, p, e, q + 1, h, x, y, z)
  PROVE  /\ Agree(t + 1, live + 1, w, r, p, e, q, h, x, y, z)
         /\ Agree(t, live, w, r + 1, p, e, q, h, x, y, z)
BY DEF Agree
-----------------------------------------------------------------------------
(* What a step does to the counts, by what it does to a channel.           *)
AreNumbers(ts, l, us, ss, cs, hs) ==
  /\ IsSequence(us) /\ IsSequence(ss) /\ IsSequence(cs) /\ IsSequence(hs)
  /\ IsFiniteSet(DOMAIN ts)
  /\ Cardinality(Talks(ts)) \in Nat /\ Cardinality(Live(ts)) \in Nat
  /\ Times(Reports(us), 0, "worker") \in Nat /\ Times(Reports(us), 0, "rejected") \in Nat
  /\ Times(Reports(us), 0, "steer_promoted") \in Nat
  /\ Times(Events(ss), 0, "terminal") \in Nat
  /\ Times(Asks(cs), 0, "conversation") \in Nat
  /\ Len(us) \in Nat /\ Len(hs) \in Nat /\ 0 \in 0 .. Len(us)
  /\ l.turns \in Nat /\ l.worker \in Nat /\ l.agent \in Nat

LEMMA Numbers ==
  ASSUME NEW ts, NEW l, NEW us, NEW ss, NEW cs, NEW hs, NEW n,
         Counts(ts, l, us, ss, cs, hs, n)
  PROVE  AreNumbers(ts, l, us, ss, cs, hs)
<1>1. /\ IsSequence(us) /\ IsSequence(ss) /\ IsSequence(cs) /\ IsSequence(hs)
      /\ IsFiniteSet(DOMAIN ts) /\ l \in Ledgers
  BY DEF Counts, Channels, IdsDiffer
<1>2. /\ \A k, m : Times(Reports(us), k, m) \in Nat
      /\ \A k, m : Times(Events(ss), k, m) \in Nat
      /\ \A k, m : Times(Asks(cs), k, m) \in Nat
      /\ Len(us) \in Nat /\ Len(hs) \in Nat
  BY <1>1, ReportsAre
<1>3. Cardinality(Talks(ts)) \in Nat /\ Cardinality(Live(ts)) \in Nat
  BY <1>1, TurnsAreFinite
<1>4. l.turns \in Nat /\ l.worker \in Nat /\ l.agent \in Nat
  BY <1>1 DEF Ledgers
<1>5. 0 \in 0 .. Len(us)
  BY <1>2
<1> QED
  BY <1>1, <1>2, <1>3, <1>4, <1>5 DEF AreNumbers

(* The worker reports: the end of a turn that is gone, the start of one    *)
(* for a steer, or neither.                                                *)
LEMMA ReportIsCounted ==
  ASSUME NEW ts, NEW l, NEW us, NEW ss, NEW cs, NEW hs, NEW n,
         Counts(ts, l, us, ss, cs, hs, n),
         NEW new, AreTurns(new), IdsDiffer(new, cs, hs, n),
         NEW u, IsReport(u), ReportMark(u) # "rejected",
         Cardinality(Talks(new)) + Same(ReportMark(u), "worker")
           = Cardinality(Talks(ts)) + Same(ReportMark(u), "steer_promoted"),
         Cardinality(Live(new))
           = Cardinality(Live(ts)) + Same(ReportMark(u), "steer_promoted")
  PROVE  Counts(new, l, Append(us, u), ss, cs, hs, n)
<1>1. AreNumbers(ts, l, us, ss, cs, hs)
  BY Numbers
<1>2. Cardinality(Talks(new)) \in Nat /\ Cardinality(Live(new)) \in Nat
  BY TurnsAreFinite DEF IdsDiffer
<1>3. ReportsGrow(us, Append(us, u), u)
  BY <1>1, ReportAdded DEF AreNumbers
<1>4. Channels(Append(us, u), ss, cs, hs)
  BY ChannelsGrow DEF Counts
<1>5. ToldInOrder(new, Append(us, u))
  <2>1. Cardinality(Talks(ts)) + Same(ReportMark(u), "steer_promoted")
          <= Cardinality(Talks(new)) + Same(ReportMark(u), "worker")
    BY <1>1, <1>2 DEF AreNumbers, Same
  <2>2. IsSequence(us) /\ ToldInOrder(ts, us) /\ Cardinality(Talks(ts)) \in Nat
    BY <1>1 DEF AreNumbers, Counts
  <2> QED
    BY <1>2, <2>1, <2>2, ToldAdded
<1>6. Balanced(new, l, Append(us, u), ss, cs, hs)
  <2> DEFINE vs == Append(us, u)
             a  == Same(ReportMark(u), "worker")
             b  == Same(ReportMark(u), "steer_promoted")
  <2>1. \A m : Times(Reports(vs), 0, m) = Times(Reports(us), 0, m) + Same(ReportMark(u), m)
    BY <1>1, <1>3 DEF ReportsGrow, AreNumbers
  <2>2. Same(ReportMark(u), "rejected") = 0 /\ a \in {0, 1} /\ b \in {0, 1}
    BY DEF Same
  <2>3. Times(Reports(vs), 0, "rejected") = Times(Reports(us), 0, "rejected")
    BY <1>1, <2>1, <2>2 DEF AreNumbers
  <2>4. /\ Times(Reports(vs), 0, "worker") = Times(Reports(us), 0, "worker") + a
        /\ Times(Reports(vs), 0, "steer_promoted") = Times(Reports(us), 0, "steer_promoted") + b
    BY <2>1
  <2>5. /\ Balanced(ts, l, us, ss, cs, hs)
        /\ Cardinality(Talks(new)) + a = Cardinality(Talks(ts)) + b
        /\ Cardinality(Live(new)) = Cardinality(Live(ts)) + b
    BY DEF Counts
  <2> HIDE DEF vs, a, b
  <2> DEFINE w  == Times(Reports(us), 0, "worker")
             p  == Times(Reports(us), 0, "steer_promoted")
             w2 == Times(Reports(vs), 0, "worker")
             p2 == Times(Reports(vs), 0, "steer_promoted")
             t  == Cardinality(Talks(ts))
             t2 == Cardinality(Talks(new))
             live  == Cardinality(Live(ts))
             live2 == Cardinality(Live(new))
             r == Times(Reports(us), 0, "rejected")
             e == Times(Events(ss), 0, "terminal")
             q == Times(Asks(cs), 0, "conversation")
             h == Len(hs)
             x == l.turns
             y == l.worker
             z == l.agent
  <2>6. /\ w \in Nat /\ p \in Nat /\ t \in Nat /\ t2 \in Nat /\ live \in Nat /\ live2 \in Nat
        /\ w2 = w + a /\ p2 = p + b /\ t2 + a = t + b /\ live2 = live + b
    BY <1>1, <1>2, <2>4, <2>5 DEF AreNumbers
  <2>7. /\ r \in Nat /\ e \in Nat /\ q \in Nat /\ h \in Nat
         /\ x \in Nat /\ y \in Nat /\ z \in Nat
    BY <1>1 DEF AreNumbers
  <2>8. Agree(t, live, w, r, p, e, q, h, x, y, z)
    BY <2>5 DEF Balanced
  <2> HIDE DEF w, p, w2, p2, t, t2, live, live2, r, e, q, h, x, y, z
  <2>9. w2 \in Nat /\ p2 \in Nat /\ t2 + w2 + p = t + w + p2 /\ live2 + p = live + p2
    BY <2>2, <2>6
  <2>10. Agree(t2, live2, w2, r, p2, e, q, h, x, y, z)
    BY <2>6, <2>9, <2>8, <2>7 DEF Agree
  <2> QED
    BY <2>3, <2>10 DEF Balanced, w2, p2, t2, live2, r, e, q, h, x, y, z, vs
<1> QED
  BY <1>4, <1>5, <1>6 DEF Counts

LEMMA QuietReport ==
  ASSUME NEW ts, NEW l, NEW us, NEW ss, NEW cs, NEW hs, NEW n,
         Counts(ts, l, us, ss, cs, hs, n),
         NEW u, u.event \notin {"finished", "worker", "rejected", "steer_promoted"}
  PROVE  Counts(ts, l, Append(us, u), ss, cs, hs, n)
<1>1. /\ IsReport(u) /\ ReportMark(u) \notin {"worker", "rejected", "steer_promoted"}
  BY DEF IsReport, ReportMark
<1>2. Same(ReportMark(u), "worker") = 0 /\ Same(ReportMark(u), "steer_promoted") = 0
  BY <1>1 DEF Same
<1>3. Cardinality(Talks(ts)) \in Nat /\ Cardinality(Live(ts)) \in Nat
  BY Numbers DEF AreNumbers
<1>4. AreTurns(ts) /\ IdsDiffer(ts, cs, hs, n)
  BY DEF Counts
<1> QED
  BY <1>1, <1>2, <1>3, <1>4, ReportIsCounted

(* Turns go on.                                                            *)
LEMMA GoingOnCounts ==
  ASSUME NEW ts, NEW l, NEW us, NEW ss, NEW cs, NEW hs, NEW n,
         Counts(ts, l, us, ss, cs, hs, n),
         NEW new, AreTurns(new), DOMAIN new = DOMAIN ts,
         \A t \in DOMAIN ts : GoesOn(new[t], ts[t])
  PROVE  Counts(new, l, us, ss, cs, hs, n)
<1>1. Talks(new) = Talks(ts) /\ Live(new) = Live(ts)
  BY TurnsGoOn
<1>2. IdsDiffer(new, cs, hs, n)
  BY FewerTurns DEF Counts
<1>3. Balanced(new, l, us, ss, cs, hs) /\ ToldInOrder(new, us)
  BY <1>1 DEF Counts, Balanced, ToldInOrder
<1> QED
  BY <1>2, <1>3 DEF Counts

(* The agent reports, and a turn it reports over is over.                  *)
LEMMA EventIsCounted ==
  ASSUME NEW ts, NEW l, NEW us, NEW ss, NEW cs, NEW hs, NEW n,
         Counts(ts, l, us, ss, cs, hs, n),
         NEW new, AreTurns(new), DOMAIN new = DOMAIN ts, NEW e,
         Cardinality(Talks(new)) = Cardinality(Talks(ts)),
         Cardinality(Live(ts)) = Cardinality(Live(new)) + Same(e.event, "terminal")
  PROVE  Counts(new, l, us, Append(ss, e), cs, hs, n)
<1>1. AreNumbers(ts, l, us, ss, cs, hs)
  BY Numbers
<1>2. EventsGrow(ss, Append(ss, e), e)
  BY <1>1, EventAdded DEF AreNumbers
<1>3. IdsDiffer(new, cs, hs, n)
  BY FewerTurns DEF Counts
<1>4. Cardinality(Live(new)) \in Nat
  BY <1>3, TurnsAreFinite DEF IdsDiffer
<1>5. Channels(us, Append(ss, e), cs, hs)
  BY ChannelsGrow DEF Counts
<1>6. ToldInOrder(new, us)
  BY DEF Counts, ToldInOrder
<1>7. Balanced(new, l, us, Append(ss, e), cs, hs)
  <2> DEFINE a == Same(e.event, "terminal")
  <2>1. Times(Events(Append(ss, e)), 0, "terminal") = Times(Events(ss), 0, "terminal") + a
    BY <1>2 DEF EventsGrow
  <2>2. a \in {0, 1} /\ Cardinality(Live(ts)) = Cardinality(Live(new)) + a
    BY DEF Same
  <2>3. Balanced(ts, l, us, ss, cs, hs)
    BY DEF Counts
  <2> DEFINE e1 == Times(Events(ss), 0, "terminal")
             e2 == Times(Events(Append(ss, e)), 0, "terminal")
             live  == Cardinality(Live(ts))
             live2 == Cardinality(Live(new))
  <2>4. /\ e1 \in Nat /\ live \in Nat /\ live2 \in Nat
        /\ e2 = e1 + a /\ live = live2 + a
    BY <1>1, <1>4, <2>1, <2>2 DEF AreNumbers
  <2> HIDE DEF a, e1, e2, live, live2
  <2>5. e2 \in Nat /\ live2 + e2 = live + e1
    BY <2>2, <2>4
  <2> QED
    BY <1>1, <2>3, <2>4, <2>5, EventSums DEF Balanced, AreNumbers, e1, e2, live, live2
<1> QED
  BY <1>3, <1>5, <1>6, <1>7 DEF Counts

(* The ledger after an end.                                                *)
LEMMA EndedLedger ==
  ASSUME NEW l \in Ledgers
  PROVE  /\ EndRecorded(l, "terminal") \in Ledgers
         /\ EndRecorded(l, "worker") \in Ledgers
         /\ EndRecorded(l, "rejected") \in Ledgers
         /\ l.worker > 0 /\ l.turns > 0 =>
              EndRecorded(l, "terminal")
                = [turns |-> l.turns - 1, worker |-> l.worker - 1, agent |-> l.agent]
         /\ l.worker = 0 => EndRecorded(l, "terminal")
                = [turns |-> l.turns, worker |-> l.worker, agent |-> l.agent + 1]
         /\ l.agent > 0 /\ l.turns > 0 =>
              EndRecorded(l, "worker")
                = [turns |-> l.turns - 1, worker |-> l.worker, agent |-> l.agent - 1]
         /\ l.agent = 0 => EndRecorded(l, "worker")
                = [turns |-> l.turns, worker |-> l.worker + 1, agent |-> l.agent]
         /\ l.turns > 0 => EndRecorded(l, "rejected")
                = [turns |-> l.turns - 1, worker |-> l.worker, agent |-> l.agent]
<1>1. PICK x \in Nat, y \in Nat, z \in Nat : l = [turns |-> x, worker |-> y, agent |-> z]
  BY DEF Ledgers
<1>2. /\ IsOver(l, "rejected") /\ Matched(l, "rejected") = l
      /\ IsOver(l, "worker") <=> z > 0
      /\ IsOver(l, "terminal") <=> y > 0
      /\ Matched(l, "worker") = [turns |-> x, worker |-> y, agent |-> OneLess(z)]
      /\ Matched(l, "terminal") = [turns |-> x, worker |-> OneLess(y), agent |-> z]
  BY <1>1 DEF IsOver, Matched
<1>3. \A i \in Nat : OneLess(i) \in Nat /\ (i > 0 => OneLess(i) = i - 1)
  BY DEF OneLess
<1>4. /\ EndRecorded(l, "rejected") = [turns |-> OneLess(x), worker |-> y, agent |-> z]
      /\ EndRecorded(l, "worker")
           = IF z > 0 THEN [turns |-> OneLess(x), worker |-> y, agent |-> OneLess(z)]
             ELSE [turns |-> x, worker |-> y + 1, agent |-> z]
      /\ EndRecorded(l, "terminal")
           = IF y > 0 THEN [turns |-> OneLess(x), worker |-> OneLess(y), agent |-> z]
             ELSE [turns |-> x, worker |-> y, agent |-> z + 1]
  BY <1>1, <1>2 DEF EndRecorded
<1>5. /\ EndRecorded(l, "terminal") \in Ledgers
      /\ EndRecorded(l, "worker") \in Ledgers
      /\ EndRecorded(l, "rejected") \in Ledgers
  BY <1>3, <1>4 DEF Ledgers
<1> QED
  BY <1>1, <1>3, <1>4, <1>5

(* An event is taken: the end of a turn is recorded, anything else is not. *)
LEMMA EventIsTaken ==
  ASSUME NEW ts, NEW l, NEW us, NEW ss, NEW cs, NEW hs, NEW n,
         Counts(ts, l, us, ss, cs, hs, n), ss # << >>
  PROVE  /\ Head(ss).event # "terminal" => Counts(ts, l, us, Tail(ss), cs, hs, n)
         /\ Head(ss).event = "terminal" =>
              /\ Counts(ts, EndRecorded(l, "terminal"), us, Tail(ss), cs, hs, n)
<1> DEFINE rs == Tail(ss)
<1>1. AreNumbers(ts, l, us, ss, cs, hs) /\ Balanced(ts, l, us, ss, cs, hs)
  BY Numbers DEF Counts
<1>2. EventsShrink(ss, rs)
  BY <1>1, EventTaken DEF AreNumbers
<1>3. Channels(us, rs, cs, hs)
  BY ChannelsShrink DEF Counts
<1> HIDE DEF rs
<1>4. /\ Times(Events(ss), 0, "terminal")
           = Times(Events(rs), 0, "terminal") + Same(Head(ss).event, "terminal")
      /\ Times(Events(rs), 0, "terminal") \in Nat
  BY <1>2, ReportsAre DEF EventsShrink
<1>5. CASE Head(ss).event # "terminal"
  <2>1. Times(Events(ss), 0, "terminal") = Times(Events(rs), 0, "terminal")
    BY <1>4, <1>5 DEF Same
  <2>2. Balanced(ts, l, us, rs, cs, hs)
    BY <1>1, <2>1 DEF Balanced
  <2> QED
    BY <1>3, <1>5, <2>2 DEF Counts, rs
<1>6. CASE Head(ss).event = "terminal"
  <2> DEFINE k == EndRecorded(l, "terminal")
  <2>1. Times(Events(ss), 0, "terminal") = Times(Events(rs), 0, "terminal") + 1
    BY <1>4, <1>6 DEF Same
  <2>2. Times(Reports(us), 0, "steer_promoted")
          <= Cardinality(Talks(ts)) + Times(Reports(us), 0, "worker")
    BY <1>1 DEF Counts, ToldInOrder, AreNumbers
  <2> DEFINE Sums(e, x, y, z) ==
        Agree(Cardinality(Talks(ts)), Cardinality(Live(ts)), Times(Reports(us), 0, "worker"),
              Times(Reports(us), 0, "rejected"), Times(Reports(us), 0, "steer_promoted"), e,
              Times(Asks(cs), 0, "conversation"), Len(hs), x, y, z)
             E == Times(Events(rs), 0, "terminal")
  <2>3. Sums(E + 1, l.turns, l.worker, l.agent) /\ E \in Nat
    BY <1>1, <1>4, <2>1 DEF Balanced
  <2> HIDE DEF E
  <2>4. /\ l.worker > 0 => l.turns > 0 /\ Sums(E, l.turns - 1, l.worker - 1, l.agent)
        /\ l.worker = 0 => Sums(E, l.turns, l.worker, l.agent + 1)
    BY <1>1, <2>2, <2>3, TerminalSums DEF AreNumbers
  <2>5. l \in Ledgers
    BY DEF Counts
  <2>6. /\ k \in Ledgers
        /\ l.worker > 0 => k = [turns |-> l.turns - 1, worker |-> l.worker - 1, agent |-> l.agent]
        /\ l.worker = 0 => k = [turns |-> l.turns, worker |-> l.worker, agent |-> l.agent + 1]
    BY <2>4, <2>5, EndedLedger
  <2> HIDE DEF k
  <2>7. l.worker > 0 \/ l.worker = 0
    BY <1>1 DEF AreNumbers
  <2>8. Balanced(ts, k, us, rs, cs, hs)
    BY <2>4, <2>6, <2>7 DEF Balanced, E
  <2> QED
    BY <1>3, <1>6, <2>6, <2>8 DEF Counts, k, rs
<1> QED
  BY <1>5, <1>6 DEF rs

(* A report is taken.                                                      *)
LEMMA ReportIsTaken ==
  ASSUME NEW ts, NEW l, NEW us, NEW ss, NEW cs, NEW hs, NEW n,
         Counts(ts, l, us, ss, cs, hs, n), us # << >>
  PROVE  LET mark == ReportMark(Head(us))
             vs   == Tail(us)
         IN
         /\ mark \notin {"worker", "rejected", "steer_promoted"} =>
              Counts(ts, l, vs, ss, cs, hs, n)
         /\ mark = "steer_promoted" => Counts(ts, TurnStarted(l), vs, ss, cs, hs, n)
         /\ mark \in {"worker", "rejected"} =>
              Counts(ts, EndRecorded(l, mark), vs, ss, cs, hs, n)
<1> DEFINE vs   == Tail(us)
           mark == ReportMark(Head(us))
           Sums(w, r, p, x, y, z) ==
             Agree(Cardinality(Talks(ts)), Cardinality(Live(ts)), w, r, p,
                   Times(Events(ss), 0, "terminal"), Times(Asks(cs), 0, "conversation"),
                   Len(hs), x, y, z)
           W == Times(Reports(vs), 0, "worker")
           R == Times(Reports(vs), 0, "rejected")
           P == Times(Reports(vs), 0, "steer_promoted")
<1>1. AreNumbers(ts, l, us, ss, cs, hs) /\ Balanced(ts, l, us, ss, cs, hs) /\ l \in Ledgers
  BY Numbers DEF Counts
<1>2. ReportsShrink(us, vs)
  BY <1>1, ReportTaken DEF AreNumbers
<1>3. Channels(vs, ss, cs, hs)
  BY ChannelsShrink DEF Counts
<1>4. ToldInOrder(ts, vs)
  BY <1>1, ToldTaken DEF Counts, AreNumbers
<1> HIDE DEF vs, mark
<1>5. \A m : Times(Reports(us), 0, m) = Times(Reports(vs), 0, m) + Same(mark, m)
  BY <1>2 DEF ReportsShrink, mark
<1>6. W \in Nat /\ R \in Nat /\ P \in Nat /\ 0 \in 0 .. Len(vs)
  BY <1>2, ReportsAre DEF ReportsShrink
<1>7. P <= Cardinality(Talks(ts)) + W
  BY <1>4, <1>6 DEF ToldInOrder
<1> DEFINE dw == Same(mark, "worker")
           dr == Same(mark, "rejected")
           dp == Same(mark, "steer_promoted")
<1>8. Sums(W + dw, R + dr, P + dp, l.turns, l.worker, l.agent)
  BY <1>1, <1>5 DEF Balanced
<1>9. ASSUME NEW k \in Ledgers, Sums(W, R, P, k.turns, k.worker, k.agent)
      PROVE  Counts(ts, k, vs, ss, cs, hs, n)
  BY <1>3, <1>4, <1>9 DEF Counts, Balanced
<1>10. ASSUME mark \notin {"worker", "rejected", "steer_promoted"}
       PROVE  Counts(ts, l, vs, ss, cs, hs, n)
  <2>1. dw = 0 /\ dr = 0 /\ dp = 0
    BY <1>10 DEF Same
  <2> HIDE DEF W, R, P, dw, dr, dp
  <2>2. W + dw = W /\ R + dr = R /\ P + dp = P
    BY <1>6, <2>1
  <2>3. Sums(W, R, P, l.turns, l.worker, l.agent)
    BY <1>8, <2>2
  <2> HIDE DEF Sums
  <2> QED
    BY <1>1, <1>9, <2>3
<1>11. ASSUME mark = "steer_promoted" PROVE Counts(ts, TurnStarted(l), vs, ss, cs, hs, n)
  <2>1. dw = 0 /\ dr = 0 /\ dp = 1
    BY <1>11 DEF Same
  <2> HIDE DEF W, R, P, dw, dr, dp
  <2>2. W + dw = W /\ R + dr = R /\ P + dp = P + 1
    BY <1>6, <2>1
  <2>3. Sums(W, R, P + 1, l.turns, l.worker, l.agent)
    BY <1>8, <2>2
  <2>4. Sums(W, R, P, l.turns + 1, l.worker, l.agent)
    BY <1>1, <1>6, <2>3, PromotedSums DEF AreNumbers
  <2>5. /\ TurnStarted(l) \in Ledgers /\ TurnStarted(l).turns = l.turns + 1
        /\ TurnStarted(l).worker = l.worker /\ TurnStarted(l).agent = l.agent
    BY <1>1 DEF TurnStarted, Ledgers
  <2> HIDE DEF Sums
  <2> QED
    BY <1>9, <2>4, <2>5
<1>12. ASSUME mark = "worker" PROVE Counts(ts, EndRecorded(l, "worker"), vs, ss, cs, hs, n)
  <2>1. dw = 1 /\ dr = 0 /\ dp = 0
    BY <1>12 DEF Same
  <2> HIDE DEF W, R, P, dw, dr, dp
  <2>2. W + dw = W + 1 /\ R + dr = R /\ P + dp = P
    BY <1>6, <2>1
  <2>3. Sums(W + 1, R, P, l.turns, l.worker, l.agent)
    BY <1>8, <2>2
  <2>4. /\ l.agent > 0 => l.turns > 0 /\ Sums(W, R, P, l.turns - 1, l.worker, l.agent - 1)
        /\ l.agent = 0 => Sums(W, R, P, l.turns, l.worker + 1, l.agent)
    BY <1>1, <1>6, <1>7, <2>3, WorkerSums DEF AreNumbers
  <2> DEFINE k == EndRecorded(l, "worker")
  <2>5. /\ k \in Ledgers
        /\ l.agent > 0 => k = [turns |-> l.turns - 1, worker |-> l.worker, agent |-> l.agent - 1]
        /\ l.agent = 0 => k = [turns |-> l.turns, worker |-> l.worker + 1, agent |-> l.agent]
        /\ l.agent > 0 \/ l.agent = 0
    BY <1>1, <2>4, EndedLedger DEF AreNumbers
  <2> HIDE DEF k
  <2>6. Sums(W, R, P, k.turns, k.worker, k.agent)
    BY <2>4, <2>5
  <2> HIDE DEF Sums
  <2>7. Counts(ts, k, vs, ss, cs, hs, n)
    BY <1>9, <2>5, <2>6
  <2> QED
    BY <2>7 DEF k
<1>13. ASSUME mark = "rejected" PROVE Counts(ts, EndRecorded(l, "rejected"), vs, ss, cs, hs, n)
  <2>1. dw = 0 /\ dr = 1 /\ dp = 0
    BY <1>13 DEF Same
  <2> HIDE DEF W, R, P, dw, dr, dp
  <2>2. W + dw = W /\ R + dr = R + 1 /\ P + dp = P
    BY <1>6, <2>1
  <2>3. Sums(W, R + 1, P, l.turns, l.worker, l.agent)
    BY <1>8, <2>2
  <2>4. l.turns > 0 /\ Sums(W, R, P, l.turns - 1, l.worker, l.agent)
    BY <1>1, <1>6, <1>7, <2>3, RejectedSums DEF AreNumbers
  <2> DEFINE k == EndRecorded(l, "rejected")
  <2>5. /\ k \in Ledgers
        /\ k = [turns |-> l.turns - 1, worker |-> l.worker, agent |-> l.agent]
    BY <1>1, <2>4, EndedLedger
  <2> HIDE DEF k
  <2>6. Sums(W, R, P, k.turns, k.worker, k.agent)
    BY <2>4, <2>5
  <2> HIDE DEF Sums
  <2>7. Counts(ts, k, vs, ss, cs, hs, n)
    BY <1>9, <2>5, <2>6
  <2> QED
    BY <2>7 DEF k
<1> QED
  BY <1>10, <1>11, <1>12, <1>13 DEF vs, mark
-----------------------------------------------------------------------------
(* What a step does to the counts, by what it does to the requests.        *)
LEMMA RequestIsTaken ==
  ASSUME NEW ts, NEW l, NEW us, NEW ss, NEW cs, NEW hs, NEW n,
         Counts(ts, l, us, ss, cs, hs, n), cs # << >>,
         CommandMark(Head(cs)) # "conversation"
  PROVE  Counts(ts, l, us, ss, Tail(cs), hs, n)
<1>1. AreNumbers(ts, l, us, ss, cs, hs)
  BY Numbers
<1>2. AsksShrink(cs, Tail(cs))
  BY <1>1, AskTaken DEF AreNumbers
<1>3. Channels(us, ss, Tail(cs), hs) /\ IdsDiffer(ts, Tail(cs), hs, n)
  BY <1>1, ChannelsShrink, RequestTaken DEF Counts, AreNumbers
<1>4. Times(Asks(cs), 0, "conversation") = Times(Asks(Tail(cs)), 0, "conversation")
  <2>1. Times(Asks(cs), 0, "conversation")
          = Times(Asks(Tail(cs)), 0, "conversation") + Same(CommandMark(Head(cs)), "conversation")
    BY <1>2 DEF AsksShrink
  <2>2. Times(Asks(Tail(cs)), 0, "conversation") \in Nat
    BY <1>2, ReportsAre DEF AsksShrink
  <2> QED
    BY <2>1, <2>2 DEF Same
<1>5. Balanced(ts, l, us, ss, Tail(cs), hs)
  BY <1>4 DEF Counts, Balanced
<1> QED
  BY <1>3, <1>5 DEF Counts

LEMMA SubmissionIsTaken ==
  ASSUME NEW ts, NEW l, NEW us, NEW ss, NEW cs, NEW hs, NEW n,
         Counts(ts, l, us, ss, cs, hs, n), cs # << >>,
         Head(cs).command = "submit", Head(cs).kind = "conversation"
  PROVE  /\ Channels(us, ss, Tail(cs), hs) /\ IdsDiffer(ts, Tail(cs), hs, n)
         /\ Times(Asks(Tail(cs)), 0, "conversation") \in Nat
         /\ Times(Asks(cs), 0, "conversation") = Times(Asks(Tail(cs)), 0, "conversation") + 1
<1>1. AreNumbers(ts, l, us, ss, cs, hs)
  BY Numbers
<1>2. AsksShrink(cs, Tail(cs))
  BY <1>1, AskTaken DEF AreNumbers
<1>3. Channels(us, ss, Tail(cs), hs) /\ IdsDiffer(ts, Tail(cs), hs, n)
  BY <1>1, ChannelsShrink, RequestTaken DEF Counts, AreNumbers
<1>4. CommandMark(Head(cs)) = "conversation"
  BY DEF CommandMark
<1>5. Times(Asks(cs), 0, "conversation")
        = Times(Asks(Tail(cs)), 0, "conversation") + Same(CommandMark(Head(cs)), "conversation")
  BY <1>2 DEF AsksShrink
<1>6. Times(Asks(Tail(cs)), 0, "conversation") \in Nat
  BY <1>2, ReportsAre DEF AsksShrink
<1> QED
  BY <1>3, <1>4, <1>5, <1>6 DEF Same

(* A submission becomes a turn.                                            *)
LEMMA SubmissionStarts ==
  ASSUME NEW ts, NEW l, NEW us, NEW ss, NEW cs, NEW hs, NEW n,
         Counts(ts, l, us, ss, cs, hs, n), cs # << >>,
         Head(cs).command = "submit", Head(cs).kind = "conversation",
         NEW new, new = Joined(ts, Head(cs).id, "conversation")
  PROVE  Counts(new, l, us, ss, Tail(cs), hs, n)
<1>1. AreNumbers(ts, l, us, ss, cs, hs) /\ Balanced(ts, l, us, ss, cs, hs)
  BY Numbers DEF Counts
<1>2. /\ Channels(us, ss, Tail(cs), hs) /\ IdsDiffer(ts, Tail(cs), hs, n)
      /\ Times(Asks(Tail(cs)), 0, "conversation") \in Nat
      /\ Times(Asks(cs), 0, "conversation") = Times(Asks(Tail(cs)), 0, "conversation") + 1
  BY SubmissionIsTaken
<1>3. Fresh(Head(cs).id, ts, Tail(cs), hs, n)
  BY <1>1, RequestTaken DEF Counts, AreNumbers, IsRequest
<1>4. /\ AreTurns(new) /\ DOMAIN new = DOMAIN ts \cup {Head(cs).id}
      /\ Cardinality(Talks(new)) = Cardinality(Talks(ts)) + 1
      /\ Cardinality(Live(new)) = Cardinality(Live(ts)) + 1
  BY <1>1, <1>3, TurnAdded DEF Counts, AreNumbers, Fresh, Same, TalkAdded
<1>5. IdsDiffer(new, Tail(cs), hs, n)
  BY <1>2, <1>3, <1>4, TurnGetsId
<1>6. ToldInOrder(new, us)
  BY <1>1, <1>4, ToldStill DEF Counts, AreNumbers
<1>7. Balanced(new, l, us, ss, Tail(cs), hs)
  <2>1. Agree(Cardinality(Talks(ts)), Cardinality(Live(ts)), Times(Reports(us), 0, "worker"),
              Times(Reports(us), 0, "rejected"), Times(Reports(us), 0, "steer_promoted"),
              Times(Events(ss), 0, "terminal"), Times(Asks(Tail(cs)), 0, "conversation") + 1,
              Len(hs), l.turns, l.worker, l.agent)
    BY <1>1, <1>2 DEF Balanced
  <2>2. Agree(Cardinality(Talks(ts)) + 1, Cardinality(Live(ts)) + 1,
              Times(Reports(us), 0, "worker"),
              Times(Reports(us), 0, "rejected"), Times(Reports(us), 0, "steer_promoted"),
              Times(Events(ss), 0, "terminal"), Times(Asks(Tail(cs)), 0, "conversation"),
              Len(hs), l.turns, l.worker, l.agent)
    BY <1>1, <1>2, <2>1, AskedSums DEF AreNumbers
  <2> QED
    BY <1>4, <2>2 DEF Balanced
<1> QED
  BY <1>2, <1>4, <1>5, <1>6, <1>7 DEF Counts

(* A submission is rejected.                                               *)
LEMMA SubmissionIsRejected ==
  ASSUME NEW ts, NEW l, NEW us, NEW ss, NEW cs, NEW hs, NEW n,
         Counts(ts, l, us, ss, cs, hs, n), cs # << >>,
         Head(cs).command = "submit", Head(cs).kind = "conversation",
         NEW u, u.event = "finished", u.end = "rejected"
  PROVE  Counts(ts, l, Append(us, u), ss, Tail(cs), hs, n)
<1>1. AreNumbers(ts, l, us, ss, cs, hs) /\ Balanced(ts, l, us, ss, cs, hs)
  BY Numbers DEF Counts
<1>2. /\ Channels(us, ss, Tail(cs), hs) /\ IdsDiffer(ts, Tail(cs), hs, n)
      /\ Times(Asks(Tail(cs)), 0, "conversation") \in Nat
      /\ Times(Asks(cs), 0, "conversation") = Times(Asks(Tail(cs)), 0, "conversation") + 1
  BY SubmissionIsTaken
<1>3. ReportsGrow(us, Append(us, u), u)
  BY <1>1, ReportAdded DEF AreNumbers
<1>4. IsReport(u) /\ ReportMark(u) = "rejected"
  BY DEF IsReport, ReportMark
<1>5. Channels(Append(us, u), ss, Tail(cs), hs)
  BY <1>2, <1>4, ChannelsGrow
<1>6. ToldInOrder(ts, Append(us, u))
  <2>1. Cardinality(Talks(ts)) + Same(ReportMark(u), "steer_promoted")
          <= Cardinality(Talks(ts)) + Same(ReportMark(u), "worker")
    BY <1>1, <1>4 DEF AreNumbers, Same
  <2> QED
    BY <1>1, <2>1, ToldAdded DEF Counts, AreNumbers
<1>7. /\ Times(Reports(Append(us, u)), 0, "rejected") = Times(Reports(us), 0, "rejected") + 1
      /\ Times(Reports(Append(us, u)), 0, "worker") = Times(Reports(us), 0, "worker")
      /\ Times(Reports(Append(us, u)), 0, "steer_promoted")
           = Times(Reports(us), 0, "steer_promoted")
  <2>1. \A m : Times(Reports(Append(us, u)), 0, m)
                 = Times(Reports(us), 0, m) + Same(ReportMark(u), m)
    BY <1>1, <1>3 DEF ReportsGrow, AreNumbers
  <2> QED
    BY <1>1, <1>4, <2>1 DEF Same, AreNumbers
<1>8. Balanced(ts, l, Append(us, u), ss, Tail(cs), hs)
  <2>1. Agree(Cardinality(Talks(ts)), Cardinality(Live(ts)), Times(Reports(us), 0, "worker"),
              Times(Reports(us), 0, "rejected"), Times(Reports(us), 0, "steer_promoted"),
              Times(Events(ss), 0, "terminal"), Times(Asks(Tail(cs)), 0, "conversation") + 1,
              Len(hs), l.turns, l.worker, l.agent)
    BY <1>1, <1>2 DEF Balanced
  <2>2. Agree(Cardinality(Talks(ts)), Cardinality(Live(ts)), Times(Reports(us), 0, "worker"),
              Times(Reports(us), 0, "rejected") + 1, Times(Reports(us), 0, "steer_promoted"),
              Times(Events(ss), 0, "terminal"), Times(Asks(Tail(cs)), 0, "conversation"),
              Len(hs), l.turns, l.worker, l.agent)
    BY <1>1, <1>2, <2>1, AskedSums DEF AreNumbers
  <2> QED
    BY <1>7, <2>2 DEF Balanced
<1> QED
  BY <1>2, <1>5, <1>6, <1>8 DEF Counts

(* A steer, or the submission of an auxiliary job, becomes a turn.         *)
LEMMA RequestIsFresh ==
  ASSUME NEW ts, NEW l, NEW us, NEW ss, NEW cs, NEW hs, NEW n,
         Counts(ts, l, us, ss, cs, hs, n), cs # << >>, IsRequest(Head(cs)),
         NEW kind \in {"conversation", "auxiliary"},
         NEW new, new = Joined(ts, Head(cs).id, kind)
  PROVE  /\ AreTurns(new) /\ IdsDiffer(new, Tail(cs), hs, n)
         /\ TalkAdded(ts, new, kind)
<1>1. IsSequence(cs) /\ IdsDiffer(ts, cs, hs, n) /\ AreTurns(ts) /\ IsFiniteSet(DOMAIN ts)
  BY DEF Counts, Channels, IdsDiffer
<1>2. IdsDiffer(ts, Tail(cs), hs, n) /\ Fresh(Head(cs).id, ts, Tail(cs), hs, n)
  BY <1>1, RequestTaken
<1>3. Head(cs).id \notin DOMAIN ts
  BY <1>2 DEF Fresh
<1>4. /\ AreTurns(new) /\ DOMAIN new = DOMAIN ts \cup {Head(cs).id}
      /\ TalkAdded(ts, new, kind)
  <2> DEFINE id == Head(cs).id
  <2>1. AreTurns(ts) /\ IsFiniteSet(DOMAIN ts) /\ id \notin DOMAIN ts /\ new = Joined(ts, id, kind)
    BY <1>1, <1>3
  <2> HIDE DEF id
  <2>2. AreTurns(new) /\ DOMAIN new = DOMAIN ts \cup {id} /\ TalkAdded(ts, new, kind)
    <3>1. kind = "conversation" \/ kind = "auxiliary"
      OBVIOUS
    <3>2. CASE kind = "conversation"
      BY <2>1, <3>2, TurnAdded
    <3>3. CASE kind = "auxiliary"
      BY <2>1, <3>3, TurnAdded
    <3> QED
      BY <3>1, <3>2, <3>3
  <2> QED
    BY <2>2 DEF id
<1>5. IdsDiffer(new, Tail(cs), hs, n)
  <2> DEFINE id == Head(cs).id
             rest == Tail(cs)
  <2>1. IdsDiffer(ts, rest, hs, n) /\ Fresh(id, ts, rest, hs, n) /\ DOMAIN new = DOMAIN ts \cup {id}
    BY <1>2, <1>4
  <2> HIDE DEF id, rest
  <2>2. IdsDiffer(new, rest, hs, n)
    BY <2>1, TurnGetsId
  <2> QED
    BY <2>2 DEF rest
<1> QED
  BY <1>4, <1>5

LEMMA AuxiliaryStarts ==
  ASSUME NEW ts, NEW l, NEW us, NEW ss, NEW cs, NEW hs, NEW n,
         Counts(ts, l, us, ss, cs, hs, n), cs # << >>,
         Head(cs).command = "submit", Head(cs).kind = "auxiliary",
         NEW new, new = Joined(ts, Head(cs).id, "auxiliary")
  PROVE  Counts(new, l, us, ss, Tail(cs), hs, n)
<1>1. Counts(ts, l, us, ss, Tail(cs), hs, n)
  BY RequestIsTaken DEF CommandMark
<1>2. AreNumbers(ts, l, us, ss, Tail(cs), hs)
  BY <1>1, Numbers
<1>3. /\ AreTurns(new) /\ IdsDiffer(new, Tail(cs), hs, n)
      /\ Cardinality(Talks(new)) = Cardinality(Talks(ts))
      /\ Cardinality(Live(new)) = Cardinality(Live(ts))
  BY <1>2, RequestIsFresh DEF IsRequest, Same, TalkAdded, AreNumbers
<1>4. Balanced(new, l, us, ss, Tail(cs), hs) /\ ToldInOrder(new, us)
  BY <1>1, <1>3 DEF Counts, Balanced, ToldInOrder
<1> QED
  BY <1>1, <1>3, <1>4 DEF Counts

LEMMA SteerStarts ==
  ASSUME NEW ts, NEW l, NEW us, NEW ss, NEW cs, NEW hs, NEW n,
         Counts(ts, l, us, ss, cs, hs, n), cs # << >>, Head(cs).command = "steer",
         NEW new, new = Joined(ts, Head(cs).id, "conversation"),
         NEW u, u.event = "steer_promoted"
  PROVE  Counts(new, l, Append(us, u), ss, Tail(cs), hs, n)
<1>1. Counts(ts, l, us, ss, Tail(cs), hs, n)
  BY RequestIsTaken DEF CommandMark
<1>2. AreNumbers(ts, l, us, ss, Tail(cs), hs)
  BY <1>1, Numbers
<1>3. /\ AreTurns(new) /\ IdsDiffer(new, Tail(cs), hs, n)
      /\ Cardinality(Talks(new)) = Cardinality(Talks(ts)) + 1
      /\ Cardinality(Live(new)) = Cardinality(Live(ts)) + 1
  BY <1>2, RequestIsFresh DEF IsRequest, Same, TalkAdded, AreNumbers
<1>4. IsReport(u) /\ ReportMark(u) = "steer_promoted"
  BY DEF IsReport, ReportMark
<1>5. Same(ReportMark(u), "worker") = 0 /\ Same(ReportMark(u), "steer_promoted") = 1
  BY <1>4 DEF Same
<1>6. Cardinality(Talks(new)) + 0 = Cardinality(Talks(ts)) + 1
  BY <1>2, <1>3 DEF AreNumbers
<1> QED
  BY <1>1, <1>3, <1>4, <1>5, <1>6, ReportIsCounted
-----------------------------------------------------------------------------
(* The pane sends.                                                         *)
LEMMA CommandIsSent ==
  ASSUME NEW ts, NEW l, NEW us, NEW ss, NEW cs, NEW hs, NEW n,
         Counts(ts, l, us, ss, cs, hs, n), NEW c, IsCommand(c),
         CommandMark(c) # "conversation",
         NEW m \in {n, n + 1}, IsRequest(c) => c.id = n /\ m = n + 1
  PROVE  Counts(ts, l, us, ss, Append(cs, c), hs, m)
<1>1. AreNumbers(ts, l, us, ss, cs, hs)
  BY Numbers
<1>2. AsksGrow(cs, Append(cs, c), c)
  BY <1>1, AskAdded DEF AreNumbers
<1>3. Channels(us, ss, Append(cs, c), hs) /\ IdsDiffer(ts, Append(cs, c), hs, m)
  BY <1>1, ChannelsGrow, RequestAdded DEF Counts, AreNumbers
<1>4. Times(Asks(Append(cs, c)), 0, "conversation") = Times(Asks(cs), 0, "conversation")
  <2>1. Times(Asks(Append(cs, c)), 0, "conversation")
          = Times(Asks(cs), 0, "conversation") + Same(CommandMark(c), "conversation")
    BY <1>2 DEF AsksGrow
  <2> QED
    BY <1>1, <2>1 DEF Same, AreNumbers
<1>5. Balanced(ts, l, us, ss, Append(cs, c), hs)
  BY <1>4 DEF Counts, Balanced
<1> QED
  BY <1>3, <1>5 DEF Counts

IsSubmission(c, n) == c.command = "submit" /\ c.kind = "conversation" /\ c.id = n

LEMMA StartedLedger ==
  ASSUME NEW l \in Ledgers
  PROVE  TurnStarted(l) \in Ledgers
         /\ TurnStarted(l) = [turns |-> l.turns + 1, worker |-> l.worker, agent |-> l.agent]
BY DEF TurnStarted, Ledgers

LEMMA SubmissionIsSent ==
  ASSUME NEW ts, NEW l, NEW us, NEW ss, NEW cs, NEW hs, NEW n,
         Counts(ts, l, us, ss, cs, hs, n), NEW c, IsSubmission(c, n)
  PROVE  Counts(ts, TurnStarted(l), us, ss, Append(cs, c), hs, n + 1)
<1> DEFINE k == TurnStarted(l)
<1>1. AreNumbers(ts, l, us, ss, cs, hs) /\ Balanced(ts, l, us, ss, cs, hs) /\ n \in Nat
  BY Numbers DEF Counts, IdsDiffer
<1>2. AsksGrow(cs, Append(cs, c), c)
  BY <1>1, AskAdded DEF AreNumbers
<1>3. IsCommand(c) /\ CommandMark(c) = "conversation" /\ n + 1 \in {n, n + 1} /\ c.id = n
  BY DEF IsSubmission, IsCommand, CommandMark
<1>4. Channels(us, ss, Append(cs, c), hs) /\ IdsDiffer(ts, Append(cs, c), hs, n + 1)
  BY <1>1, <1>3, ChannelsGrow, RequestAdded DEF Counts, AreNumbers
<1>5. Times(Asks(Append(cs, c)), 0, "conversation") = Times(Asks(cs), 0, "conversation") + 1
  <2>1. Times(Asks(Append(cs, c)), 0, "conversation")
          = Times(Asks(cs), 0, "conversation") + Same(CommandMark(c), "conversation")
    BY <1>2 DEF AsksGrow
  <2> QED
    BY <1>1, <1>3, <2>1 DEF Same, AreNumbers
<1>6. k \in Ledgers /\ k = [turns |-> l.turns + 1, worker |-> l.worker, agent |-> l.agent]
  BY StartedLedger DEF Counts
<1> HIDE DEF k
<1>7. Balanced(ts, k, us, ss, Append(cs, c), hs)
  <2>1. Agree(Cardinality(Talks(ts)), Cardinality(Live(ts)), Times(Reports(us), 0, "worker"),
              Times(Reports(us), 0, "rejected"), Times(Reports(us), 0, "steer_promoted"),
              Times(Events(ss), 0, "terminal"), Times(Asks(cs), 0, "conversation") + 1,
              Len(hs), l.turns + 1, l.worker, l.agent)
    BY <1>1, SubmitSums DEF Balanced, AreNumbers
  <2> QED
    BY <1>5, <1>6, <2>1 DEF Balanced
<1> QED
  BY <1>4, <1>6, <1>7 DEF Counts, k

(* A pane that counts no turn holds nothing back.                          *)
LEMMA NothingHeld ==
  ASSUME NEW ts, NEW l, NEW us, NEW ss, NEW cs, NEW hs, NEW n,
         Counts(ts, l, us, ss, cs, hs, n), l.turns = 0
  PROVE  hs = << >>
<1>1. AreNumbers(ts, l, us, ss, cs, hs) /\ Balanced(ts, l, us, ss, cs, hs)
  BY Numbers DEF Counts
<1>2. Times(Reports(us), 0, "steer_promoted")
        <= Cardinality(Talks(ts)) + Times(Reports(us), 0, "worker")
  BY <1>1 DEF Counts, ToldInOrder, AreNumbers
<1>3. Len(hs) = 0
  <2> DEFINE t == Cardinality(Talks(ts))
             w == Times(Reports(us), 0, "worker")
             p == Times(Reports(us), 0, "steer_promoted")
             r == Times(Reports(us), 0, "rejected")
             q == Times(Asks(cs), 0, "conversation")
             h == Len(hs)
  <2>1. /\ t \in Nat /\ w \in Nat /\ p \in Nat /\ r \in Nat /\ q \in Nat /\ h \in Nat
        /\ l.worker \in Nat /\ p <= t + w
    BY <1>1, <1>2 DEF AreNumbers
  <2>2. l.turns + p = t + w + l.worker + q + h + r
    BY <1>1 DEF Balanced, Agree
  <2> HIDE DEF t, w, p, r, q, h
  <2>3. h = 0
    BY <2>1, <2>2
  <2> QED
    BY <2>3 DEF h
<1> QED
  BY <1>1, <1>3, SequenceIs DEF AreNumbers

LEMMA SubmissionIsHeld ==
  ASSUME NEW ts, NEW l, NEW us, NEW ss, NEW cs, NEW hs, NEW n,
         Counts(ts, l, us, ss, cs, hs, n), l.turns = 0, NEW c, IsSubmission(c, n)
  PROVE  Counts(ts, TurnStarted(l), us, ss, cs, <<c>>, n + 1)
<1> DEFINE k == TurnStarted(l)
<1>1. AreNumbers(ts, l, us, ss, cs, hs) /\ Balanced(ts, l, us, ss, cs, hs)
  BY Numbers DEF Counts
<1>2. hs = << >> /\ Len(hs) = 0
  BY NothingHeld, EmptyIsSequence
<1>3. Channels(us, ss, cs, <<c>>)
  BY OneIsSequence DEF Counts, Channels, IsSubmission
<1>4. IdsDiffer(ts, cs, <<c>>, n + 1)
  BY <1>2, RequestHeld DEF Counts, IsSubmission
<1>5. k \in Ledgers /\ k = [turns |-> l.turns + 1, worker |-> l.worker, agent |-> l.agent]
  BY StartedLedger DEF Counts
<1> HIDE DEF k
<1>6. Balanced(ts, k, us, ss, cs, <<c>>)
  <2>1. Agree(Cardinality(Talks(ts)), Cardinality(Live(ts)), Times(Reports(us), 0, "worker"),
              Times(Reports(us), 0, "rejected"), Times(Reports(us), 0, "steer_promoted"),
              Times(Events(ss), 0, "terminal"), Times(Asks(cs), 0, "conversation"),
              Len(hs) + 1, l.turns + 1, l.worker, l.agent)
    BY <1>1, SubmitSums DEF Balanced, AreNumbers
  <2>2. Len(<<c>>) = Len(hs) + 1
    BY <1>2, OneIsSequence
  <2> QED
    BY <1>5, <2>1, <2>2 DEF Balanced
<1> QED
  BY <1>3, <1>4, <1>5, <1>6 DEF Counts, k

(* What was held back goes.                                                *)
LEMMA HeldIsSent ==
  ASSUME NEW ts, NEW l, NEW us, NEW ss, NEW cs, NEW hs, NEW n,
         Counts(ts, l, us, ss, cs, hs, n)
  PROVE  Counts(ts, l, us, ss, cs \o hs, << >>, n)
<1>1. AreNumbers(ts, l, us, ss, cs, hs) /\ Balanced(ts, l, us, ss, cs, hs)
  BY Numbers DEF Counts
<1>2. CASE hs = << >>
  <2>1. cs \o hs = cs
    BY <1>1, <1>2 DEF AreNumbers, IsSequence
  <2> QED
    BY <1>2, <2>1
<1>3. CASE hs # << >>
  <2> DEFINE c == hs[1]
  <2>1. /\ Len(hs) = 1 /\ IsSequence(hs) /\ 1 \in DOMAIN hs
        /\ c.command = "submit" /\ c.kind = "conversation"
    BY <1>3, SequenceIs DEF Counts, Channels
  <2>2. cs \o hs = Append(cs, c)
    <3> DEFINE A == {cs[i] : i \in DOMAIN cs} \cup {hs[i] : i \in DOMAIN hs}
    <3>1. cs \in Seq(A) /\ hs \in Seq(A)
      BY <1>1 DEF AreNumbers, IsSequence
    <3>2. c \in A
      BY <2>1
    <3> HIDE DEF A
    <3>3. hs = <<c>>
      BY <2>1, <3>1
    <3> QED
      BY <3>1, <3>2, <3>3, AppendIsConcat
  <2> HIDE DEF c
  <2>3. IsCommand(c) /\ CommandMark(c) = "conversation"
    BY <2>1 DEF IsCommand, CommandMark
  <2>4. Channels(us, ss, Append(cs, c), << >>)
    <3>1. Channels(us, ss, Append(cs, c), hs)
      BY <2>3, ChannelsGrow DEF Counts
    <3> QED
      BY <3>1, EmptyIsSequence DEF Channels
  <2>5. IdsDiffer(ts, Append(cs, c), << >>, n)
    BY <1>1, <2>1, RequestReleased DEF Counts, AreNumbers, c
  <2>6. Times(Asks(Append(cs, c)), 0, "conversation") = Times(Asks(cs), 0, "conversation") + Len(hs)
    <3>1. AsksGrow(cs, Append(cs, c), c)
      BY <1>1, AskAdded DEF AreNumbers
    <3>2. Times(Asks(Append(cs, c)), 0, "conversation")
            = Times(Asks(cs), 0, "conversation") + Same(CommandMark(c), "conversation")
      BY <3>1 DEF AsksGrow
    <3> QED
      BY <2>1, <2>3, <3>2 DEF Same
  <2>7. Balanced(ts, l, us, ss, Append(cs, c), << >>)
    <3>1. Agree(Cardinality(Talks(ts)), Cardinality(Live(ts)), Times(Reports(us), 0, "worker"),
                Times(Reports(us), 0, "rejected"), Times(Reports(us), 0, "steer_promoted"),
                Times(Events(ss), 0, "terminal"),
                Times(Asks(cs), 0, "conversation") + Len(hs), 0, l.turns, l.worker, l.agent)
      BY <1>1, SubmitSums DEF Balanced, AreNumbers
    <3> QED
      BY <2>6, <3>1, EmptyIsSequence DEF Balanced
  <2> QED
    BY <2>2, <2>4, <2>5, <2>7 DEF Counts
<1> QED
  BY <1>2, <1>3
-----------------------------------------------------------------------------
(* The worker and the agent.                                               *)
PaneRests == UNCHANGED <<ledger, held, next_turn>>

(* A turn whose steers change goes on.                                     *)
WithSteers(turn, s, a) ==
  [kind |-> turn.kind, phase |-> turn.phase, steers |-> s, applied |-> a]

LEMMA SteersChange ==
  ASSUME NEW ts, AreTurns(ts), NEW new, DOMAIN new = DOMAIN ts,
         new = [u \in DOMAIN new |-> new[u]],
         \A u \in DOMAIN ts :
           new[u] = ts[u] \/ \E s, a : new[u] = WithSteers(ts[u], s, a)
  PROVE  AreTurns(new) /\ \A u \in DOMAIN ts : GoesOn(new[u], ts[u])
<1>1. ASSUME NEW u \in DOMAIN ts PROVE IsTurn(new[u]) /\ GoesOn(new[u], ts[u])
  <2>1. IsTurn(ts[u])
    BY DEF AreTurns
  <2>2. CASE new[u] = ts[u]
    BY <2>1, <2>2 DEF GoesOn
  <2>3. ASSUME NEW s, NEW a, new[u] = WithSteers(ts[u], s, a)
        PROVE  IsTurn(new[u]) /\ GoesOn(new[u], ts[u])
    BY <2>1, <2>3 DEF IsTurn, GoesOn, WithSteers
  <2> QED
    BY <2>2, <2>3
<1> QED
  BY <1>1 DEF AreTurns

LEMMA AppliesCounts ==
  ASSUME CountInv, PaneRests, NEW t \in DOMAIN turns, Applies(t) PROVE CountInv'
<1>1. AreTurns(turns) /\ Counts(turns, ledger, updates, stream, commands, held, next_turn)
  BY DEF CountInv, Counts
<1>2. /\ AreTurns(turns') /\ DOMAIN turns' = DOMAIN turns
      /\ \A u \in DOMAIN turns : GoesOn(turns'[u], turns[u])
  <2> DEFINE s == Tail(turns[t].steers)
             a == turns[t].applied \cup {Head(turns[t].steers)}
  <2>1. turns' = [turns EXCEPT ![t].steers = s, ![t].applied = a]
    BY DEF Applies
  <2>2. turns = [u \in DOMAIN turns |-> turns[u]] /\ IsTurn(turns[t])
    BY <1>1 DEF AreTurns
  <2> HIDE DEF s, a
  <2>3. /\ DOMAIN turns' = DOMAIN turns /\ turns' = [u \in DOMAIN turns' |-> turns'[u]]
        /\ \A u \in DOMAIN turns : u # t => turns'[u] = turns[u]
        /\ turns'[t] = [[turns[t] EXCEPT !.steers = s] EXCEPT !.applied = a]
    BY <2>1, <2>2
  <2>4. turns'[t] = WithSteers(turns[t], s, a)
    BY <2>2, <2>3 DEF IsTurn, WithSteers
  <2> QED
    BY <1>1, <2>3, <2>4, SteersChange
<1>3. UNCHANGED <<ledger, updates, commands, held, next_turn>>
  BY DEF Applies, PaneRests
<1>4. CASE UNCHANGED stream
  BY <1>1, <1>2, <1>3, <1>4, GoingOnCounts DEF CountInv
<1>5. ASSUME NEW e, stream' = Append(stream, e), e.event = "steered" PROVE CountInv'
  <2>1. Talks(turns') = Talks(turns) /\ Live(turns') = Live(turns)
    BY <1>2, TurnsGoOn
  <2>2. Cardinality(Live(turns)) \in Nat
    BY <1>1, Numbers DEF AreNumbers
  <2>3. /\ Cardinality(Talks(turns')) = Cardinality(Talks(turns))
        /\ Cardinality(Live(turns)) = Cardinality(Live(turns')) + Same(e.event, "terminal")
    BY <1>5, <2>1, <2>2 DEF Same
  <2> QED
    BY <1>1, <1>2, <1>3, <1>5, <2>3, EventIsCounted DEF CountInv
<1> QED
  BY <1>4, <1>5 DEF Applies

LEMMA EndsCounts ==
  ASSUME CountInv, PaneRests, NEW t \in DOMAIN turns, Ends(t) PROVE CountInv'
<1>1. /\ AreTurns(turns) /\ IsFiniteSet(DOMAIN turns)
      /\ Counts(turns, ledger, updates, stream, commands, held, next_turn)
  BY DEF CountInv, Counts, IdsDiffer
<1>2. /\ AreTurns(turns') /\ DOMAIN turns' = DOMAIN turns
      /\ Cardinality(Talks(turns)) = Cardinality(Talks(turns'))
      /\ Cardinality(Live(turns))
           = Cardinality(Live(turns')) + Same(turns[t].kind, "conversation")
  <2>1. turns[t].phase # "over" /\ turns' = WithOver(turns, t)
    BY DEF Ends, WithOver
  <2> QED
    BY <1>1, <2>1, TurnOver
<1>3. UNCHANGED <<ledger, updates, commands, held, next_turn>>
  BY DEF Ends, PaneRests
<1>4. CASE turns[t].kind = "conversation"
  <2> DEFINE e == [event |-> "terminal"]
  <2>1. stream' = Append(stream, e) /\ Same(turns[t].kind, "conversation") = Same(e.event, "terminal")
    BY <1>4 DEF Ends, Same
  <2> HIDE DEF e
  <2> QED
    BY <1>1, <1>2, <1>3, <2>1, EventIsCounted DEF CountInv
<1>5. CASE turns[t].kind # "conversation"
  <2>1. stream' = stream
    BY <1>5 DEF Ends
  <2>2. \A u \in DOMAIN turns : GoesOn(turns'[u], turns[u]) \/ turns[u].kind # "conversation"
    BY <1>1, <1>5 DEF Ends, GoesOn, AreTurns
  <2>3. \A u \in DOMAIN turns : turns'[u].kind = turns[u].kind
    BY <1>1 DEF Ends, AreTurns, IsTurn
  <2>4. Talks(turns') = Talks(turns) /\ Live(turns') = Live(turns)
    BY <1>2, <2>2, <2>3 DEF Talks, Live, GoesOn
  <2>5. Balanced(turns', ledger, updates, stream, commands, held) /\ ToldInOrder(turns', updates)
    BY <1>1, <2>4 DEF Counts, Balanced, ToldInOrder
  <2>6. IdsDiffer(turns', commands, held, next_turn)
    BY <1>1, <1>2, FewerTurns DEF Counts
  <2> QED
    BY <1>1, <1>2, <1>3, <2>1, <2>5, <2>6 DEF CountInv, Counts
<1> QED
  BY <1>4, <1>5

LEMMA FinishTurnCounts ==
  ASSUME CountInv, PaneRests, NEW t \in DOMAIN turns, FinishTurn(t) PROVE CountInv'
<1>1. /\ AreTurns(turns) /\ IsFiniteSet(DOMAIN turns)
      /\ Counts(turns, ledger, updates, stream, commands, held, next_turn)
  BY DEF CountInv, Counts, IdsDiffer
<1>2. /\ AreTurns(turns') /\ DOMAIN turns' = DOMAIN turns \ {t} /\ IsFiniteSet(DOMAIN turns')
      /\ Cardinality(Talks(turns))
           = Cardinality(Talks(turns')) + Same(turns[t].kind, "conversation")
      /\ Cardinality(Live(turns)) = Cardinality(Live(turns'))
  BY <1>1, TurnRemoved DEF FinishTurn
<1>3. UNCHANGED <<ledger, stream, commands, held, next_turn>>
  BY DEF FinishTurn, PaneRests
<1>4. IdsDiffer(turns', commands, held, next_turn)
  BY <1>1, <1>2, FewerTurns DEF Counts
<1>5. AreNumbers(turns, ledger, updates, stream, commands, held)
  BY <1>1, Numbers
<1>6. Cardinality(Talks(turns')) \in Nat
  BY <1>2, TurnsAreFinite
<1>7. CASE turns[t].kind = "conversation"
  <2> DEFINE u == [event |-> "finished", end |-> "worker"]
  <2>1. updates' = Append(updates, u)
    BY <1>7 DEF FinishTurn, Report
  <2>2. IsReport(u) /\ ReportMark(u) = "worker"
    BY DEF IsReport, ReportMark
  <2> HIDE DEF u
  <2>3. Same(ReportMark(u), "worker") = 1 /\ Same(ReportMark(u), "steer_promoted") = 0
    BY <2>2 DEF Same
  <2>4. /\ Cardinality(Talks(turns')) + Same(ReportMark(u), "worker")
             = Cardinality(Talks(turns)) + Same(ReportMark(u), "steer_promoted")
        /\ Cardinality(Live(turns'))
             = Cardinality(Live(turns)) + Same(ReportMark(u), "steer_promoted")
    BY <1>2, <1>5, <1>6, <1>7, <2>3 DEF Same, AreNumbers
  <2>5. ReportMark(u) # "rejected"
    BY <2>2
  <2> QED
    BY <1>1, <1>2, <1>3, <1>4, <2>1, <2>2, <2>4, <2>5, ReportIsCounted DEF CountInv
<1>8. CASE turns[t].kind # "conversation"
  <2>1. updates' = updates
    BY <1>8 DEF FinishTurn
  <2>2. Cardinality(Talks(turns)) = Cardinality(Talks(turns'))
    BY <1>2, <1>6, <1>8 DEF Same
  <2>3. /\ Balanced(turns', ledger, updates, stream, commands, held)
        /\ ToldInOrder(turns', updates)
    BY <1>1, <1>2, <2>2 DEF Counts, Balanced, ToldInOrder
  <2> QED
    BY <1>1, <1>2, <1>3, <1>4, <2>1, <2>3 DEF CountInv, Counts
<1> QED
  BY <1>7, <1>8

LEMMA CompactionCounts ==
  ASSUME CountInv, PaneRests, CompactionEnds \/ FinishCompaction PROVE CountInv'
<1>1. Counts(turns, ledger, updates, stream, commands, held, next_turn)
  BY DEF CountInv
<1>2. CASE CompactionEnds
  BY <1>2 DEF CompactionEnds, PaneRests, CountInv
<1>3. CASE FinishCompaction
  <2> DEFINE u == [event |-> "compacted"]
  <2>1. Counts(turns, ledger, Append(updates, u), stream, commands, held, next_turn)
    BY <1>1, QuietReport
  <2> QED
    BY <1>3, <2>1 DEF FinishCompaction, Report, PaneRests, CountInv
<1> QED
  BY <1>2, <1>3

(* A command that is no submission leaves the channel.                     *)
LEMMA HandledCounts ==
  ASSUME CountInv, NEW command, Handles(command), command # "submit",
         command # "conversation"
  PROVE  /\ Counts(turns, ledger, updates, stream, Tail(commands), held, next_turn)
         /\ commands' = Tail(commands) /\ commands # << >> /\ Head(commands).command = command
BY RequestIsTaken DEF Handles, CountInv, CommandMark

LEMMA CancelAllCounts ==
  ASSUME CountInv, PaneRests, CancelAll PROVE CountInv'
<1>1. /\ Counts(turns, ledger, updates, stream, Tail(commands), held, next_turn)
      /\ commands' = Tail(commands)
  BY HandledCounts DEF CancelAll
<1>2. AreTurns(turns)
  BY <1>1 DEF Counts
<1>3. /\ DOMAIN turns' = DOMAIN turns
      /\ turns' = [t \in DOMAIN turns' |-> turns'[t]]
      /\ \A t \in DOMAIN turns :
           turns'[t] = IF turns[t].phase = "running" THEN [turns[t] EXCEPT !.phase = "stopping"]
                       ELSE turns[t]
  BY DEF CancelAll
<1>4. ASSUME NEW t \in DOMAIN turns PROVE IsTurn(turns'[t]) /\ GoesOn(turns'[t], turns[t])
  BY <1>2, <1>3 DEF AreTurns, IsTurn, GoesOn
<1>5. AreTurns(turns')
  BY <1>3, <1>4 DEF AreTurns
<1>6. Counts(turns', ledger, updates, stream, Tail(commands), held, next_turn)
  BY <1>1, <1>3, <1>4, <1>5, GoingOnCounts
<1> DEFINE u == [event |-> "turns_cancelled"]
<1>7. Counts(turns', ledger, Append(updates, u), stream, Tail(commands), held, next_turn)
  BY <1>6, QuietReport
<1> QED
  BY <1>1, <1>7 DEF CancelAll, Report, PaneRests, CountInv

LEMMA CompactCounts ==
  ASSUME CountInv, PaneRests, Compact PROVE CountInv'
<1>1. /\ Counts(turns, ledger, updates, stream, Tail(commands), held, next_turn)
      /\ commands' = Tail(commands)
  BY HandledCounts DEF Compact
<1> DEFINE u == [event |-> "compacted"]
<1>2. Counts(turns, ledger, Append(updates, u), stream, Tail(commands), held, next_turn)
  BY <1>1, QuietReport
<1> QED
  BY <1>1, <1>2 DEF Compact, Report, PaneRests, CountInv

LEMMA SteerCounts ==
  ASSUME CountInv, PaneRests, Steer PROVE CountInv'
<1>1. /\ Counts(turns, ledger, updates, stream, Tail(commands), held, next_turn)
      /\ commands' = Tail(commands) /\ commands # << >> /\ Head(commands).command = "steer"
  BY HandledCounts DEF Steer
<1>2. UNCHANGED <<ledger, held, next_turn, stream>>
  BY DEF Steer, PaneRests
<1> DEFINE text  == Head(commands).text
           u(event) == [event |-> event, text |-> text]
<1>3. CASE UNCHANGED turns /\ updates' = Append(updates, u("steer_failed"))
  <2>1. Counts(turns, ledger, Append(updates, u("steer_failed")), stream, Tail(commands), held,
               next_turn)
    BY <1>1, QuietReport
  <2> QED
    BY <1>1, <1>2, <1>3, <2>1 DEF CountInv
<1>4. ASSUME NEW t, NEW s, turns' = [turns EXCEPT ![t].steers = s],
             updates' = Append(updates, u("steer_admitted"))
      PROVE  CountInv'
  <2>1. /\ AreTurns(turns') /\ DOMAIN turns' = DOMAIN turns
        /\ \A x \in DOMAIN turns : GoesOn(turns'[x], turns[x])
    <3>1. AreTurns(turns)
      BY <1>1 DEF Counts
    <3>2. /\ DOMAIN turns' = DOMAIN turns /\ turns' = [x \in DOMAIN turns' |-> turns'[x]]
          /\ \A x \in DOMAIN turns : turns'[x] = turns[x] \/ turns'[x] = [turns[x] EXCEPT !.steers = s]
      BY <1>4, <3>1 DEF AreTurns
    <3>3. ASSUME NEW x \in DOMAIN turns, turns'[x] = [turns[x] EXCEPT !.steers = s]
          PROVE  turns'[x] = WithSteers(turns[x], s, turns[x].applied)
      <4>1. IsTurn(turns[x])
        BY <3>1 DEF AreTurns
      <4> QED
        BY <3>3, <4>1 DEF IsTurn, WithSteers
    <3> QED
      BY <3>1, <3>2, <3>3, SteersChange
  <2>2. Counts(turns', ledger, updates, stream, Tail(commands), held, next_turn)
    BY <1>1, <2>1, GoingOnCounts
  <2>3. Counts(turns', ledger, Append(updates, u("steer_admitted")), stream, Tail(commands), held,
               next_turn)
    BY <2>2, QuietReport
  <2> QED
    BY <1>1, <1>2, <1>4, <2>3 DEF CountInv
<1>5. CASE /\ turns' = WithTurn(Head(commands).id, "conversation")
           /\ updates' = Append(updates, u("steer_promoted"))
  <2>1. turns' = Joined(turns, Head(commands).id, "conversation")
    BY <1>5 DEF WithTurn, Joined
  <2>2. Counts(turns', ledger, Append(updates, u("steer_promoted")), stream, Tail(commands), held,
               next_turn)
    BY <1>1, <2>1, SteerStarts DEF CountInv
  <2> QED
    BY <1>1, <1>2, <1>5, <2>2 DEF CountInv
<1> QED
  BY <1>3, <1>4, <1>5 DEF Steer, Report

LEMMA SubmitCounts ==
  ASSUME CountInv, PaneRests, Submit PROVE CountInv'
<1> DEFINE request == Head(commands)
           u == [event |-> "finished", end |-> "rejected"]
<1>1. /\ Counts(turns, ledger, updates, stream, commands, held, next_turn)
      /\ commands' = Tail(commands) /\ commands # << >> /\ request.command = "submit"
      /\ UNCHANGED <<ledger, held, next_turn, stream>>
  BY DEF Submit, Handles, PaneRests, CountInv
<1>2. request.kind \in {"conversation", "auxiliary"}
  BY <1>1, ChannelsShrink DEF Counts, IsCommand
<1>3. CASE turns' = WithTurn(request.id, request.kind) /\ UNCHANGED updates
  <2>1. turns' = Joined(turns, request.id, request.kind)
    BY <1>3 DEF WithTurn, Joined
  <2>2. Counts(turns', ledger, updates, stream, Tail(commands), held, next_turn)
    BY <1>1, <1>2, <2>1, SubmissionStarts, AuxiliaryStarts
  <2> QED
    BY <1>1, <1>3, <2>2 DEF CountInv
<1>4. CASE UNCHANGED turns /\ request.kind = "conversation" /\ updates' = Append(updates, u)
  <2>1. Counts(turns, ledger, Append(updates, u), stream, Tail(commands), held, next_turn)
    BY <1>1, <1>4, SubmissionIsRejected
  <2> QED
    BY <1>1, <1>4, <2>1 DEF CountInv
<1>5. CASE UNCHANGED turns /\ request.kind = "auxiliary" /\ UNCHANGED updates
  <2>1. Counts(turns, ledger, updates, stream, Tail(commands), held, next_turn)
    BY <1>1, <1>5, RequestIsTaken DEF CommandMark
  <2> QED
    BY <1>1, <1>5, <2>1 DEF CountInv
<1> QED
  BY <1>2, <1>3, <1>4, <1>5 DEF Submit, Report

LEMMA WorkerCounts ==
  ASSUME CountInv, WorkerSteps PROVE CountInv'
<1>1. PaneRests /\ WorkerNext
  BY DEF WorkerSteps, PaneRests, paneVars
<1> QED
  BY <1>1, SubmitCounts, SteerCounts, CancelAllCounts, CompactCounts, CompactionCounts,
     FinishTurnCounts, AppliesCounts, EndsCounts DEF WorkerNext
-----------------------------------------------------------------------------
(* The pane.                                                               *)
LEMMA SubmitsCounts ==
  ASSUME NEW l, NEW us, NEW ss, Counts(turns, l, us, ss, commands, held, next_turn),
         l.turns = 0, NEW texts, Submits(texts),
         turns' = turns, ledger' = TurnStarted(l), updates' = us, stream' = ss
  PROVE  CountInv'
<1> DEFINE c == Submission(texts)
<1>1. IsSubmission(c, next_turn)
  BY DEF Submission, IsSubmission
<1>2. next_turn' = next_turn + 1
  BY DEF Submits
<1> HIDE DEF c
<1>3. CASE shells > 0
  <2>1. commands' = commands /\ held' = <<c>>
    BY <1>3 DEF Submits, c
  <2>2. Counts(turns, TurnStarted(l), us, ss, commands, <<c>>, next_turn + 1)
    BY <1>1, SubmissionIsHeld
  <2> QED
    BY <1>2, <2>1, <2>2 DEF CountInv
<1>4. CASE ~(shells > 0)
  <2>1. commands' = Append(commands, c) /\ held' = held
    BY <1>4 DEF Submits, c
  <2>2. Counts(turns, TurnStarted(l), us, ss, Append(commands, c), held, next_turn + 1)
    BY <1>1, SubmissionIsSent
  <2> QED
    BY <1>2, <2>1, <2>2 DEF CountInv
<1> QED
  BY <1>3, <1>4

LEMMA NoTurnRuns ==
  ASSUME NEW ts, NEW l, NEW us, NEW ss, NEW cs, NEW hs, NEW n,
         Counts(ts, l, us, ss, cs, hs, n), ~TurnRunning(l)
  PROVE  l.turns = 0
BY DEF Counts, Ledgers, TurnRunning

LEMMA SubmitNextCounts ==
  ASSUME NEW q, NEW l, NEW us, NEW ss, Counts(turns, l, us, ss, commands, held, next_turn),
         SubmitNextQueued(q, l), turns' = turns, updates' = us, stream' = ss
  PROVE  CountInv'
<1>1. CASE ledger' = l /\ SendsNothing
  BY <1>1 DEF SendsNothing, CountInv
<1>2. ASSUME NEW texts, Submits(texts), ledger' = TurnStarted(l), ~HoldsQueue(q, l)
      PROVE  CountInv'
  <2>1. l.turns = 0
    BY <1>2, NoTurnRuns DEF HoldsQueue
  <2> QED
    BY <1>2, <2>1, SubmitsCounts
<1> QED
  BY <1>1, <1>2 DEF SubmitNextQueued

LEMMA SteersCounts ==
  ASSUME CountInv, NEW text, commands' = Append(commands, SteerCommand(text)),
         next_turn' = next_turn + 1, UNCHANGED <<turns, updates, stream, ledger, held>>
  PROVE  CountInv'
<1> DEFINE c == SteerCommand(text)
<1>1. IsCommand(c) /\ CommandMark(c) # "conversation" /\ c.id = next_turn
  BY DEF SteerCommand, IsCommand, CommandMark
<1>2. next_turn + 1 \in {next_turn, next_turn + 1}
  OBVIOUS
<1> HIDE DEF c
<1>3. Counts(turns, ledger, updates, stream, Append(commands, c), held, next_turn + 1)
  BY <1>1, <1>2, CommandIsSent DEF CountInv
<1> QED
  BY <1>3 DEF CountInv, c

LEMMA EnterCounts ==
  ASSUME CountInv, NEW steer \in BOOLEAN, Enter(steer) PROVE CountInv'
<1> DEFINE id == entered + 1
<1>1. UNCHANGED <<turns, updates, stream>>
  BY DEF Enter, Others
<1>2. CASE /\ ~Busy /\ ledger' = TurnStarted(ledger) /\ Submits({id})
  <2>1. ledger.turns = 0
    BY <1>2, NoTurnRuns DEF Busy, CountInv
  <2> QED
    BY <1>1, <1>2, <2>1, SubmitsCounts DEF CountInv
<1>3. CASE Steers(Pushed(queue, id), id)
  BY <1>1, <1>3, SteersCounts DEF Steers
<1>4. CASE SendsNothing /\ UNCHANGED ledger
  BY <1>1, <1>4 DEF SendsNothing, CountInv
<1> QED
  BY <1>2, <1>3, <1>4 DEF Enter

LEMMA QueueCounts ==
  ASSUME CountInv, NEW id \in IdsOf(queue),
         \/ SteerQueued(id) \/ Delete(id) \/ BeginEdit(id)
         \/ \E blank \in BOOLEAN : FinishEdit(id, blank)
  PROVE  CountInv'
<1>1. CASE SteerQueued(id)
  BY <1>1, SteersCounts DEF SteerQueued, Steers, Others
<1>2. CASE Delete(id) \/ BeginEdit(id)
  BY <1>2 DEF Delete, BeginEdit, workerVars, CountInv
<1>3. ASSUME NEW blank \in BOOLEAN, FinishEdit(id, blank) PROVE CountInv'
  <2> DEFINE q == IF blank THEN Removed(queue, id) ELSE Marked(queue, id, "queued")
  <2>1. SubmitNextQueued(q, ledger) /\ UNCHANGED <<turns, updates, stream>>
    BY <1>3 DEF FinishEdit, Others
  <2> HIDE DEF q
  <2> QED
    BY <2>1, SubmitNextCounts DEF CountInv
<1> QED
  BY <1>1, <1>2, <1>3

LEMMA OtherCommandsCount ==
  ASSUME CountInv, Interrupt \/ StartCompaction \/ LiveMessage \/ AuxiliaryRequest
  PROVE  CountInv'
<1>1. CASE Interrupt \/ StartCompaction
  <2>1. PICK c : /\ c.command \in {"cancel_all", "compact"}
                  /\ commands' = Append(commands, c)
    <3>1. [command |-> "cancel_all"].command = "cancel_all" /\ [command |-> "compact"].command = "compact"
      OBVIOUS
    <3>2. \/ commands' = Append(commands, [command |-> "cancel_all"])
          \/ commands' = Append(commands, [command |-> "compact"])
      BY <1>1 DEF Interrupt, StartCompaction
    <3> QED
      BY <3>1, <3>2
  <2>2. UNCHANGED <<turns, updates, stream, ledger, held, next_turn>>
    BY <1>1 DEF Interrupt, StartCompaction, Others
  <2>3. Counts(turns, ledger, updates, stream, Append(commands, c), held, next_turn)
    <3>1. IsCommand(c) /\ CommandMark(c) # "conversation" /\ ~IsRequest(c)
      BY <2>1 DEF IsCommand, CommandMark, IsRequest
    <3> QED
      BY <3>1, CommandIsSent DEF CountInv
  <2> QED
    BY <2>1, <2>2, <2>3 DEF CountInv
<1>2. CASE LiveMessage
  BY <1>2, SteersCounts DEF LiveMessage, Others
<1>3. CASE AuxiliaryRequest
  <2> DEFINE c == [command |-> "submit", kind |-> "auxiliary", id |-> next_turn, texts |-> {}]
  <2>1. /\ UNCHANGED <<turns, updates, stream, ledger, held>>
        /\ commands' = Append(commands, c) /\ next_turn' = next_turn + 1
    BY <1>3 DEF AuxiliaryRequest, Others
  <2>2. IsCommand(c) /\ CommandMark(c) # "conversation" /\ c.id = next_turn
    BY DEF IsCommand, CommandMark
  <2>3. next_turn + 1 \in {next_turn, next_turn + 1}
    OBVIOUS
  <2> HIDE DEF c
  <2>4. Counts(turns, ledger, updates, stream, Append(commands, c), held, next_turn + 1)
    BY <2>2, <2>3, CommandIsSent DEF CountInv
  <2> QED
    BY <2>1, <2>4 DEF CountInv
<1> QED
  BY <1>1, <1>2, <1>3

LEMMA ShellsCount ==
  ASSUME CountInv, RunShell \/ ShellFinished \/ ContinueSubagent PROVE CountInv'
<1>1. CASE RunShell
  BY <1>1 DEF RunShell, workerVars, CountInv
<1>2. CASE ShellFinished
  <2>1. Counts(turns, ledger, updates, stream, commands \o held, << >>, next_turn)
    BY HeldIsSent DEF CountInv
  <2>2. /\ UNCHANGED <<turns, ledger, updates, stream, next_turn>>
        /\ \/ commands' = commands \o held /\ held' = << >>
           \/ UNCHANGED <<commands, held>>
    BY <1>2 DEF ShellFinished, Others
  <2> QED
    BY <2>1, <2>2 DEF CountInv
<1>3. CASE ContinueSubagent
  <2>1. ledger.turns = 0
    BY <1>3, NoTurnRuns DEF ContinueSubagent, CountInv
  <2> QED
    BY <1>3, <2>1, SubmitsCounts DEF ContinueSubagent, Others, CountInv
<1> QED
  BY <1>1, <1>2, <1>3

(* A report of the worker reaches the pane.                                *)
LEMMA TakenReport ==
  ASSUME NEW event, Takes(event)
  PROVE  /\ updates # << >> /\ Head(updates).event = event /\ updates' = Tail(updates)
         /\ UNCHANGED <<turns, stream>>
BY DEF Takes, Others

LEMMA QuietReportTaken ==
  ASSUME CountInv, NEW event, Takes(event),
         event \notin {"finished", "worker", "rejected", "steer_promoted"}
  PROVE  Counts(turns, ledger, Tail(updates), stream, commands, held, next_turn)
<1>1. updates # << >> /\ ReportMark(Head(updates)) \notin {"worker", "rejected", "steer_promoted"}
  BY TakenReport DEF ReportMark
<1> QED
  BY <1>1, ReportIsTaken DEF CountInv

LEMMA TurnFinishedCounts ==
  ASSUME CountInv, OnTurnFinished PROVE CountInv'
<1> DEFINE end == Head(updates).end
           l   == EndRecorded(ledger, end)
<1>1. /\ updates # << >> /\ Head(updates).event = "finished" /\ updates' = Tail(updates)
      /\ UNCHANGED <<turns, stream>>
  BY TakenReport DEF OnTurnFinished
<1>2. end \in {"worker", "rejected"} /\ ReportMark(Head(updates)) = end
  BY <1>1, ChannelsShrink DEF CountInv, Counts, IsReport, ReportMark
<1>3. Counts(turns, l, Tail(updates), stream, commands, held, next_turn)
  BY <1>1, <1>2, ReportIsTaken DEF CountInv
<1>4. \/ SubmitNextQueued(queue, l)
      \/ ledger' = l /\ SendsNothing
  BY DEF OnTurnFinished
<1> HIDE DEF l
<1>5. CASE SubmitNextQueued(queue, l)
  BY <1>1, <1>3, <1>5, SubmitNextCounts
<1>6. CASE ledger' = l /\ SendsNothing
  BY <1>1, <1>3, <1>6 DEF SendsNothing, CountInv
<1> QED
  BY <1>4, <1>5, <1>6

LEMMA SteerReportsCount ==
  ASSUME CountInv, OnSteerAdmitted \/ OnSteerPromoted \/ OnSteerFailed PROVE CountInv'
<1>1. ASSUME NEW event \in {"steer_admitted", "steer_failed"}, Takes(event),
             NEW q, SubmitNextQueued(q, ledger)
      PROVE  CountInv'
  <2>1. Counts(turns, ledger, Tail(updates), stream, commands, held, next_turn)
    BY <1>1, QuietReportTaken
  <2> QED
    BY <1>1, <2>1, TakenReport, SubmitNextCounts
<1>2. CASE OnSteerPromoted
  <2>1. Takes("steer_promoted") /\ ledger' = TurnStarted(ledger) /\ SendsNothing
    BY <1>2 DEF OnSteerPromoted
  <2>2. updates # << >> /\ ReportMark(Head(updates)) = "steer_promoted"
    BY <2>1, TakenReport DEF ReportMark
  <2>3. Counts(turns, TurnStarted(ledger), Tail(updates), stream, commands, held, next_turn)
    BY <2>2, ReportIsTaken DEF CountInv
  <2> QED
    BY <2>1, <2>3, TakenReport DEF SendsNothing, CountInv
<1> QED
  BY <1>1, <1>2 DEF OnSteerAdmitted, OnSteerFailed

LEMMA OtherReportsCount ==
  ASSUME CountInv, OnTurnsCancelled \/ OnCompactionFinished PROVE CountInv'
<1>1. PICK event \in {"turns_cancelled", "compacted"} : Takes(event)
  BY DEF OnTurnsCancelled, OnCompactionFinished
<1>2. SendsNothing /\ UNCHANGED ledger
  BY DEF OnTurnsCancelled, OnCompactionFinished
<1>3. Counts(turns, ledger, Tail(updates), stream, commands, held, next_turn)
  BY <1>1, QuietReportTaken
<1> QED
  BY <1>1, <1>2, <1>3, TakenReport DEF SendsNothing, CountInv

LEMMA EventsCount ==
  ASSUME CountInv, OnSteered \/ OnTerminal PROVE CountInv'
<1>1. CASE OnSteered
  <2>1. /\ stream # << >> /\ Head(stream).event = "steered" /\ stream' = Tail(stream)
        /\ UNCHANGED <<turns, updates>>
        /\ SubmitNextQueued(SteerApplied(queue, Discards, interrupting), ledger)
    BY <1>1 DEF OnSteered
  <2>2. Counts(turns, ledger, updates, Tail(stream), commands, held, next_turn)
    BY <2>1, EventIsTaken DEF CountInv
  <2> QED
    BY <2>1, <2>2, SubmitNextCounts
<1>2. CASE OnTerminal
  <2> DEFINE l == EndRecorded(ledger, "terminal")
  <2>1. /\ stream # << >> /\ Head(stream).event = "terminal" /\ stream' = Tail(stream)
        /\ UNCHANGED <<turns, updates>>
        /\ SubmitNextQueued(queue, l) \/ (ledger' = l /\ SendsNothing)
    BY <1>2 DEF OnTerminal
  <2>2. Counts(turns, l, updates, Tail(stream), commands, held, next_turn)
    BY <2>1, EventIsTaken DEF CountInv
  <2> HIDE DEF l
  <2>3. CASE SubmitNextQueued(queue, l)
    BY <2>1, <2>2, <2>3, SubmitNextCounts
  <2>4. CASE ledger' = l /\ SendsNothing
    BY <2>1, <2>2, <2>4 DEF SendsNothing, CountInv
  <2> QED
    BY <2>1, <2>3, <2>4
<1> QED
  BY <1>1, <1>2

-----------------------------------------------------------------------------
LEMMA CountsAtFirst == Init => CountInv
<1> SUFFICES ASSUME Init PROVE CountInv
  OBVIOUS
<1>1. /\ turns = << >> /\ updates = << >> /\ stream = << >> /\ commands = << >> /\ held = << >>
      /\ ledger = NoTurns /\ next_turn = 1 /\ DOMAIN << >> = {} /\ Len(<< >>) = 0
  BY DEF Init, WorkerInit
<1>2. Channels(updates, stream, commands, held)
  BY <1>1, EmptyIsSequence DEF Channels
<1>3. IdsDiffer(turns, commands, held, next_turn)
  BY <1>1, FS_EmptySet DEF IdsDiffer
<1>4. Talks(turns) = {} /\ Live(turns) = {} /\ Cardinality({}) = 0
  BY <1>1, FS_EmptySet DEF Talks, Live
<1>5. /\ \A k, m : Times(Reports(<< >>), k, m) = 0
      /\ \A k, m : Times(Events(<< >>), k, m) = 0
      /\ \A k, m : Times(Asks(<< >>), k, m) = 0
  <2>1. /\ \A k, m : Places(Reports(<< >>), k, m) = {}
        /\ \A k, m : Places(Events(<< >>), k, m) = {}
        /\ \A k, m : Places(Asks(<< >>), k, m) = {}
    BY <1>1 DEF Places, Reports, Events, Asks
  <2> QED
    BY <1>4, <2>1 DEF Times
<1>6. ledger \in Ledgers /\ ledger.turns = 0 /\ ledger.worker = 0 /\ ledger.agent = 0
  BY <1>1 DEF NoTurns, Ledgers
<1>7. Balanced(turns, ledger, updates, stream, commands, held)
  <2>1. Agree(0, 0, 0, 0, 0, 0, 0, 0, 0, 0, 0)
    BY DEF Agree
  <2> QED
    BY <1>1, <1>4, <1>5, <1>6, <2>1 DEF Balanced
<1>8. ToldInOrder(turns, updates)
  BY <1>1, <1>4, <1>5 DEF ToldInOrder
<1>9. AreTurns(turns)
  <2>1. turns \in Seq({})
    BY <1>1
  <2>2. turns = [t \in DOMAIN turns |-> turns[t]]
    BY <2>1
  <2> QED
    BY <1>1, <2>2 DEF AreTurns
<1> QED
  BY <1>2, <1>3, <1>6, <1>7, <1>8, <1>9 DEF CountInv, Counts

LEMMA CountsGoOn == CountInv /\ [Next]_vars => CountInv'
<1> SUFFICES ASSUME CountInv, [Next]_vars PROVE CountInv'
  OBVIOUS
<1>1. CASE UNCHANGED vars
  BY <1>1 DEF vars, workerVars, paneVars, CountInv
<1>2. CASE Next
  BY <1>2, EnterCounts, QueueCounts, OtherCommandsCount, ShellsCount, TurnFinishedCounts,
     SteerReportsCount, OtherReportsCount, EventsCount, WorkerCounts DEF Next
<1> QED
  BY <1>1, <1>2

LEMMA CountsHold == Spec => []CountInv
BY CountsAtFirst, CountsGoOn, PTL DEF Spec

(* A mark stands where the signals are it marks.                            *)
LEMMA ReportPlaces ==
  ASSUME NEW us, IsSequence(us), \A i \in DOMAIN us : IsReport(us[i])
  PROVE  /\ \A end \in {"worker", "rejected"} : Places(Reports(us), 0, end) =
              {i \in DOMAIN us : us[i].event = "finished" /\ us[i].end = end}
         /\ Places(Reports(us), 0, "steer_promoted") =
              {i \in DOMAIN us : us[i].event = "steer_promoted"}
<1>1. DOMAIN us = 1 .. Len(us) /\ Len(us) \in Nat
  BY SequenceIs
<1>2. \A i \in DOMAIN us : i > 0
  BY <1>1
<1>3. ASSUME NEW i \in DOMAIN us
      PROVE  /\ \A end \in {"worker", "rejected"} :
                  ReportMark(us[i]) = end <=> us[i].event = "finished" /\ us[i].end = end
             /\ ReportMark(us[i]) = "steer_promoted" <=> us[i].event = "steer_promoted"
  BY DEF IsReport, ReportMark
<1> QED
  BY <1>2, <1>3 DEF Places, Reports

LEMMA EventPlaces ==
  ASSUME NEW ss, IsSequence(ss), NEW m
  PROVE  Places(Events(ss), 0, m) = {i \in DOMAIN ss : ss[i].event = m}
<1>1. \A i \in DOMAIN ss : i > 0
  BY SequenceIs
<1> QED
  BY <1>1 DEF Places, Events

LEMMA AskPlaces ==
  ASSUME NEW cs, IsSequence(cs), \A i \in DOMAIN cs : IsCommand(cs[i])
  PROVE  Places(Asks(cs), 0, "conversation") =
           {i \in DOMAIN cs : cs[i].command = "submit" /\ cs[i].kind = "conversation"}
<1>1. \A i \in DOMAIN cs : i > 0
  BY SequenceIs
<1>2. ASSUME NEW i \in DOMAIN cs
      PROVE  CommandMark(cs[i]) = "conversation" <=>
               cs[i].command = "submit" /\ cs[i].kind = "conversation"
  BY DEF IsCommand, CommandMark
<1> QED
  BY <1>1, <1>2 DEF Places, Asks

(* The turns a pane counts are those it started whose end it has not seen  *)
(* from both sides (components/root/turns.rs:19-29).                       *)
THEOREM TurnsCounted == Spec => []TurnsAreCounted
<1>1. ASSUME CountInv PROVE TurnsAreCounted
  <2>1. /\ Balanced(turns, ledger, updates, stream, commands, held)
        /\ Channels(updates, stream, commands, held)
    BY <1>1 DEF CountInv, Counts
  <2>2. Conversation = Talks(turns) /\ Conversation \ In("over") = Live(turns)
    BY DEF Conversation, In, Talks, Live
  <2>3. /\ Times(Reports(updates), 0, "worker") =
             Cardinality({i \in DOMAIN updates : updates[i].event = "finished" /\ updates[i].end = "worker"})
        /\ Times(Reports(updates), 0, "rejected") =
             Cardinality({i \in DOMAIN updates : updates[i].event = "finished" /\ updates[i].end = "rejected"})
        /\ Times(Reports(updates), 0, "steer_promoted") =
             Cardinality({i \in DOMAIN updates : updates[i].event = "steer_promoted"})
    <3>1. IsSequence(updates) /\ \A i \in DOMAIN updates : IsReport(updates[i])
      BY <2>1 DEF Channels
    <3>2. \A end \in {"worker", "rejected"} : Places(Reports(updates), 0, end) =
            {i \in DOMAIN updates : updates[i].event = "finished" /\ updates[i].end = end}
      BY <3>1, ReportPlaces
    <3>3. Places(Reports(updates), 0, "steer_promoted") =
            {i \in DOMAIN updates : updates[i].event = "steer_promoted"}
      BY <3>1, ReportPlaces
    <3> QED
      BY <3>2, <3>3 DEF Times
  <2>4. Times(Events(stream), 0, "terminal") =
          Cardinality({i \in DOMAIN stream : stream[i].event = "terminal"})
    <3>1. IsSequence(stream)
      BY <2>1 DEF Channels
    <3>2. Places(Events(stream), 0, "terminal") = {i \in DOMAIN stream : stream[i].event = "terminal"}
      BY <3>1, EventPlaces
    <3> QED
      BY <3>2 DEF Times
  <2>5. Times(Asks(commands), 0, "conversation") =
          Cardinality({i \in DOMAIN commands :
                         commands[i].command = "submit" /\ commands[i].kind = "conversation"})
    <3>1. IsSequence(commands) /\ \A i \in DOMAIN commands : IsCommand(commands[i])
      BY <2>1 DEF Channels
    <3>2. Places(Asks(commands), 0, "conversation") =
            {i \in DOMAIN commands :
               commands[i].command = "submit" /\ commands[i].kind = "conversation"}
      BY <3>1, AskPlaces
    <3> QED
      BY <3>2 DEF Times
  <2>6. Agree(Cardinality(Conversation), Cardinality(Conversation \ In("over")),
              Times(Reports(updates), 0, "worker"), Times(Reports(updates), 0, "rejected"),
              Times(Reports(updates), 0, "steer_promoted"), Times(Events(stream), 0, "terminal"),
              Times(Asks(commands), 0, "conversation"), Len(held),
              ledger.turns, ledger.worker, ledger.agent)
    BY <2>1, <2>2 DEF Balanced
  <2> QED
    BY <2>3, <2>4, <2>5, <2>6 DEF Agree, TurnsAreCounted, Pending
<1> QED
  BY <1>1, CountsHold, PTL
-----------------------------------------------------------------------------
LEMMA CompactsApart ==
  ASSUME AloneInv, WorkerNext PROVE AloneInv'
<1>1. ASSUME Submit \/ Steer PROVE AloneInv'
  <2>1. UNCHANGED compacting /\ (~Idle => UNCHANGED turns)
    BY <1>1 DEF Submit, Steer
  <2> QED
    BY <2>1 DEF AloneInv, Idle
<1>2. ASSUME CancelAll PROVE AloneInv'
  <2>1. /\ UNCHANGED compacting
        /\ turns' = [t \in DOMAIN turns |->
             IF turns[t].phase = "running" THEN [turns[t] EXCEPT !.phase = "stopping"]
             ELSE turns[t]]
    BY <1>2 DEF CancelAll
  <2>2. turns = << >> => turns' = << >>
    BY <2>1
  <2> QED
    BY <2>1, <2>2 DEF AloneInv
<1>3. CASE Compact
  BY <1>3 DEF Compact, MayCompact, AloneInv
<1>4. CASE FinishCompaction \/ CompactionEnds
  BY <1>4 DEF FinishCompaction, CompactionEnds, AloneInv
<1>5. ASSUME NEW t \in DOMAIN turns, FinishTurn(t) \/ Applies(t) \/ Ends(t) PROVE AloneInv'
  <2>1. turns # << >>
    OBVIOUS
  <2>2. UNCHANGED compacting
    BY <1>5 DEF FinishTurn, Applies, Ends
  <2> QED
    BY <2>1, <2>2 DEF AloneInv
<1> QED
  BY <1>1, <1>2, <1>3, <1>4, <1>5 DEF WorkerNext

LEMMA NoCompactionStarts ==
  ASSUME Next, ~WorkerSteps PROVE UNCHANGED <<turns, compacting>>
<1>1. ASSUME NEW steer \in BOOLEAN, Enter(steer) PROVE UNCHANGED <<turns, compacting>>
  BY <1>1 DEF Enter, Others
<1>2. ASSUME NEW id \in IdsOf(queue),
             \/ SteerQueued(id) \/ Delete(id) \/ BeginEdit(id)
             \/ \E blank \in BOOLEAN : FinishEdit(id, blank)
      PROVE  UNCHANGED <<turns, compacting>>
  BY <1>2 DEF SteerQueued, Delete, BeginEdit, FinishEdit, Others, workerVars
<1>3. CASE \/ Interrupt \/ StartCompaction \/ RunShell \/ ShellFinished
           \/ ContinueSubagent \/ LiveMessage \/ AuxiliaryRequest
  BY <1>3 DEF Interrupt, StartCompaction, RunShell, ShellFinished, ContinueSubagent,
     LiveMessage, AuxiliaryRequest, Others, workerVars
<1>4. CASE \/ OnTurnFinished \/ OnSteerAdmitted \/ OnSteerPromoted \/ OnSteerFailed
           \/ OnTurnsCancelled \/ OnCompactionFinished
  <2>1. PICK event : Takes(event)
    BY <1>4 DEF OnTurnFinished, OnSteerAdmitted, OnSteerPromoted, OnSteerFailed,
       OnTurnsCancelled, OnCompactionFinished
  <2> QED
    BY <2>1 DEF Takes, Others
<1>5. CASE OnSteered \/ OnTerminal
  BY <1>5 DEF OnSteered, OnTerminal
<1> QED
  BY <1>1, <1>2, <1>3, <1>4, <1>5 DEF Next

LEMMA AloneHolds == Spec => []AloneInv
<1>1. Init => AloneInv
  BY DEF Init, WorkerInit, AloneInv
<1>2. ASSUME AloneInv, [Next]_vars PROVE AloneInv'
  <2>1. CASE UNCHANGED vars
    BY <1>2, <2>1 DEF vars, workerVars, AloneInv
  <2>2. CASE WorkerSteps
    BY <1>2, <2>2, CompactsApart DEF WorkerSteps
  <2>3. CASE Next /\ ~WorkerSteps
    BY <1>2, <2>3, NoCompactionStarts DEF AloneInv
  <2> QED
    BY <1>2, <2>1, <2>2, <2>3
<1> QED
  BY <1>1, <1>2, PTL DEF Spec

(* A checkpoint of the conversation never races a turn of it: nothing      *)
(* starts a turn while the pane compacts (worker.rs:14-16).                *)
THEOREM CompactionRunsAlone == Spec => []CompactsAlone
<1>1. AloneInv => CompactsAlone
  BY DEF AloneInv, CompactsAlone
<1> QED
  BY <1>1, AloneHolds, PTL
=============================================================================
