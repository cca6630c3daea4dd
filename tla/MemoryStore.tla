---------------------------- MODULE MemoryStore -----------------------------
(***************************************************************************)
(* The local memory store of crates/memory/src/store/local.rs under the    *)
(* memory tool of tool.rs and the memory browser.  The store is one SQLite *)
(* database that every session of every process opens for each operation:  *)
(* an operation is one transaction, IMMEDIATE and hence exclusive, after   *)
(* the one that open makes.  A refused operation is rolled back.           *)
(*                                                                         *)
(* The tool's put with a key reads the old content in a transaction of its *)
(* own; Calls are such calls, which others overtake between the two.       *)
(* Retrieval ranks by text: any records may be the candidates of a scan.   *)
(***************************************************************************)
EXTENDS MemoryCorpus

CONSTANTS
  Calls,                     \* replacing puts under way at the same time
  Nobody,                    \* the draft of a call that is not at work
  Times,                     \* readings of current_time_ms
  Older,                     \* tables that an older build may have left
  MaxWork                    \* bound on the operations of a behaviour

ASSUME StoreAssumption ==
  /\ Times \subseteq Nat /\ MaxWork \in Nat
  /\ \A rows \in Older : IsTable(rows) /\ Distinct(rows) /\ WithinLimits(rows)

VARIABLES
  memories,                  \* the table
  next_id,                   \* memory_metadata, 0 before it is there
  searched,                  \* the fresh-scan mark of the tool
  draft,                     \* what a call is about to replace, and by what
  work,                      \* the operations so far
  authored,                  \* history: what was first written under a key
  removed                    \* history: the ids deleted by a call

storeVars == <<memories, next_id, authored>>
callVars  == <<searched, draft>>
vars      == <<storeVars, callVars, work, removed>>

Unread == "unread"

(* A call of the tool between its two transactions.                        *)
Drafts == [key : Keys, content : Contents, previous : Contents \cup {Unread}]

(* The history after the table has become rows.                            *)
Recorded(history, rows) ==
  [k \in DOMAIN history \cup {KeyOf(rows, id) : id \in DOMAIN rows} |->
     IF k \in DOMAIN history THEN history[k] ELSE rows[k[1]].content]

Init ==
  /\ memories \in Older /\ next_id = 0
  /\ searched = FALSE /\ draft = [c \in Calls |-> Nobody]
  /\ work = 0 /\ removed = {}
  /\ authored = Recorded(<< >>, memories)
-----------------------------------------------------------------------------
(* Named bound: the operations of the sessions count, but for the puts,    *)
(* each of which needs a scan.                                             *)
Works == work < MaxWork /\ work' = work + 1

(* open, then a transaction that leaves rows.                              *)
Commit(rows, next) ==
  /\ memories' = rows /\ next_id' = next
  /\ authored' = Recorded(authored, rows)

(* open, then an operation that only prunes, counts or removes.            *)
Update(rows) ==
  \E n \in Ids : IsNext(n, next_id, memories) /\ Commit(rows, n)

(* open, then an operation that is refused.                                *)
Refuse == Update(memories)

Scan(t) ==
  /\ Works
  /\ LET visible == Pruned(memories, t) IN
     \E candidates \in SUBSET DOMAIN visible :
       Update(Scanned(visible, candidates))
  /\ searched' = TRUE
  /\ UNCHANGED <<draft, removed>>

(* list_local                                                              *)
List(t) ==
  /\ Works
  /\ Update(Pruned(memories, t))
  /\ UNCHANGED <<callVars, removed>>

(* read_local of one key: a key that names nothing is left out.            *)
AfterRead(rows, key) == IF Names(key, rows) THEN WasRead(rows, key[1]) ELSE rows

Read(key, t) ==
  /\ Works
  /\ Update(AfterRead(Pruned(memories, t), key))
  /\ UNCHANGED <<callVars, removed>>

(* The tool's put without a key takes the mark, whatever comes of it.      *)
PutNew(content, t) ==
  /\ searched /\ searched' = FALSE
  /\ LET rows == Pruned(memories, t) IN
     \E n \in Ids :
       /\ IsNext(n, next_id, memories)
       /\ IF CanInsert(rows, n, content)
          THEN Commit(With(rows, n, Fresh(content, 1, t)), n + 1)
          ELSE Commit(memories, n)
  /\ UNCHANGED <<draft, work, removed>>

(* The tool's put with a key: it takes the mark and reads the old content. *)
PutReads(c, key, content, t) ==
  /\ searched /\ searched' = FALSE
  /\ draft[c] = Nobody
  /\ LET rows == Pruned(memories, t) IN
     /\ Update(AfterRead(rows, key))
     /\ draft' = [draft EXCEPT ![c] =
          [key |-> key, content |-> content,
           previous |-> IF Names(key, rows) THEN rows[key[1]].content
                                            ELSE Unread]]
  /\ UNCHANGED <<work, removed>>

(* Then it replaces the version it was given; refused, it changes nothing. *)
PutReplaces(c, t) ==
  /\ draft[c] # Nobody
  /\ LET d == draft[c]
         rows == Pruned(memories, t)
     IN  IF CanReplace(rows, d.key, d.content)
         THEN Update(Replaced(rows, d.key, d.content, t))
         ELSE Refuse
  /\ draft' = [draft EXCEPT ![c] = Nobody]
  /\ UNCHANGED <<searched, work, removed>>

(* delete_local does not prune.                                            *)
Delete(key) ==
  /\ Works
  /\ IF Names(key, memories)
     THEN Update(Without(memories, key[1])) /\ removed' = removed \cup {key[1]}
     ELSE Refuse /\ UNCHANGED removed
  /\ UNCHANGED callVars

(* An older build that inserts: SQLite takes the id after the largest, and *)
(* the trigger refuses one that was already allocated.                     *)
OlderInsert(content, t) ==
  /\ Works
  /\ next_id # 0
  /\ \E id \in Ids :
       /\ IsNext(id, 0, memories) /\ id >= next_id
       /\ CanInsert(memories, id, content)
       /\ Commit(With(memories, id, Fresh(content, 1, t)), id + 1)
  /\ UNCHANGED <<callVars, removed>>

(* A key may be used by whoever was ever given it.                         *)
Given == DOMAIN authored

Next ==
  \/ \E t \in Times :
       \/ Scan(t) \/ List(t)
       \/ \E key \in Given : Read(key, t)
       \/ \E content \in Contents : PutNew(content, t) \/ OlderInsert(content, t)
       \/ \E c \in Calls :
            \/ \E key \in Given, content \in Contents :
                 PutReads(c, key, content, t)
            \/ PutReplaces(c, t)
  \/ \E key \in Given : Delete(key)

Spec == Init /\ [][Next]_vars
-----------------------------------------------------------------------------
TypeOK ==
  /\ IsTable(memories) /\ next_id \in 0 .. MaxInt
  /\ searched \in BOOLEAN /\ work \in 0 .. MaxWork
  /\ draft \in [Calls -> Drafts \cup {Nobody}]
  /\ DOMAIN authored \subseteq Keys /\ Range(authored) \subseteq Contents
  /\ removed \subseteq Ids

(* No id that ever named a record is given to another one, although rows   *)
(* are deleted, expire or come from an older build.                        *)
IdsStayRetired ==
  next_id # 0 => \A k \in DOMAIN authored : k[1] < next_id

(* What the version checks rest on: a key names for ever what was written  *)
(* under it, so a key that still names a record names what its holder saw. *)
KeyNamesOneContent ==
  \A id \in DOMAIN memories :
    /\ KeyOf(memories, id) \in DOMAIN authored
    /\ authored[KeyOf(memories, id)] = memories[id].content

(* Together: an id is for ever one record's, and a key one content's.      *)
KeysKeepTheirMeaning == IdsStayRetired /\ KeyNamesOneContent

(* A record that a call read before it replaces it does not expire under   *)
(* the call: it is there unless somebody deletes or replaces it.           *)
ReadProtects ==
  \A c \in Calls : draft[c] # Nobody /\ draft[c].previous # Unread =>
    LET key == draft[c].key IN
    \/ Names(key, memories) \/ key[1] \in removed
    \/ <<key[1], key[2] + 1>> \in DOMAIN authored

(* The old content that the tool reports is the one it has overwritten,    *)
(* though it was read in an earlier transaction.                           *)
Overwrites(c) ==
  /\ draft[c] # Nobody /\ draft'[c] = Nobody
  /\ memories' # memories
  /\ LET key == draft[c].key
     IN  Names(key, memories) /\ ~Names(key, memories')

PreviousWasOverwritten ==
  [][\A c \in Calls :
       Overwrites(c) =>
         memories[draft[c].key[1]].content = draft[c].previous]_vars
=============================================================================
