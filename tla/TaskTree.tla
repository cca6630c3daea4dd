------------------------------ MODULE TaskTree ------------------------------
(***************************************************************************)
(* The subagent topology of one root session and the authority it gives:   *)
(* crates/subagents/src/task_tree.rs.  A session is named by the agent it  *)
(* was inserted with; Root stands for every session that is not in the     *)
(* tree.  An id is drawn by reserve and inserted later, or never, in any   *)
(* order, because spawn_agent calls run concurrently.                      *)
(***************************************************************************)
EXTENDS Naturals, Sequences, SequencesExt, FiniteSetsExt

CONSTANT MaxAgents           \* bound on the ids a behaviour draws

Root   == 0
Ids    == 1 .. MaxAgents
Owners == {Root} \cup Ids

VARIABLES nodes,             \* TaskTree.nodes: inserted id -> parent, or Root
          next_id,           \* the last id drawn
          reserved           \* ids drawn and not inserted yet, with the parent

vars == <<nodes, next_id, reserved>>

Inserted == DOMAIN nodes

Children(id) == {n \in Inserted : nodes[n] = id}

(* is_descendant: the walk up from the candidate's parent.                 *)
FaultyIsDescendant(candidate, ancestor) == nodes[candidate] = ancestor

IsDescendant(candidate, ancestor) ==
  LET reaches[n \in Inserted] ==
        nodes[n] # Root /\ (nodes[n] = ancestor \/ reaches[nodes[n]])
  IN  reaches[candidate]

(* authorize: a session outside the tree may manage every agent, an agent  *)
(* only its descendants.                                                   *)
Authorized(session, id) ==
  /\ id \in Inserted
  /\ session \in Inserted => IsDescendant(id, session)

(* append_subtree_postorder: children in the order of their ids, then id.  *)
Postorder ==
  LET post[n \in Inserted] ==
        LET children == SetToSortSeq(Children(n), <)
        IN  Append(FlattenSeq([i \in DOMAIN children |-> post[children[i]]]), n)
  IN  post

SubtreePostorder(id) == Postorder[id]

AllPostorder ==
  LET roots == SetToSortSeq(Children(Root), <)
  IN  FlattenSeq([i \in DOMAIN roots |-> Postorder[roots[i]]])
-----------------------------------------------------------------------------
Init == nodes = << >> /\ next_id = 0 /\ reserved = {}

Reserve(parent) ==
  /\ next_id < MaxAgents                            \* bound
  /\ parent # Root => parent \in Inserted
  /\ next_id' = next_id + 1
  /\ reserved' = reserved \cup {[id |-> next_id + 1, parent |-> parent]}
  /\ UNCHANGED nodes

Insert(r) ==
  /\ r.parent # Root => r.parent \in Inserted
  /\ nodes' = [n \in Inserted \cup {r.id} |->
                 IF n = r.id THEN r.parent ELSE nodes[n]]
  /\ reserved' = reserved \ {r}
  /\ UNCHANGED next_id

(* The spawn failed between the two; its id is never used.                 *)
Abandon(r) == reserved' = reserved \ {r} /\ UNCHANGED <<nodes, next_id>>

Next == \/ \E parent \in Owners : Reserve(parent)
        \/ \E r \in reserved : Insert(r) \/ Abandon(r)

Spec == Init /\ [][Next]_vars
-----------------------------------------------------------------------------
TypeOK ==
  /\ Inserted \subseteq 1 .. next_id
  /\ \A n \in Inserted : nodes[n] \in {Root} \cup Inserted
  /\ next_id \in 0 .. MaxAgents
  /\ reserved \subseteq [id : 1 .. next_id, parent : Owners]

(* Ids are drawn in order and a parent is in the tree before its child's   *)
(* id is drawn, so every walk towards the root ends (is_descendant and     *)
(* append_subtree_postorder have no other bound), and an id that a spawn   *)
(* still holds is not yet anybody's.                                       *)
WalksEnd ==
  /\ \A n \in Inserted : nodes[n] < n
  /\ \A r \in reserved : r.id \notin Inserted

(* The reference: the least set that holds id's children and is closed     *)
(* under children.                                                         *)
Descendants(id) ==
  LET closed == {S \in SUBSET Inserted :
                   \A n \in S \cup {id} : Children(n) \subseteq S}
  IN  {n \in Inserted : \A S \in closed : n \in S}

(* The walk of is_descendant finds exactly the descendants; hence no agent *)
(* may manage itself, and no two agents may manage each other.             *)
AuthorityIsAncestry ==
  \A session \in Owners, id \in Inserted :
    Authorized(session, id) <=>
      (session \in Inserted => id \in Descendants(session))

(* A shutdown order names each of its agents once and every agent after    *)
(* all of its descendants; the subtree of an agent and the whole tree are  *)
(* both complete (task_tree.rs:72-95).                                     *)
ShutdownOrder ==
  /\ \A id \in Inserted : LET order == SubtreePostorder(id) IN
       /\ ToSet(order) = {id} \cup Descendants(id)
       /\ Len(order) = Cardinality(ToSet(order))
  /\ ToSet(AllPostorder) = Inserted
  /\ Len(AllPostorder) = Cardinality(Inserted)
  /\ \A i, j \in DOMAIN AllPostorder :
       AllPostorder[j] \in Descendants(AllPostorder[i]) => j < i

(* A node is never removed or moved to another parent, so an authority     *)
(* once given is never lost and a subtree only grows.                      *)
OnlyGrows ==
  [][\A n \in Inserted : n \in DOMAIN nodes' /\ nodes'[n] = nodes[n]]_vars
=============================================================================
