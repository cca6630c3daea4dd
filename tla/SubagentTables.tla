--------------------------- MODULE SubagentTables ---------------------------
(***************************************************************************)
(* The tables of the subagent runtime, each explored by itself: the turns  *)
(* of one child, the task tree, the message threads and a front-end's      *)
(* roster share no state with each other, so a behaviour of this module    *)
(* works on one of them and leaves the others as they begin.  How they act *)
(* together is the subject of Subagents.                                   *)
(***************************************************************************)
EXTENDS ChildTurn

CONSTANTS MaxAgents, Agents, RootSession, MaxRetained, MaxMessages, Shown

ASSUME TablesAssumption == MaxRetained \in Nat

VARIABLES nodes, next_id, reserved,
          threads, thread_by_message, retained_order, pending,
          next_message_id, prepared,
          known, roster, unsent, launched, open, gone, closing, early,
          table              \* the table this behaviour works on

Tree    == INSTANCE TaskTree
Threads == INSTANCE MessageThreads WITH Root <- RootSession
Shows   == INSTANCE Roster WITH Agents <- Shown, status <- known

treeVars   == <<nodes, next_id, reserved>>
threadVars == <<threads, thread_by_message, retained_order, pending,
                next_message_id, prepared>>
rosterVars == <<known, roster, unsent, launched, open, gone, closing, early>>
allVars    == <<vars, treeVars, threadVars, rosterVars, table>>

TablesInit ==
  /\ Init /\ Tree!Init /\ Threads!Init /\ Shows!Init
  /\ table \in {"turn", "tree", "threads", "roster"}

TablesNext ==
  \/ /\ table = "turn" /\ Next
     /\ UNCHANGED <<treeVars, threadVars, rosterVars, table>>
  \/ /\ table = "tree" /\ Tree!Next
     /\ UNCHANGED <<vars, threadVars, rosterVars, table>>
  \/ /\ table = "threads" /\ Threads!Next
     /\ UNCHANGED <<vars, treeVars, rosterVars, table>>
  \/ /\ table = "roster" /\ Shows!Next
     /\ UNCHANGED <<vars, treeVars, threadVars, table>>

TablesSpec == TablesInit /\ [][TablesNext]_allVars
-----------------------------------------------------------------------------
(* The walk of is_descendant finds exactly the descendants, so that no     *)
(* agent may manage itself and no two each other; and a shutdown order     *)
(* names each of its agents once and every agent after all of its          *)
(* descendants, though ids are inserted in another order than they are     *)
(* drawn (task_tree.rs:28-113).                                            *)
WalksFollowTheTree == Tree!AuthorityIsAncestry /\ Tree!ShutdownOrder

(* Whatever was trimmed or rolled back, the three indexes of the message   *)
(* history agree, the history is bounded, and a thread is a conversation   *)
(* of two in which a reply goes back to the sender of what it answers      *)
(* (message.rs, reply_thread).                                             *)
ThreadsStayWhole ==
  Threads!IndexesAgree /\ Threads!HistoryBounded /\ Threads!TwoParty

(* Once everything is sent, a child that no close works on and that was    *)
(* announced before it was closed is shown as it is (roster.rs).           *)
RosterCatchesUp == Shows!RosterCatchesUp
==============================================================================
