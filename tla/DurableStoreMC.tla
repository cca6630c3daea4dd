---------------------------- MODULE DurableStoreMC ----------------------------
(* Instances of DurableStore for TLC: what the writers append.              *)
EXTENDS DurableStore, TLC

Record(kind) == [kind |-> kind, stream |-> 1]

(* A draft among events, and a final message, which replaces drafts.        *)
TwoShapes ==
  {[records |-> <<Record("other"), Record("draft")>>, resume |-> FALSE],
   [records |-> <<Record("final")>>, resume |-> TRUE]}

(* Handles of one kind, processes of one kind.                              *)
Alike == Permutations(Writers) \cup Permutations(Processes)

OlderKinds == {Record("draft"), Record("other")}
==============================================================================
