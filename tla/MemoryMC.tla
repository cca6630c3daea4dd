------------------------------ MODULE MemoryMC ------------------------------
(* Small instances of MemoryTransfer.                                      *)
EXTENDS MemoryTransfer, TLC

(* Four contents: "a" and "A" are the same to normalize_identity.  A third *)
(* record exceeds the limit of records alone, "A" with another one that of *)
(* bytes alone.                                                            *)
FourContents == {"a", "A", "b", "c"}
IdentityOf(x) == IF x = "A" THEN "a" ELSE x
LengthOf(x) == IF x = "A" THEN 3 ELSE 1

OldRow(x, u) == [content |-> x, version |-> 1, scans |-> 0, uses |-> 0, until |-> u]

(* An older build left nothing, or one record on probation and one not.    *)
OldTables == {<< >>, <<OldRow("a", 1), OldRow("b", 0)>>}

TwoCalls == Permutations(Calls)

(* Named bound: the sessions on the local store do all of MaxWork as long  *)
(* as nothing is transferred and the namespace is empty, and two           *)
(* operations, with no replacement under way, otherwise; a behaviour ends  *)
(* with the command.                                                       *)
Alone == step = "idle" /\ remote = << >>
Small == Alone \/ (~Over /\ work <= 2 /\ \A c \in Calls : draft[c] = Nobody)
=============================================================================
