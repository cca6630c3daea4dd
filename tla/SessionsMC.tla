------------------------------ MODULE SessionsMC ------------------------------
(* Instances of Sessions for TLC.                                           *)
EXTENDS Sessions, TLC

CONSTANTS p1, p2, m1

TwoProcesses == {p1, p2}
OneMessage   == {m1}
Same         == Permutations(Processes)
==============================================================================
