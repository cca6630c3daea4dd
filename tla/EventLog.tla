------------------------------ MODULE EventLog -------------------------------
(***************************************************************************)
(* What the session database promises a reader of a session's contract     *)
(* events (the module comment of core/storage/durable.rs): a sequence that *)
(* only grows.  Each event is there for good, at its place; the events of  *)
(* one commit are next to each other, under a revision of their own, and   *)
(* rows adopted from other writers come before them, under revision 0.     *)
(***************************************************************************)
EXTENDS Integers, Sequences

CONSTANT Bodies

VARIABLES log, revision

logVars == <<log, revision>>

Events == [body : Bodies, rev : Nat]

LogInit == log = <<>> /\ revision = 0

New == (Len(log) + 1) .. Len(log')

Extend ==
  /\ Len(log') >= Len(log)
  /\ \A n \in 1 .. Len(log) : log'[n] = log[n]
  /\ \A n \in New : log'[n] \in Events
  /\ revision' \in {revision, revision + 1}
  /\ \A n \in New :
       \/ log'[n].rev = 0 /\ \A m \in New : m < n => log'[m].rev = 0
       \/ log'[n].rev = revision' /\ revision' = revision + 1

LogSpec == LogInit /\ [][Extend]_logVars
==============================================================================
