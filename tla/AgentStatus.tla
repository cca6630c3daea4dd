----------------------------- MODULE AgentStatus -----------------------------
(***************************************************************************)
(* The lifecycle states of a child session, AgentStatus of                 *)
(* crates/subagents/src/model.rs, and the predicates the runtime asks of   *)
(* them.  The payloads (the result of Completed, the error of Failed) are  *)
(* modelled where they matter, by the modules that use this one.           *)
(***************************************************************************)
Statuses == {"pending", "running", "completed", "interrupted", "failed",
             "closing", "closed"}

(* is_wait_terminal()                                                      *)
WaitTerminal == {"completed", "interrupted", "failed", "closed"}

(* can_start_turn()                                                        *)
Startable == {"pending", "completed", "interrupted", "failed"}

(* is_active()                                                             *)
ActiveStatuses == {"pending", "running", "closing"}

(* The states every handler tests before it revives a child.               *)
Stopped == {"closing", "closed"}
==============================================================================
