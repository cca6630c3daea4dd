------------------------------ MODULE Messaging ------------------------------
(***************************************************************************)
(* send_agent_message: Registry::send_message of runtime/messaging.rs.     *)
(* The sender holds message_lock from the preparation to the disposition;  *)
(* the message waits in the recipient's channel until it is committed.     *)
(***************************************************************************)
EXTENDS Lifecycle

(* Ids are drawn in order.                                                 *)
NextMessage == CHOOSE m \in Messages :
                 /\ commit[m] = "unsent"
                 /\ \A n \in 1 .. m - 1 : commit[n] # "unsent"

MayReceive(a) ==
  /\ status[a] \notin {"pending"} \cup Stopped
  /\ a \in handle /\ hpc[a] # "gone"

(* prepare_message and enqueue_delivery; a refusal changes nothing.        *)
SendPrepare(c, session, a, urgent, delegate) ==
  LET m == NextMessage IN
  /\ Begins(c, session, "send") /\ lock = Nobody
  /\ \E n \in Messages : commit[n] = "unsent"                    \* bound
  /\ a \in Born \ {session}
  /\ delegate => Authorized(session, a)
  /\ MayReceive(a)
  /\ message' = [message EXCEPT ![m] =
                   [to |-> a, urgent |-> urgent, delegate |-> delegate]]
  /\ HasRoom(mailbox[a], urgent)
  /\ mailbox' = [mailbox EXCEPT ![a] = Put(@, m, urgent)]
  /\ commit' = [commit EXCEPT ![m] = "wait"]
  /\ sent' = [sent EXCEPT ![c] = m]
  /\ lock' = c
  /\ CallAt(c, "send_commit")
  /\ UNCHANGED <<sessionVars, capacityVars, harnessVars, commands,
                 libraryVars, answer, record, given, ids, waits, historyVars>>

(* commit_message, and release() lets the delivery go on.                  *)
SendCommit(c) ==
  /\ cpc[c] = "send_commit"
  /\ record' = [record EXCEPT ![sent[c]] = "pending"]
  /\ commit' = [commit EXCEPT ![sent[c]] = "yes"]
  /\ CallAt(c, "send_wait")
  /\ UNCHANGED <<sessionVars, capacityVars, harnessVars, channelVars,
                 libraryVars, message, answer, given, by, ids, waits, sent,
                 lock, historyVars>>

Delivered(m) == answer[m] = "ok"

(* The disposition arrives, or the message is rolled back.                 *)
SendReturns(c) ==
  /\ cpc[c] = "send_wait" /\ answer[sent[c]] # "none"
  /\ IF Delivered(sent[c]) THEN UNCHANGED record ELSE RollBack(sent[c])
  /\ Returns(c)
  /\ UNCHANGED <<sessionVars, capacityVars, harnessVars, channelVars,
                 libraryVars, message, commit, answer, given, by, ids, waits,
                 sent, historyVars>>
==============================================================================
