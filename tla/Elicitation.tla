----------------------------- MODULE Elicitation -----------------------------
(***************************************************************************)
(* One question an MCP server asks in the middle of a tool call: the call  *)
(* that stores it, shows it and polls for the answer                       *)
(* (infrastructure/mcp_elicitation.py), the initiator's requests that      *)
(* answer it (services/mcp_elicitation.py), and the row they meet in       *)
(* (repositories/mcp_elicitation.py).                                      *)
(*                                                                         *)
(* Abstracted: the values of an answer and their schema, the chat events.  *)
(***************************************************************************)
CONSTANT Answer   \* requests that answer the question

VARIABLES
  question,  \* the row's status, "none" before it is stored, "gone" after its run
  overdue,   \* its expires_at has passed
  call,      \* [at, result], the tool call that asks
  reply,     \* reply[a]: [at, says, overdue], a request answering
  orphaned   \* the call was cut off where nothing closes its question

askVars == <<question, overdue, call, reply, orphaned>>

Closed == {"accepted", "declined", "cancelled", "expired"}
Said == {"accepted", "declined", "cancelled"}
Ended == {"done", "stopped"}
Asking == {"check", "create", "stored", "show"}
Waiting == {"wait", "expire", "reread"}
NoReply == [at |-> "off", says |-> "declined", overdue |-> FALSE]

AskInit ==
  /\ question = "none" /\ overdue = FALSE
  /\ call = [at |-> "check", result |-> "none"]
  /\ reply = [a \in Answer |-> NoReply]
  /\ orphaned = FALSE

-----------------------------------------------------------------------------
(* The tool call: elicit. *)

\* to_elicit_result, and _NO_ANSWER for a row that is not there.
ResultOf(status) ==
  CASE status = "accepted" -> "accept"
    [] status = "declined" -> "decline"
    [] OTHER -> "cancel"

Becomes(at) == call' = [call EXCEPT !.at = at]
Returns(result) == call' = [at |-> "done", result |-> result]

\* _ask: a run that no longer exists is not asked about.  (The run is deleted
\* with its questions, so a question "gone" stands for it.)
Check ==
  /\ call.at = "check"
  /\ IF question = "gone" THEN Returns("cancel") ELSE Becomes("create")
  /\ UNCHANGED <<question, overdue, reply, orphaned>>

\* create commits, or the run is gone by now and it raises.
Create ==
  /\ call.at = "create"
  /\ IF question = "gone"
     THEN Becomes("stopped") /\ UNCHANGED question
     ELSE Becomes("stored") /\ question' = "pending"
  /\ UNCHANGED <<overdue, reply, orphaned>>

\* create returns: from here on a stop knows what to close.
Note ==
  /\ call.at = "stored"
  /\ Becomes("show")
  /\ UNCHANGED <<question, overdue, reply, orphaned>>

Show ==
  /\ call.at = "show"
  /\ Becomes("wait")
  /\ UNCHANGED <<question, overdue, reply, orphaned>>

\* _wait: one poll.
Poll ==
  /\ call.at = "wait"
  /\ IF question # "pending" THEN Returns(ResultOf(question)) ELSE overdue /\ Becomes("expire")
  /\ UNCHANGED <<question, overdue, reply, orphaned>>

\* Mutant: whatever landed since the poll, the call reads as unanswered.
ExpireBlindly ==
  /\ call.at = "expire"
  /\ question' = IF question = "pending" THEN "expired" ELSE question
  /\ Returns("cancel")
  /\ UNCHANGED <<overdue, reply, orphaned>>

\* Mutant: the expiry is not conditioned on the row being open.
ExpireAnyway ==
  /\ call.at = "expire"
  /\ question' = IF question = "gone" THEN "gone" ELSE "expired"
  /\ Returns("cancel")
  /\ UNCHANGED <<overdue, reply, orphaned>>

\* expire, conditioned on pending.
ExpireQuestion ==
  /\ call.at = "expire"
  /\ IF question = "pending"
     THEN question' = "expired" /\ Returns("cancel")
     ELSE UNCHANGED question /\ Becomes("reread")
  /\ UNCHANGED <<overdue, reply, orphaned>>

\* An answer landed between the read and the expiry: it wins.
Reread ==
  /\ call.at = "reread"
  /\ Returns(ResultOf(question))
  /\ UNCHANGED <<question, overdue, reply, orphaned>>

\* Mutant: a stop does not close the question.
StopOnly ==
  /\ call.at \in Asking \cup Waiting
  /\ Becomes("stopped")
  /\ orphaned' = (orphaned \/ call.at = "stored")
  /\ UNCHANGED <<question, overdue, reply>>

\* The turn is cancelled: what elicit knows to be stored is closed next.
Stop ==
  /\ call.at \in Asking \cup Waiting
  /\ Becomes(IF call.at \in Waiting \cup {"show"} THEN "close" ELSE "stopped")
  /\ orphaned' = (orphaned \/ call.at = "stored")
  /\ UNCHANGED <<question, overdue, reply>>

\* _expire.
Close ==
  /\ call.at = "close"
  /\ question' = IF question = "pending" THEN "expired" ELSE question
  /\ Becomes("stopped")
  /\ UNCHANGED <<overdue, reply, orphaned>>

\* A database error, or the process dies.
Break ==
  /\ call.at \notin Ended
  /\ Becomes("stopped")
  /\ orphaned' = TRUE
  /\ UNCHANGED <<question, overdue, reply>>

-----------------------------------------------------------------------------
(* People and time. *)

\* answer checks that the question exists and reads the clock ...
BeginReply(a, says) ==
  /\ reply[a].at = "off" /\ question \in Closed \cup {"pending"}
  /\ reply' = [reply EXCEPT ![a] = [at |-> "sent", says |-> says, overdue |-> overdue]]
  /\ UNCHANGED <<question, overdue, call, orphaned>>

Accepted(a) == question = "pending" /\ ~reply[a].overdue

\* ... then writes, if the row is still open and was not overdue at that reading.
Write(a) ==
  /\ reply[a].at = "sent"
  /\ question' = IF Accepted(a) THEN reply[a].says ELSE question
  /\ reply' = [reply EXCEPT ![a].at = IF Accepted(a) THEN "taken" ELSE "refused"]
  /\ UNCHANGED <<overdue, call, orphaned>>

Lapse ==
  /\ question # "none" /\ ~overdue
  /\ overdue' = TRUE
  /\ UNCHANGED <<question, call, reply, orphaned>>

\* The run is deleted, its questions with it.
DeleteRun ==
  /\ question # "gone"
  /\ question' = "gone"
  /\ UNCHANGED <<overdue, call, reply, orphaned>>

Proceed == Check \/ Create \/ Note \/ Show \/ Poll \/ ExpireQuestion \/ Reread \/ Close

AskNext ==
  \/ Proceed \/ Stop \/ Break \/ Lapse \/ DeleteRun
  \/ \E a \in Answer : Write(a) \/ \E says \in Said : BeginReply(a, says)

AskSpec == AskInit /\ [][AskNext]_askVars

-----------------------------------------------------------------------------
(* Properties. *)

AskTypeOK ==
  /\ question \in Closed \cup {"none", "pending", "gone"}
  /\ overdue \in BOOLEAN /\ orphaned \in BOOLEAN
  /\ call \in [at : Asking \cup Waiting \cup Ended \cup {"close"},
               result : {"none", "accept", "decline", "cancel"}]
  /\ reply \in [Answer -> [at : {"off", "sent", "taken", "refused"}, says : Said, overdue : BOOLEAN]]

\* The server hears what the row says: an answer that was recorded is never lost
\* to the expiry it raced, nor one that came too late passed on.
AnswerIsResult == call.at = "done" /\ question \in Closed => call.result = ResultOf(question)

\* A person who was told that their answer was taken is the one the row names.
ReceiptIsTrue == \A a \in Answer : reply[a].at = "taken" => question \in {reply[a].says, "gone"}

\* Nobody can answer a question nobody waits on (elicit's comment), unless the
\* call was cut off.
OpenOnlyWhileWaited == call.at \in Ended /\ ~orphaned => question # "pending"

=============================================================================
