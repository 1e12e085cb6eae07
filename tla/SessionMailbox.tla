--------------------------- MODULE SessionMailbox ---------------------------
(***************************************************************************)
(* What a session's row promises to whoever hands it input: one slot.  An  *)
(* input is accepted only by a resting session, is never replaced by       *)
(* another, and leaves the slot only once a turn has begun since it was    *)
(* accepted, or the session was given up on.  This is the compare-and-set  *)
(* contract of SqlExecutionSessionRepository.queue_input, without locks,   *)
(* replicas, approvals or crashes.                                         *)
(***************************************************************************)
CONSTANTS Input, NoInput

VARIABLES
  mode,   \* "resting", "queued" or "running"
  slot    \* the accepted input, NoInput when none

Init == mode = "queued" /\ slot \in Input

Accept(i) == mode = "resting" /\ mode' = "queued" /\ slot' = i

\* A turn begins: on accepted input, on a time that has come, or to recover.
Start == mode' = "running" /\ slot' = slot

\* The turn under way has consumed its input.
Consume == mode = "running" /\ slot' = NoInput /\ UNCHANGED mode

Rest == mode = "running" /\ slot = NoInput /\ mode' = "resting" /\ UNCHANGED slot

\* No agent can be resolved for the run: the session is in error.
GiveUp == mode' = "resting" /\ slot' = NoInput

Next == (\E i \in Input : Accept(i)) \/ Start \/ Consume \/ Rest \/ GiveUp

Spec == Init /\ [][Next]_<<mode, slot>>

=============================================================================
