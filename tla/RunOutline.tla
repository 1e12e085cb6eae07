------------------------------ MODULE RunOutline ------------------------------
(***************************************************************************)
(* What a run promises about its tasks, to the people who watch it and to  *)
(* the agents that work it, while only agents move tasks, and forward:     *)
(* every step is atomic and decided on the run as it is.  No sessions'     *)
(* turns, snapshots, plans, retries or crashes: RunScheduling has those,   *)
(* and its transactions act together as if one of these happened.          *)
(***************************************************************************)
CONSTANTS Task, Deps, Session, None

VARIABLES
  state,    \* state[t]: the status of t
  worker,   \* worker[t]: the session t was given to, or None
  verdict   \* how the run ended, "none" while it has not

outlineVars == <<state, worker, verdict>>

Over(t) == state[t] \in {"completed", "failed", "skipped"}
Failures == {t \in Task : state[t] = "failed"}

\* Every dependency of t is completed.
MayStart(t) == \A d \in Deps[t] : state[d] = "completed"

\* t depends on a task that failed, however far: it is in every set that has
\* what depends on a failed task or on a member.
Doomed(t) ==
  \A S \in SUBSET Task :
    (\A u \in Task : Deps[u] \cap (Failures \cup S) # {} => u \in S) => t \in S

Init ==
  /\ state = [t \in Task |-> "pending"]
  /\ worker = [t \in Task |-> None]
  /\ verdict = "none"

\* A task is given away once, when it can start.
Give(t, s) ==
  /\ state[t] = "pending" /\ worker[t] = None /\ MayStart(t)
  /\ worker' = [worker EXCEPT ![t] = s]
  /\ UNCHANGED <<state, verdict>>

Begin(t) ==
  /\ state[t] = "pending" /\ worker[t] # None /\ MayStart(t)
  /\ state' = [state EXCEPT ![t] = "in_progress"]
  /\ UNCHANGED <<worker, verdict>>

End(t, how) ==
  /\ state[t] = "in_progress"
  /\ state' = [state EXCEPT ![t] = how]
  /\ UNCHANGED <<worker, verdict>>

\* A task that can never start is skipped.
GiveUp(t) ==
  /\ state[t] = "pending" /\ Doomed(t)
  /\ state' = [state EXCEPT ![t] = "skipped"]
  /\ UNCHANGED <<worker, verdict>>

\* The run ends once, when all its tasks have.
Finish ==
  /\ verdict = "none" /\ \A t \in Task : Over(t)
  /\ verdict' = IF Failures = {} THEN "completed" ELSE "failed"
  /\ UNCHANGED <<state, worker>>

Next ==
  \/ \E t \in Task :
       \/ \E s \in Session : Give(t, s)
       \/ Begin(t) \/ GiveUp(t)
       \/ \E how \in {"completed", "failed"} : End(t, how)
  \/ Finish

Spec == Init /\ [][Next]_outlineVars

=============================================================================
